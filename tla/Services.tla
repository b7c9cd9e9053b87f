------------------------------ MODULE Services -------------------------------
(****************************************************************************)
(* What the daemon, the loop and the command line keep and decide between   *)
(* runs: the retry governance, the audit log, the daemon's store, the cost  *)
(* ledger, the watch process and its reconciler, a campaign pass and a      *)
(* role's routing with their decisions, the guardrails, the layered         *)
(* configuration, the declared tools, the lifecycle of a session and its    *)
(* workspace.                                                               *)
(****************************************************************************)
EXTENDS Naturals, Sequences, FiniteSets

CONSTANTS
  Components,  \* those that move, one in each behaviour
  Callers, MaxAttempts, FailureThreshold, RecoveryTimeout, MaxClock, MaxOps,
  LogConns, Payloads, MaxCommits, MaxImport,
  StoreConns, MaxEvents, MaxRestarts,
  LedgerConns, LedgerSessions, Profiles, HardCap, SoftCap, Estimate, MaxTokens, MaxEntries,
  Procs, Watches, WTasks, MaxTaskAttempts, MaxPruneFailures, MaxProcCrashes,
  RTasks, MaxPolls, MaxInvocations, MaxAppendFailures,
  MaxConfidence, Passes, Cards, CleanRepos, Slug(_), Digest(_), FactSet, MaxBoardMoves,
  Resolvers,
  Settings, DefaultGuard, DefaultRepeat, DefaultWindow, DefaultTurns, CallShapes,
  Sources, Keys, Values, Editors, MaxConfigEdits, ToolLayers, Definitions,
  RequestKeys, LeaseTTL, AfterCalls, AfterSeconds, MaxTransitions, MaxTime, MaxStarts,
  Paths, Kinds, Sparse, MaxHeads, MaxWorkspaceEdits, MaxFaults

VARIABLES
  focus,         \* the component that moves in this behaviour
  breaker, caller, governanceClock, ops, probes, early,
  auditRows, commits, version, cache, envelope, importing, raced, tampered,
  migrated, conn, events, writer, storeHeld, temp, object, content, restarts,
  schema, entries, receipts, ledger, decision,
  lock, stage, watchTree, worker, failures, genuine, settled, pruneFails,
  crashes,
  reconBoard, recovered, seen, previous, snapshot, batch, polling,
  divergedLog, promotedLog, unblocked, lastSeen, blockedSince, polls,
  invocations, appendFailures,
  campaignBoard, pass, campaignRows, workers, moves,
  keys, job, routingVersion, routingRows,
  block, resolves, weak, mode, step, settings, warned, maxTurns, window, run,
  file, backup, edit, inputs, loaded, configEdits,
  toolId, defined, registry,
  session, trail, lifecycleClock, starts, lease, alive, recovery, cursor,
  lifecycleHeld, token,
  head, workspaceTree, snap, files, manifest, report, changed, dirty, local,
  remote, diverged, pr, deliver, workspaceEdits, faults

Gov == INSTANCE Governance WITH clock <- governanceClock
Stores == INSTANCE EventStores WITH rows <- auditRows, held <- storeHeld
Costs == INSTANCE CostLedger
Watch == INSTANCE WatchProcess WITH tree <- watchTree, board <- reconBoard
Campaign == INSTANCE CampaignPass WITH
  Items <- Cards, board <- campaignBoard, rows <- campaignRows
Routing == INSTANCE RoleRouting WITH version <- routingVersion
Limits == INSTANCE LoopLimits
Config == INSTANCE LayeredConfig WITH MaxEdits <- MaxConfigEdits, edits <- configEdits
Life == INSTANCE Lifecycle WITH clock <- lifecycleClock, held <- lifecycleHeld
Space == INSTANCE Workspace WITH
  MaxEdits <- MaxWorkspaceEdits, tree <- workspaceTree, edits <- workspaceEdits

(* What the constants of the code justify: its counts are natural numbers  *)
(* and its default guards are on, its configuration has eight layers, a    *)
(* process is not nobody, no connection to the log is the program outside, *)
(* and no entry of a commit has the name of what an edit leaves.  A board  *)
(* and the files of a configuration are finite, a card is its repository   *)
(* and number, and the 32-bit digest of a repository's name (FNV-1a) is    *)
(* taken to tell the repositories of one board apart.                      *)
ASSUME ServicesAssumption ==
  /\ Gov!GovernanceAssumption
  /\ Watch!Nobody \notin Procs /\ "outside" \notin LogConns
  /\ IsFiniteSet(RTasks)
  /\ AfterCalls \in Nat
  /\ ToolLayers \subseteq 1 .. 8
  /\ Kinds \subseteq {"blob", "link", "escapingLink", "dotgit"}
  /\ Settings \subseteq Nat /\ DefaultTurns \in Nat \ {0}
  /\ DefaultGuard \in Nat \ {0} /\ DefaultWindow \in Nat \ {0}
  /\ DefaultRepeat \in Nat \ {0, 1}
  /\ MaxImport \in Nat
  /\ IsFiniteSet(Profiles) /\ HardCap \in Nat /\ SoftCap \in Nat /\ Estimate \in Nat
  /\ IsFiniteSet(Cards) /\ Cards \subseteq [repo : Nat, number : Nat]
  /\ \A i, j \in Cards : Digest(i.repo) = Digest(j.repo) => i.repo = j.repo
  /\ \A f \in FactSet : f.p0 \in BOOLEAN
  /\ IsFiniteSet(Sources) /\ Sources \subseteq [layer : Nat, name : Nat]

-----------------------------------------------------------------------------
(* Values for the run: two cards of two repositories whose names have the  *)
(* same slug, four files on three layers, a tool that three layers define  *)
(* in part.                                                                *)
TwoCards == {[repo |-> 1, number |-> 1], [repo |-> 2, number |-> 1]}
SameSlug(repo) == 0
OwnDigest(repo) == repo
Card(read, type, ready, target, p0, blockers) ==
  [read |-> read, type |-> type, ready |-> ready, target |-> target, p0 |-> p0,
   blockers |-> blockers]
PlainCard == Card("open", "leaf", TRUE, TRUE, FALSE, 0)
FourFacts == {PlainCard, Card("open", "label", TRUE, FALSE, TRUE, 0),
              Card("open", "leaf", TRUE, TRUE, FALSE, 1), Card("closed", "leaf", TRUE, TRUE, FALSE, 0)}

FourFiles == {[layer |-> 1, name |-> 0], [layer |-> 3, name |-> 0], [layer |-> 3, name |-> 1],
                [layer |-> 5, name |-> 0]}

(* A layer's definition of the tool; a layer that gives no field has no entry. *)
Tool(kind, command, role, visible, budget, enabled) ==
  [kind |-> kind, command |-> command, role |-> role, internal |-> "absent",
   visible |-> visible, budget |-> budget, effort |-> "absent", enabled |-> enabled]
ElevenTools ==
  {Tool("absent", "absent", "absent", "absent", "absent", "absent"),
   Tool("command", "argv", "absent", "worker", "absent", "absent"),
   Tool("absent", "absent", "known", "absent", "absent", "absent"),
   Tool("subagent", "absent", "known", "worker", "absent", "absent"),
   Tool("absent", "argv", "absent", "absent", "absent", "absent"),
   Tool("absent", "absent", "absent", "absent", "absent", "false"),
   Tool("absent", "absent", "absent", "absent", "absent", "true"),
   Tool("command", "argv", "absent", "unknown", "absent", "absent"),
   Tool("absent", "absent", "absent", "absent", "zero", "absent"),
   Tool("command", "empty", "absent", "nobody", "absent", "absent"),
   Tool("other", "absent", "absent", "absent", "absent", "absent")}

-----------------------------------------------------------------------------
governanceState == <<breaker, caller, governanceClock, ops, probes, early>>
auditState == <<auditRows, commits, version, cache, envelope, importing,
                raced, tampered>>
storeState == <<migrated, conn, events, writer, storeHeld, temp, object,
                content, restarts>>
costsState == <<schema, entries, receipts, ledger, decision>>
watchState == <<lock, stage, watchTree, worker, failures, genuine, settled,
                pruneFails, crashes>>
reconState == <<reconBoard, recovered, seen, previous, snapshot, batch,
                polling, divergedLog, promotedLog, unblocked, lastSeen,
                blockedSince, polls, invocations, appendFailures>>
campaignState == <<campaignBoard, pass, campaignRows, workers, moves>>
routingState == <<keys, job, routingVersion, routingRows>>
limitsState == <<block, resolves, weak, mode, step, settings, warned,
                 maxTurns, window, run>>
configState == <<file, backup, edit, inputs, loaded, configEdits>>
registryState == <<toolId, defined, registry>>
lifecycleState == <<session, trail, lifecycleClock, starts, lease, alive,
                    recovery, cursor, lifecycleHeld, token>>
workspaceState == <<head, workspaceTree, snap, files, manifest, report,
                    changed, dirty, local, remote, diverged, pr, deliver,
                    workspaceEdits, faults>>
vars == <<focus, governanceState, auditState, storeState, costsState,
          watchState, reconState, campaignState, routingState, limitsState,
          configState, registryState, lifecycleState, workspaceState>>

(* The components do not meet: one of them moves, the others stay as they *)
(* begin.                                                                 *)
Init ==
  /\ focus \in Components
  /\ Gov!GovInit
  /\ Stores!LogInit
  /\ Stores!StoreInit
  /\ Costs!LedgerInit /\ (focus # "costs" => schema = "none")
  /\ Watch!WatchInit
  /\ (focus # "recon" => recovered = {} /\ reconBoard = [t \in RTasks |-> "open"])
  /\ Watch!ReconInit
  /\ (focus # "campaign" => campaignBoard = [i \in Cards |-> PlainCard])
  /\ Campaign!CampaignInit
  /\ (focus # "routing" => keys = [provider |-> Routing!Unset, model |-> Routing!Unset])
  /\ Routing!RoutingInit
  /\ (focus # "limits" => block = <<>> /\ resolves = TRUE /\ weak = {} /\ mode = "orc loop")
  /\ Limits!LimitsInit
  /\ Config!ConfigInit
  /\ (focus # "registry" => toolId = "plain" /\ defined = [l \in ToolLayers |-> Config!NoTool])
  /\ Config!ToolInit
  /\ Life!LifecycleInit
  /\ (focus # "workspace" => workspaceTree = [p \in Paths |-> "blob"])
  /\ Space!WorkspaceInit

Next ==
  \/ /\ focus = "governance" /\ Gov!GovNext
     /\ UNCHANGED <<focus, auditState, storeState, costsState, watchState,
                    reconState, campaignState, routingState, limitsState,
                    configState, registryState, lifecycleState,
                    workspaceState>>
  \/ /\ focus = "audit" /\ Stores!LogNext
     /\ UNCHANGED <<focus, governanceState, storeState, costsState,
                    watchState, reconState, campaignState, routingState,
                    limitsState, configState, registryState, lifecycleState,
                    workspaceState>>
  \/ /\ focus = "store" /\ Stores!StoreNext
     /\ UNCHANGED <<focus, governanceState, auditState, costsState,
                    watchState, reconState, campaignState, routingState,
                    limitsState, configState, registryState, lifecycleState,
                    workspaceState>>
  \/ /\ focus = "costs" /\ Costs!LedgerNext
     /\ UNCHANGED <<focus, governanceState, auditState, storeState,
                    watchState, reconState, campaignState, routingState,
                    limitsState, configState, registryState, lifecycleState,
                    workspaceState>>
  \/ /\ focus = "watch" /\ Watch!WatchNext
     /\ UNCHANGED <<focus, governanceState, auditState, storeState,
                    costsState, reconState, campaignState, routingState,
                    limitsState, configState, registryState, lifecycleState,
                    workspaceState>>
  \/ /\ focus = "recon" /\ Watch!ReconNext
     /\ UNCHANGED <<focus, governanceState, auditState, storeState,
                    costsState, watchState, campaignState, routingState,
                    limitsState, configState, registryState, lifecycleState,
                    workspaceState>>
  \/ /\ focus = "campaign" /\ Campaign!CampaignNext
     /\ UNCHANGED <<focus, governanceState, auditState, storeState,
                    costsState, watchState, reconState, routingState,
                    limitsState, configState, registryState, lifecycleState,
                    workspaceState>>
  \/ /\ focus = "routing" /\ Routing!RoutingNext
     /\ UNCHANGED <<focus, governanceState, auditState, storeState,
                    costsState, watchState, reconState, campaignState,
                    limitsState, configState, registryState, lifecycleState,
                    workspaceState>>
  \/ /\ focus = "limits" /\ Limits!LimitsNext
     /\ UNCHANGED <<focus, governanceState, auditState, storeState,
                    costsState, watchState, reconState, campaignState,
                    routingState, configState, registryState, lifecycleState,
                    workspaceState>>
  \/ /\ focus = "config" /\ Config!ConfigNext
     /\ UNCHANGED <<focus, governanceState, auditState, storeState,
                    costsState, watchState, reconState, campaignState,
                    routingState, limitsState, registryState, lifecycleState,
                    workspaceState>>
  \/ /\ focus = "registry" /\ Config!ToolNext
     /\ UNCHANGED <<focus, governanceState, auditState, storeState,
                    costsState, watchState, reconState, campaignState,
                    routingState, limitsState, configState, lifecycleState,
                    workspaceState>>
  \/ /\ focus = "lifecycle" /\ Life!LifecycleNext
     /\ UNCHANGED <<focus, governanceState, auditState, storeState,
                    costsState, watchState, reconState, campaignState,
                    routingState, limitsState, configState, registryState,
                    workspaceState>>
  \/ /\ focus = "workspace" /\ Space!WorkspaceNext
     /\ UNCHANGED <<focus, governanceState, auditState, storeState,
                    costsState, watchState, reconState, campaignState,
                    routingState, limitsState, configState, registryState,
                    lifecycleState>>

Spec == Init /\ [][Next]_vars

-----------------------------------------------------------------------------
(* As long as nobody edits its file, the audit log is one hash chain       *)
(* without gap or fork, whatever cached head a connection or an import     *)
(* works from; the daemon's events are one chain although connections open *)
(* and migrate at once; unless a process died in the write, a blob that    *)
(* nobody writes any more is whole; and no promotion that two polls of the *)
(* board saw is missing in the log.                                        *)
ChainsKept ==
  /\ Stores!ChainKept /\ Stores!EventChainKept /\ Stores!BlobsComplete
  /\ Watch!PromotionsRecorded

(* Nothing exceeds what was configured or takes what is in use.  The       *)
(* guardrails of a campaign are the ones its settings ask for and its      *)
(* workers enforce.  The breaker is away from Closed exactly while the     *)
(* failures since the last success reach the threshold, and starts nothing *)
(* in a cooldown.  No prune of any process, crashed or not, takes the      *)
(* worktree a worker runs in.                                              *)
LimitsKept ==
  /\ Limits!LimitsEnforced /\ Gov!GovTypeOK /\ Gov!BreakerSound /\ Watch!WorktreeKept

(* A record is appended to a chain that verifies, although append skips    *)
(* the verification when its cache is current.  The exception is a         *)
(* connection whose import was overtaken: it caches the head it imported   *)
(* with the data_version that includes the other's write, and its next     *)
(* appends, until it looks again, trust that cache.  And a reconcile batch *)
(* cut short by a failed append is taken up again without repeating what   *)
(* it had recorded.                                                        *)
RecordsAppendOnce == Stores!AppendsToVerified /\ Watch!RecordedOnce

(* Whatever a decision provider answers, a worker's task was ready in the  *)
(* snapshot its decision was made from, and the decision is on record; a   *)
(* recorded routing names a provider that is configured; explain shows the *)
(* value of the highest layer that sets a key, whatever was edited while   *)
(* the files were read, and the effective configuration has it for every   *)
(* key the document knows and the merges do not leave out; no receipt is   *)
(* in the roll-ups of two profiles, of the old schema neither, and a       *)
(* decision that warns or blocks is not undone by what others insert.      *)
DecisionsSound ==
  /\ Campaign!DecisionsSound /\ Routing!RoutingSound /\ Config!LayersResolve
  /\ Costs!RollupsExact /\ Costs!BlocksStand

(* No field of a tool that a worker can call comes from an untrusted       *)
(* layer; a session's durable record is a chain that applies no request    *)
(* twice across restarts; a snapshot that is handed out holds every        *)
(* visible path, a reconciliation names each of them that was changed      *)
(* before it began (a created file is not in the manifest and not named),  *)
(* and a failed delivery loses no commit.                                  *)
SessionsContained == Config!ToolsTrusted /\ Life!RecordIsChain /\ Space!SnapshotAccounted

(* Every key of a higher layer replaces the built-in default, as the       *)
(* comment on the daemon's defaults says (watch.rs).  WatchConfigBlock's   *)
(* merge leaves two of its blocks out.                                     *)
OverridesTakeEffect == Config!OverridesTakeEffect
=============================================================================
