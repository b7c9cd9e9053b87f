----------------------------- MODULE CampaignPass -----------------------------
(***************************************************************************)
(* One pass of a campaign: a snapshot of the board is read, the ready      *)
(* items are ordered, an optional decision provider is asked to choose     *)
(* among them, the decision is recorded, and only then a worker is spawned *)
(* for the selected task.  Several passes may run over one decision store, *)
(* and the board changes under them.                                       *)
(***************************************************************************)
EXTENDS DecisionProvider, Sequences, SequencesExt

CONSTANTS
  Passes, Items,          \* items are records [repo, number]
  CleanRepos,             \* the repositories whose name needs no slug
  Slug(_), Digest(_),     \* the lossy slug of a repository and the hash of its name
  FactSet,                \* the item facts that occur
  MaxBoardMoves

VARIABLES
  board,      \* item -> its facts
  pass,       \* pass -> its local state
  rows,       \* the decision store, in id order
  workers,    \* history: the workers started, with the pass that started them
  moves

campaignVars == <<board, pass, rows, workers, moves>>

(* task_id_for: the readable form where it is unambiguous, else the slug and a digest. *)
(* Mutant: no digest. *)
MutantTaskIdFor(i) == IF i.repo \in CleanRepos THEN <<"name", i.repo, i.number>> ELSE <<"slug", Slug(i.repo), i.number>>

TaskIdFor(i) ==
  IF i.repo \in CleanRepos THEN <<"name", i.repo, i.number>>
  ELSE <<"slug", Slug(i.repo), Digest(i.repo), i.number>>

(* item_facts: an item whose facts cannot be trusted is left out with a warning. *)
IsFact(f) == f.read = "open"
OpenItems(b) == {i \in Items : IsFact(b[i])}
Warnings(b) == {[item |-> i, kind |-> b[i].read] : i \in Items \ OpenItems(b)}

(* matches_leaf_mvp_ready: a native type decides alone, the labels only without one. *)
MatchesLeafReady(f, requireTarget) ==
  /\ f.type \in {"leaf", "label"}
  /\ requireTarget => f.target
  /\ f.ready

IsEligible(f, requireTarget) == MatchesLeafReady(f, requireTarget) /\ f.blockers = 0
ReadyQueue(b, rt) == {i \in OpenItems(b) : IsEligible(b[i], rt)}
BlockedCandidates(b, rt) == {i \in OpenItems(b) : MatchesLeafReady(b[i], rt) /\ b[i].blockers > 0}

(* compute_selection: P0 first, then the repository and the number. *)
Before(b, i, j) ==
  \/ b[i].p0 /\ ~b[j].p0
  \/ b[i].p0 = b[j].p0 /\ (i.repo < j.repo \/ (i.repo = j.repo /\ i.number < j.number))
ComputeSelection(b, ready) ==
  CHOOSE s \in [1 .. Cardinality(ready) -> ready] : \A m, n \in DOMAIN s : m < n => Before(b, s[m], s[n])

(* no_op_classification *)
NoOpReason(snap) ==
  IF snap.open = {}
  THEN IF snap.warnings # {} /\ \A w \in snap.warnings : w.kind = "closed" THEN "EpicExhausted" ELSE "EmptyQueue"
  ELSE IF snap.blocked = {} THEN "EmptyQueue" ELSE "AllBlocked"

(* selection_attribution: the provider is named only where its choice was taken. *)
Chosen(ordered, consulted) ==
  IF consulted.status = "ok" THEN SelectInSeq(ordered, LAMBDA i : TaskIdFor(i) = consulted.value) ELSE 0
Attribution(ordered, consulted) == IF Chosen(ordered, consulted) # 0 THEN "decision-provider" ELSE "routing"

(* campaign_decision *)
(* Mutant: a choice outside the ready set is taken at its word. *)
MutantSelect(ordered, consulted) ==
  IF consulted.status = "ok" /\ Chosen(ordered, consulted) = 0
  THEN CHOOSE i \in Items : TRUE ELSE ordered[IF Chosen(ordered, consulted) = 0 THEN 1 ELSE Chosen(ordered, consulted)]
Select(ordered, consulted) == ordered[IF Chosen(ordered, consulted) = 0 THEN 1 ELSE Chosen(ordered, consulted)]

CampaignDecision(p, snap, consulted) ==
  LET ordered == snap.ordered
  IN IF ordered # <<>>
     THEN LET item == Select(ordered, consulted)
          IN [pass |-> p, kind |-> "Selected", selected |-> item, path |-> Attribution(ordered, consulted), reason |-> "none",
              alternatives |-> {i \in ToSet(ordered) : TaskIdFor(i) # TaskIdFor(item)}]
     ELSE [pass |-> p, kind |-> "NoOp", selected |-> "none", path |-> "routing", reason |-> NoOpReason(snap), alternatives |-> {}]

Idle == [pc |-> "idle", snap |-> [open |-> {}, ordered |-> <<>>, blocked |-> {}, warnings |-> {}],
         provider |-> "off", answered |-> Unavailable]

CampaignInit ==
  /\ board \in [Items -> FactSet] /\ pass = [p \in Passes |-> Idle]
  /\ rows = <<>> /\ workers = {} /\ moves = 0

(* The board moves on. *)
BoardMoves ==
  /\ moves < MaxBoardMoves /\ moves' = moves + 1
  /\ \E i \in Items, f \in FactSet : board' = [board EXCEPT ![i] = f]
  /\ UNCHANGED <<pass, rows, workers>>

(* run_pass up to the plan: the snapshot is read, the provider built; a provider that is     *)
(* configured but cannot be built ends the pass.                                             *)
TakeSnapshot(p) ==
  /\ pass[p].pc = "idle"
  /\ \E c \in {cfg \in ProviderConfigs : cfg.base_url \in {"unset", "https"} /\ cfg.api_key = "unset"}, rt \in BOOLEAN :
       LET ready == ReadyQueue(board, rt)
           snap == [open |-> OpenItems(board), ordered |-> ComputeSelection(board, ready),
                    blocked |-> BlockedCandidates(board, rt), warnings |-> Warnings(board)]
           built == ResolveProvider(c)
       IN pass' = [pass EXCEPT ![p] =
                     [pc |-> IF built = "error" THEN "refused"
                             ELSE IF built # "off" /\ ready # {} THEN "consult" ELSE "plan",
                      snap |-> snap, provider |-> built, answered |-> Unavailable]]
  /\ UNCHANGED <<board, rows, workers, moves>>

(* consult_task_selection: an answer, an error, or nothing within DECISION_CONSULT_TIMEOUT.  *)
(* The fixture may name any task; the System One client checks the answer itself.            *)
Consult(p) ==
  /\ pass[p].pc = "consult"
  /\ LET ids == {TaskIdFor(i) : i \in ToSet(pass[p].snap.ordered)}
     IN \E result \in
          {Unavailable}
            \union (IF pass[p].provider = "fixture"
                    THEN {[status |-> "ok", value |-> t] : t \in {TaskIdFor(i) : i \in Items} \union {<<Stranger>>}}
                    ELSE {ProposeTaskSelection(ids, a) :
                            a \in [choice : {TaskIdFor(i) : i \in Items}, confidence : {MaxConfidence, MaxConfidence + 1}]}) :
          pass' = [pass EXCEPT ![p].answered = result, ![p].pc = "plan"]
  /\ UNCHANGED <<board, rows, workers, moves>>

(* plan_pass: the decision is recorded, and read back by its row id; a store failure ends    *)
(* the pass before anything is spawned.                                                      *)
Plan(p) ==
  /\ pass[p].pc = "plan"
  /\ \/ /\ rows' = Append(rows, CampaignDecision(p, pass[p].snap, pass[p].answered))
        /\ pass' = [pass EXCEPT ![p].pc = IF pass[p].snap.ordered = <<>> THEN "done" ELSE "spawn"]
     \/ pass' = [pass EXCEPT ![p].pc = "failed"] /\ UNCHANGED rows
  /\ UNCHANGED <<board, workers, moves>>

(* DirectSpawner::spawn: a missing fixture, a transport that cannot be built, a dirty or     *)
(* base checkout refuse it; the decision stays recorded.                                     *)
SpawnWorker(p) ==
  /\ pass[p].pc = "spawn"
  /\ \/ /\ workers' = workers \union
             {[pass |-> p, item |-> rows[CHOOSE r \in DOMAIN rows : rows[r].pass = p].selected, at |-> Len(rows)]}
        /\ pass' = [pass EXCEPT ![p].pc = "done"]
     \/ pass' = [pass EXCEPT ![p].pc = "failed"] /\ UNCHANGED workers
  /\ UNCHANGED <<board, rows, moves>>

CampaignNext ==
  \/ BoardMoves
  \/ \E p \in Passes : TakeSnapshot(p) \/ Consult(p) \/ Plan(p) \/ SpawnWorker(p)

-----------------------------------------------------------------------------
(* Whatever a decision provider answers, the task worked on was ready in the snapshot its    *)
(* decision was made from; the decision accounts for every ready item, once; the provider is *)
(* credited only with a choice it made; and no worker runs without its decision on record.   *)
DecisionsSound ==
  /\ \A r \in DOMAIN rows :
       LET d == rows[r]
           ready == ToSet(pass[d.pass].snap.ordered)
       IN /\ d.kind = "Selected" =>
               /\ d.selected \in ready /\ d.alternatives = ready \ {d.selected}
               /\ d.path = "decision-provider" => pass[d.pass].answered = [status |-> "ok", value |-> TaskIdFor(d.selected)]
          /\ d.kind = "NoOp" => ready = {}
          /\ d.reason = "EpicExhausted" => pass[d.pass].snap.open = {}
  /\ \A w \in workers : \E r \in 1..w.at : rows[r].pass = w.pass /\ rows[r].selected = w.item
  /\ \A v, w \in workers : v.pass = w.pass => v = w
=============================================================================
