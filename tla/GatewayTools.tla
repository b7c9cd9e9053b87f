----------------------------- MODULE GatewayTools ----------------------------
(***************************************************************************)
(* The gateway's other tools, called by several clients at once: the file  *)
(* tools over one project tree, the audited reads board.query and          *)
(* pr.status, and what decision.record accepts.  A call holds a lock only  *)
(* while it appends its audit event (and stores its decision); a file tool *)
(* checks and writes in two steps with no lock at all.  Beside them the    *)
(* one tool a worker has of its own that keeps such a log: think.          *)
(*                                                                         *)
(* The content of a file is the set of edits it carries and stands for its *)
(* digest too: SHA-256 is taken to be injective.                           *)
(***************************************************************************)
EXTENDS Naturals, Sequences, FiniteSets

CONSTANTS
  GwClients,
  Files,          \* project paths
  Wirings,        \* bound: what a scope may have been given, subsets of Handles
  MaxGwCalls, MaxGwFaults     \* bounds: calls made, transport or append failures

GatewayAssumption == MaxGwCalls \in Nat /\ MaxGwFaults \in Nat

VARIABLES
  wired,          \* GatewayContext: what the project scope was given
  tree,           \* path -> content, or Absent
  known,          \* what each client last read of each path
  log,            \* the shared audit store: [seq, prev, call, outcome]
  stored,         \* CampaignDecisionStore: [call, input]
  gw,             \* each client's call in progress
  answers,        \* the calls that returned: [call, tool, outcome, content, seen]
  gwCalls, gwFaults

gatewayVars == <<wired, tree, known, log, stored, gw, answers, gwCalls, gwFaults>>

Absent == {0}          \* no edit has the number 0
Handles == {"board", "registry", "decisions", "pr", "audit"}
ToolNames == {"fs", "workflow", "board.query", "pr.status", "decision.record"}
NoCall == [pc |-> "idle", tool |-> "none", id |-> 0, path |-> "none",
           base |-> {}, outcome |-> "none"]

(* McpGateway::new: a route is disabled when a handle it needs is missing. *)
EnabledTools ==
  {"fs", "workflow"}
  \cup (IF {"board", "registry"} \subseteq wired THEN {"board.query"} ELSE {})
  \cup (IF "decisions" \in wired THEN {"decision.record"} ELSE {})
  \cup (IF "pr" \in wired THEN {"pr.status"} ELSE {})

GatewayInit ==
  /\ wired \in Wirings
  /\ tree \in [Files -> {Absent, {}}]
  /\ known = [c \in GwClients |-> [p \in Files |-> Absent]]
  /\ log = <<>> /\ stored = <<>>
  /\ gw = [c \in GwClients |-> NoCall]
  /\ answers = {} /\ gwCalls = 0 /\ gwFaults = 0

GwFault == gwFaults < MaxGwFaults /\ gwFaults' = gwFaults + 1
NoGwFault == gwFaults' = gwFaults

(* A request arrives; a disabled route answers that there is no such tool. *)
Arrives(c, tool) ==
  /\ gw[c].pc = "idle" /\ gwCalls < MaxGwCalls /\ gwCalls' = gwCalls + 1
  /\ tool \in EnabledTools

(* structured: the answer, or the error with its code. *)
Answer(c, id, tool, outcome, content, seen) ==
  /\ answers' = answers \cup
       {[call |-> id, tool |-> tool, outcome |-> outcome, content |-> content, seen |-> seen]}
  /\ gw' = [gw EXCEPT ![c] = NoCall]

Hold(c, r) == gw' = [gw EXCEPT ![c] = r] /\ UNCHANGED answers

-----------------------------------------------------------------------------
(* fs.read, and fs.stat, fs.list and fs.search, which read without a       *)
(* digest.                                                                 *)
Read(c) ==
  \E p \in Files :
    /\ Arrives(c, "fs")
    /\ known' = [known EXCEPT ![c][p] = tree[p]]
    /\ Answer(c, gwCalls + 1, "fs.read", IF tree[p] = Absent THEN "io_error" ELSE "read", {}, {})
    /\ NoGwFault /\ UNCHANGED <<wired, tree, log, stored>>

(* apply_patch up to the write: the file as it is now must have the digest *)
(* the caller expects; a patch that does not apply is rejected.            *)
(* Mutant: the digest is not compared. *)
MutantDigestMatches(p, expected) == tree[p] # Absent
DigestMatches(p, expected) == tree[p] # Absent /\ tree[p] = expected

PatchReads(c) ==
  \E p \in Files :
    /\ Arrives(c, "fs")
    /\ known[c][p] # Absent
    /\ \/ /\ DigestMatches(p, known[c][p])
          /\ Hold(c, [NoCall EXCEPT !.pc = "patch", !.id = gwCalls + 1, !.path = p,
                                    !.base = tree[p]])
       \/ /\ DigestMatches(p, known[c][p])
          /\ Answer(c, gwCalls + 1, "fs.apply_patch", "patch_rejected", {}, {})
       \/ /\ ~DigestMatches(p, known[c][p])
          /\ Answer(c, gwCalls + 1, "fs.apply_patch",
                    IF tree[p] = Absent THEN "io_error" ELSE "digest_mismatch", {}, {})
    /\ NoGwFault /\ UNCHANGED <<wired, tree, known, log, stored>>

(* fs::write of the patched text, over whatever the file holds by now. *)
PatchWrites(c) ==
  LET r == gw[c]  patched == r.base \cup {r.id}
  IN  /\ r.pc = "patch"
      /\ tree' = [tree EXCEPT ![r.path] = patched]
      /\ known' = [known EXCEPT ![c][r.path] = patched]
      /\ Answer(c, r.id, "fs.apply_patch", "written", patched, known[c][r.path])
      /\ NoGwFault /\ UNCHANGED <<wired, log, stored, gwCalls>>

(* create: refused when the path exists, written in a second step. *)
CreateChecks(c) ==
  \E p \in Files :
    /\ Arrives(c, "fs")
    /\ IF tree[p] # Absent
       THEN Answer(c, gwCalls + 1, "fs.create", "already_exists", {}, {})
       ELSE Hold(c, [NoCall EXCEPT !.pc = "create", !.id = gwCalls + 1, !.path = p])
    /\ NoGwFault /\ UNCHANGED <<wired, tree, known, log, stored>>

CreateWrites(c) ==
  LET r == gw[c]
  IN  /\ r.pc = "create"
      /\ tree' = [tree EXCEPT ![r.path] = {r.id}]
      /\ known' = [known EXCEPT ![c][r.path] = {r.id}]
      /\ Answer(c, r.id, "fs.create", "created", {r.id}, {})
      /\ NoGwFault /\ UNCHANGED <<wired, log, stored, gwCalls>>

(* rename replaces what the target holds; remove takes what is there. *)
Rename(c) ==
  \E p, q \in Files :
    /\ p # q /\ Arrives(c, "fs")
    /\ tree' = IF tree[p] = Absent THEN tree ELSE [tree EXCEPT ![q] = tree[p], ![p] = Absent]
    /\ Answer(c, gwCalls + 1, "fs.rename", IF tree[p] = Absent THEN "io_error" ELSE "renamed",
              {}, {})
    /\ NoGwFault /\ UNCHANGED <<wired, known, log, stored>>

RemoveFile(c) ==
  \E p \in Files :
    /\ Arrives(c, "fs")
    /\ tree' = [tree EXCEPT ![p] = Absent]
    /\ Answer(c, gwCalls + 1, "fs.remove", IF tree[p] = Absent THEN "io_error" ELSE "removed",
              {}, {})
    /\ NoGwFault /\ UNCHANGED <<wired, known, log, stored>>

(* WorkflowTools::run: every workflow asks for an inspection first. *)
Workflow(c) ==
  /\ Arrives(c, "workflow")
  /\ Answer(c, gwCalls + 1, "workflow", "arbitraitor_inspection_required", {}, {})
  /\ NoGwFault /\ UNCHANGED <<wired, tree, known, log, stored>>

-----------------------------------------------------------------------------
(* build_*_event: number and predecessor are read under the store's lock,  *)
(* right before the append.                                                *)
Event(id, outcome) ==
  [seq |-> Len(log) + 1, prev |-> Len(log), call |-> id, outcome |-> outcome]

(* The append, when the scope has a shared store; without one the event    *)
(* goes to a store of the call's own and is lost with it.                  *)
Recorded(id, outcome) == log' = IF "audit" \in wired THEN Append(log, Event(id, outcome)) ELSE log

(* execute_query: a failed query is answered and never recorded. *)
QueryRuns(c) ==
  /\ Arrives(c, "board.query")
  /\ \/ /\ Hold(c, [NoCall EXCEPT !.pc = "record", !.tool = "board.query", !.id = gwCalls + 1,
                                  !.outcome = "result"]) /\ NoGwFault
     \/ Answer(c, gwCalls + 1, "board.query", "board_query_failed", {}, {}) /\ GwFault
  /\ UNCHANGED <<wired, tree, known, log, stored>>

(* pr_status_tool on a repository outside the scope: refused, with a word  *)
(* on whether the refusal was recorded.                                    *)
PrOutOfScope(c) ==
  /\ Arrives(c, "pr.status")
  /\ \/ /\ Recorded(gwCalls + 1, "out_of_scope") /\ NoGwFault
        /\ Answer(c, gwCalls + 1, "pr.status",
                  IF "audit" \in wired THEN "out_of_scope_audited" ELSE "out_of_scope", {}, {})
     \/ /\ "audit" \in wired /\ GwFault /\ UNCHANGED log
        /\ Answer(c, gwCalls + 1, "pr.status", "out_of_scope", {}, {})
  /\ UNCHANGED <<wired, tree, known, stored>>

(* error_outcome_class: the class an aggregation that fails is recorded    *)
(* and answered with, next to a verdict.                                   *)
PrErrors == {"config", "concurrent_edit"}

(* run_pr_status_shared: the aggregation runs on a blocking thread; its    *)
(* errors are recorded like its verdicts.                                  *)
PrAggregates(c) ==
  /\ Arrives(c, "pr.status")
  /\ \/ /\ \E o \in PrErrors \cup {"verdict"} :
             Hold(c, [NoCall EXCEPT !.pc = "record", !.tool = "pr.status", !.id = gwCalls + 1,
                                    !.outcome = o])
        /\ NoGwFault
     \/ /\ Hold(c, [NoCall EXCEPT !.pc = "record", !.tool = "pr.status", !.id = gwCalls + 1,
                                  !.outcome = "unrecoverable"])
        /\ GwFault
  /\ UNCHANGED <<wired, tree, known, log, stored>>

(* The event is appended before the answer is given; when the append is    *)
(* rejected the caller gets that error instead of the result.              *)
(* Mutant: the result is answered whether or not it was recorded. *)
MutantUnrecorded(r) == r.outcome
Unrecorded(r) == IF r.tool = "pr.status" THEN "pr_status_failed" ELSE "board_query_failed"

RecordsAndAnswers(c) ==
  LET r == gw[c]
  IN  /\ r.pc = "record"
      /\ \/ Recorded(r.id, r.outcome) /\ NoGwFault /\ Answer(c, r.id, r.tool, r.outcome, {}, {})
         \/ /\ GwFault /\ UNCHANGED log
            /\ Answer(c, r.id, r.tool, Unrecorded(r), {}, {})
      /\ UNCHANGED <<wired, tree, known, stored, gwCalls>>

-----------------------------------------------------------------------------
(* What a decision.record call may say: its kind, a typed reason, a        *)
(* selected task with or without its fields, and what is wrong with its    *)
(* texts and lists.                                                        *)
DecisionInputs ==
  [kind : {"selected", "no-op"}, reason : {"none", "kickoff-gate"},
   task : {"none", "incomplete", "task"}, texts : {"ok", "out-of-bounds", "secret"}]

(* validate_bounds: required texts, the length of every text, the size of  *)
(* every list.                                                             *)
WithinBounds(i) == i.texts # "out-of-bounds"

(* scan_for_secrets, over every text of the decision. *)
SecretFree(i) == i.texts # "secret"

(* validate_decision, in the code's order: bounds, the reason against the  *)
(* kind, the task against the kind, secret-shaped text last.               *)
(* Mutant: a no-op may name a task. *)
MutantValidateDecision(i) ==
  IF ~WithinBounds(i) THEN "field"
  ELSE IF i.kind = "selected" /\ i.reason # "none" THEN "selected-with-reason"
  ELSE IF i.kind = "no-op" /\ i.reason = "none" THEN "no-op-without-reason"
  ELSE IF i.kind = "selected" /\ i.task = "none" THEN "spawn-without-task"
  ELSE IF i.task = "incomplete" THEN "field"
  ELSE IF ~SecretFree(i) THEN "secret-shaped"
  ELSE "ok"

ValidateDecision(i) ==
  IF ~WithinBounds(i) THEN "field"
  ELSE IF i.kind = "selected" /\ i.reason # "none" THEN "selected-with-reason"
  ELSE IF i.kind = "no-op" /\ i.reason = "none" THEN "no-op-without-reason"
  ELSE IF i.kind = "selected" /\ i.task = "none" THEN "spawn-without-task"
  ELSE IF i.kind = "no-op" /\ i.task # "none" THEN "no-op-with-task"
  ELSE IF i.task = "incomplete" THEN "field"
  ELSE IF ~SecretFree(i) THEN "secret-shaped"
  ELSE "ok"

(* The event of a stored decision: its record id, never its texts. *)
DecisionEvent(id) == Recorded(id, "decided")

(* run_decision_record_shared, under both locks: a refused input leaves no *)
(* trace, a rejected append leaves the decision stored and says it failed. *)
DecisionRecord(c) ==
  \E i \in DecisionInputs :
    /\ Arrives(c, "decision.record")
    /\ \/ /\ ValidateDecision(i) # "ok"
          /\ Answer(c, gwCalls + 1, "decision.record", "decision_record_failed", {}, {})
          /\ NoGwFault /\ UNCHANGED <<log, stored>>
       \/ /\ ValidateDecision(i) = "ok"
          /\ stored' = Append(stored, [call |-> gwCalls + 1, input |-> i])
          /\ \/ /\ DecisionEvent(gwCalls + 1) /\ NoGwFault
                /\ Answer(c, gwCalls + 1, "decision.record", "decided", {}, {})
             \/ /\ GwFault /\ UNCHANGED log
                /\ Answer(c, gwCalls + 1, "decision.record", "decision_record_failed", {}, {})
       \/ /\ ValidateDecision(i) = "ok" /\ GwFault /\ UNCHANGED <<log, stored>>
          /\ Answer(c, gwCalls + 1, "decision.record", "decision_record_failed", {}, {})
    /\ UNCHANGED <<wired, tree, known>>

GatewayNext ==
  \E c \in GwClients :
    \/ Read(c) \/ PatchReads(c) \/ PatchWrites(c) \/ CreateChecks(c) \/ CreateWrites(c)
    \/ Rename(c) \/ RemoveFile(c) \/ Workflow(c)
    \/ QueryRuns(c) \/ PrOutOfScope(c) \/ PrAggregates(c) \/ RecordsAndAnswers(c)
    \/ DecisionRecord(c)

GatewaySpec == GatewayInit /\ [][GatewayNext]_gatewayVars

-----------------------------------------------------------------------------
Mine(id) == {k \in 1 .. Len(log) : log[k].call = id}

(* The outcomes that come with an event, and the word the event has for them. *)
Audited == {"result", "verdict", "unrecoverable", "decided", "out_of_scope_audited"} \cup PrErrors
Told(outcome) == IF outcome = "out_of_scope_audited" THEN "out_of_scope" ELSE outcome

(* What a client may conclude from an answer.  A result, a verdict, an     *)
(* aggregation's error, a stored decision or an audited refusal has        *)
(* exactly one event in the shared audit chain, with that outcome, and an  *)
(* answer that says otherwise has none (among these the failure of a board *)
(* query, which the gateway answers before it records anything, although   *)
(* board_query calls every invocation recorded); the chain is unbroken     *)
(* whatever order concurrent calls finish in.  A patch reported written is *)
(* the caller's own last reading plus its edit (what others wrote between  *)
(* the check of its anchor and the write is lost, and stays lost).  And    *)
(* every stored decision is one a replay can use: a selection names its    *)
(* task and no reason, a no-op a reason and no task, and none carries      *)
(* secret-shaped text.                                                     *)
AnswersHonest ==
  /\ \A k \in 1 .. Len(log) : log[k].seq = k /\ log[k].prev = k - 1
  /\ "audit" \in wired =>
       \A a \in answers :
         IF a.outcome \in Audited
         THEN \E k \in 1 .. Len(log) : Mine(a.call) = {k} /\ log[k].outcome = Told(a.outcome)
         ELSE Mine(a.call) = {}
  /\ \A a \in answers : a.outcome = "written" => a.content = a.seen \cup {a.call}
  /\ \A k \in 1 .. Len(stored) :
       LET i == stored[k].input
       IN  /\ i.texts = "ok"
           /\ (i.kind = "selected") <=> (i.task = "task")
           /\ (i.kind = "no-op") <=> (i.reason # "none")

-----------------------------------------------------------------------------
(* The worker's think tool: numbered thoughts in sequences, with revisions *)
(* of earlier thoughts, under a ceiling per sequence and one per run.      *)
(* Every call, accepted or refused, leaves a reasoning record.             *)

CONSTANTS MAX_THOUGHTS_PER_SEQUENCE, MAX_THOUGHTS_PER_RUN,
          MaxNumber, MaxRecords        \* bounds: numbers a call names, calls

VARIABLES
  chain,          \* ThoughtChain
  records         \* reasoning_records, in order

thoughtVars == <<chain, records>>

ThoughtRecord(number, revision, more, seq, reason) ==
  [number |-> number, revision |-> revision, next |-> more, sequence |-> seq, reason |-> reason]

NewChain == [highest |-> 0, count |-> 0, run |-> 0, sequence |-> 1, closed |-> FALSE]

ThoughtInit == chain = NewChain /\ records = <<>>

(* validate on a revision: a target and a number the sequence has reached. *)
ValidateRevision(number, target) ==
  CASE target = 0 -> "revision-target-unknown"
    [] chain.count >= MAX_THOUGHTS_PER_SEQUENCE -> "thought-budget-exhausted"
    [] target > chain.highest \/ number = 0 \/ number > chain.highest
         -> "revision-target-unknown"
    [] OTHER -> "accepted"

(* validate on a thought: numbers rise, and 1 opens a new sequence once    *)
(* the last one was closed.                                                *)
(* Mutant: 1 always opens a new sequence. *)
MutantValidateThought(number, total) ==
  CASE total = 0 -> "thought-number-regressed"
    [] number = 1 -> "accepted"
    [] number > MAX_THOUGHTS_PER_SEQUENCE -> "thought-budget-exhausted"
    [] number <= chain.highest -> "thought-number-regressed"
    [] OTHER -> "accepted"

ValidateThought(number, total) ==
  CASE total = 0 -> "thought-number-regressed"
    [] number = 1 /\ chain.closed -> "accepted"
    [] number > MAX_THOUGHTS_PER_SEQUENCE -> "thought-budget-exhausted"
    [] number <= chain.highest -> "thought-number-regressed"
    [] OTHER -> "accepted"

(* validate: the run's ceiling comes first, for a new sequence too. *)
Validate(number, total, revision, target) ==
  IF chain.run >= MAX_THOUGHTS_PER_RUN THEN "thought-budget-exhausted"
  ELSE IF revision THEN ValidateRevision(number, target) ELSE ValidateThought(number, total)

(* accept *)
Accept(number, more, revision) ==
  LET opens == ~revision /\ number = 1 /\ chain.closed
      highest == IF opens THEN 0 ELSE chain.highest
  IN  [highest |-> IF number > highest THEN number ELSE highest,
       count |-> (IF opens THEN 0 ELSE chain.count) + 1,
       run |-> chain.run + 1,
       sequence |-> IF opens THEN chain.sequence + 1 ELSE chain.sequence,
       closed |-> ~more]

(* think_refusal: the record keeps the sequence it was refused in; its     *)
(* numbers are not looked at again.                                        *)
Refuse(reason) ==
  /\ records' = Append(records, ThoughtRecord(0, FALSE, FALSE, chain.sequence, reason))
  /\ UNCHANGED chain

(* think, refused for its content: branching, empty, too large or secret-  *)
(* shaped text.  Secret-shaped text is looked for after validate and       *)
(* before accept, so it costs no budget either.                            *)
RefuseContent ==
  /\ Len(records) < MaxRecords
  /\ \E why \in {"branching-not-supported", "thought-empty", "thought-too-large",
                 "secret-shaped-content"} : Refuse(why)

Think ==
  \E number, total, target \in 0 .. MaxNumber, revision, more \in BOOLEAN :
    LET reason == Validate(number, total, revision, target)
    IN  /\ Len(records) < MaxRecords
        /\ IF reason = "accepted"
           THEN /\ chain' = Accept(number, more, revision)
                /\ records' = Append(records,
                     ThoughtRecord(number, revision, more, chain'.sequence, reason))
           ELSE Refuse(reason)

ThoughtNext == RefuseContent \/ Think

-----------------------------------------------------------------------------
Accepted == {k \in 1 .. Len(records) : records[k].reason = "accepted"}

(* What a reader of the records relies on: within one sequence the numbers *)
(* of accepted thoughts that are not revisions rise strictly; the sequence *)
(* number moves only past a record that said no further thought is needed; *)
(* and no sequence of calls, revisions and refusals gets more thoughts     *)
(* accepted than the run's ceiling.                                        *)
RecordsReadable ==
  /\ Cardinality(Accepted) <= MAX_THOUGHTS_PER_RUN
  /\ \A j, k \in Accepted :
       (j < k /\ records[j].sequence = records[k].sequence
             /\ ~records[j].revision /\ ~records[k].revision)
         => records[j].number < records[k].number
  /\ \A k \in Accepted :
       records[k].sequence > 1 /\ (\A j \in Accepted : j < k => records[j].sequence < records[k].sequence)
         => \E j \in Accepted : /\ j < k /\ ~records[j].next
                                /\ records[j].sequence = records[k].sequence - 1
=============================================================================
