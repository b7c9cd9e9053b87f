---------------------------- MODULE ReviewPipeline ----------------------------
(***************************************************************************)
(* The review of one change set: reviewers are selected, then generations  *)
(* of review run until the convergence rule approves or blocks.  Findings  *)
(* live in a ledger keyed by their identity; a moved head makes the open   *)
(* ones stale until they are reported again.  The reviewer, a callback, is *)
(* the environment: any head, any findings, malformed ones included.       *)
(* Severities are numbers, higher is worse.                                *)
(***************************************************************************)
EXTENDS Naturals, Sequences, FiniteSets, SequencesExt

CONSTANTS Findings, Heads, Severities, Domains, HARD_LOOP_CEILING,
          MaxLoops, MaxReviewers   \* bounds of the configurations

ReviewAssumption ==
  /\ HARD_LOOP_CEILING \in Nat \ {0} /\ MaxLoops \in Nat /\ MaxReviewers \in Nat
  /\ Severities \subseteq Nat /\ IsFiniteSet(Domains)

General == "general"
Security == "security"
Testing == "testing"

VARIABLES
  config,      \* the review loop configuration
  profile,     \* the change-set profile
  reviewers,   \* the selected domains, in order
  entry,       \* finding -> its ledger entry
  head,        \* the ledger's current head, "none" before the first
  loops,       \* completed generations
  verdict,
  reportedNow, worst   \* history: what the last generation reported; each finding's worst severity

reviewVars == <<config, profile, reviewers, entry, head, loops, verdict, reportedNow, worst>>

NoEntry == [status |-> "absent", stale |-> FALSE, max |-> 0, first |-> 0, last |-> 0]

(* ReviewLoopConfig::validate, and the profile's flags *)
Configs ==
  {c \in [max_review_loops : 0..MaxLoops, max_reviewers : 0..MaxReviewers, required : SUBSET Domains,
          threshold : Severities, stop : BOOLEAN] :
     c.max_review_loops >= 1 /\ c.max_reviewers >= 1}
Profiles == [empty : BOOLEAN, sensitive : BOOLEAN, domain : Domains \union {"none"}, coverage : BOOLEAN]

ReviewInit ==
  /\ config \in Configs /\ profile \in Profiles
  /\ reviewers = <<>> /\ entry = [f \in Findings |-> NoEntry] /\ head = "none"
  /\ loops = 0 /\ verdict = "none" /\ reportedNow = {} /\ worst = [f \in Findings |-> 0]

(* select_reviewers for configuration c and profile p: candidates in priority order, the first *)
(* reason for a domain wins,                                                                   *)
Candidates(c, p) ==
  LET wanted == <<General>>
                  \o (IF p.sensitive \/ p.domain = Security THEN <<Security>> ELSE <<>>)
                  \o (IF p.domain # "none" THEN <<p.domain>> ELSE <<>>)
                  \o (IF p.coverage THEN <<Testing>> ELSE <<>>)
                  \o SetToSortSeq(c.required, LAMBDA a, b : FALSE)
  IN FoldLeft(LAMBDA acc, d : IF Contains(acc, d) THEN acc ELSE Append(acc, d), <<>>, wanted)

(* cut to max_reviewers with the required domains kept. *)
Truncate(c, slots) ==
  LET optional == SelectSeq(slots, LAMBDA d : d \notin c.required)
      budget == c.max_reviewers - Cardinality(c.required)
      kept == c.required \union ToSet(SubSeq(optional, 1, IF Len(optional) < budget THEN Len(optional) ELSE budget))
  IN IF Len(slots) <= c.max_reviewers THEN slots ELSE SelectSeq(slots, LAMBDA d : d \in kept)

(* What a selection must be: every required domain, within the limit, none twice. *)
Covers(c, selected) ==
  /\ c.required \subseteq ToSet(selected) /\ Len(selected) <= c.max_reviewers
  /\ IsInjective(selected)

(* The selection covers every configuration that can be satisfied. *)
SelectionSound ==
  \A c \in Configs, p \in Profiles :
    Cardinality(c.required) <= c.max_reviewers => Covers(c, Truncate(c, Candidates(c, p)))

(* trigger: an empty change set is not opened, an unsatisfiable configuration is refused. *)
Trigger ==
  /\ verdict = "none"
  /\ IF profile.empty THEN verdict' = "SkippedEmptyChangeSet" /\ UNCHANGED reviewers
     ELSE IF Cardinality(config.required) > config.max_reviewers
          THEN verdict' = "ConfigUnsatisfiable" /\ UNCHANGED reviewers
          ELSE verdict' = "reviewing" /\ reviewers' = Truncate(config, Candidates(config, profile))
  /\ UNCHANGED <<config, profile, entry, head, loops, reportedNow, worst>>

(* FindingLedger::note_head *)
NoteHead(table, h) ==
  IF h \in {"none", head} THEN table
  ELSE [f \in Findings |-> IF table[f].status = "open" THEN [table[f] EXCEPT !.stale = TRUE] ELSE table[f]]

(* FindingLedger::record: a reported finding is open and confirmed; its severity only rises. *)
(* Mutant: the latest severity replaces the worst one. *)
MutantRecord(old, severity) ==
  [status |-> "open", stale |-> FALSE, max |-> severity,
   first |-> IF old.status = "absent" THEN loops + 1 ELSE old.first, last |-> loops + 1]

Record(old, severity) ==
  [status |-> "open", stale |-> FALSE, max |-> IF severity > old.max THEN severity ELSE old.max,
   first |-> IF old.status = "absent" THEN loops + 1 ELSE old.first, last |-> loops + 1]

(* resolve_unreported *)
Resolve(e) == IF e.status = "open" THEN [e EXCEPT !.status = "resolved"] ELSE e

Blocking(table, stale) ==
  {f \in Findings : table[f].status = "open" /\ table[f].stale = stale /\ table[f].max >= config.threshold}

(* convergence::evaluate *)
(* Mutant: the loop budget is looked at before the blocking findings. *)
MutantEvaluate(table, h, done, newHead) ==
  IF done >= config.max_review_loops THEN "StopNoBlockingFindings"
  ELSE IF Blocking(table, FALSE) = {} /\ config.stop THEN "StopNoBlockingFindings" ELSE "reviewing"

Evaluate(table, h, done, newHead) ==
  IF Blocking(table, FALSE) # {} /\ done >= HARD_LOOP_CEILING THEN "BlockedHardCeiling"
  ELSE IF Blocking(table, FALSE) = {} /\ config.stop /\ done >= 1 /\ Blocking(table, TRUE) = {}
          /\ h \in {"none", newHead}
       THEN "StopNoBlockingFindings"
  ELSE IF done >= config.max_review_loops THEN "BlockedMaxLoops"
  ELSE IF done >= HARD_LOOP_CEILING THEN "BlockedHardCeiling"
  ELSE "reviewing"

(* One generation: the reviewer answers, the ledger is brought up to date, the rule decides. *)
Generation ==
  /\ verdict = "reviewing"
  /\ \E h \in Heads \union {"none"}, reported \in SUBSET Findings :
     \E severity \in [reported -> Severities] :
       LET noted == NoteHead(entry, h)
           table == [f \in Findings |-> IF f \in reported THEN Record(noted[f], severity[f]) ELSE Resolve(noted[f])]
           newHead == IF h = "none" THEN head ELSE h
       IN /\ entry' = table /\ head' = newHead /\ loops' = loops + 1
          /\ verdict' = Evaluate(table, h, loops + 1, newHead)
          /\ reportedNow' = reported
          /\ worst' = [f \in Findings |-> IF f \in reported /\ severity[f] > worst[f] THEN severity[f] ELSE worst[f]]
  /\ UNCHANGED <<config, profile, reviewers>>

(* A blank head, or a finding without path, rule, evidence or remediation, ends the review: *)
(* what was recorded before it stays in the ledger.                                         *)
GenerationFails ==
  /\ verdict = "reviewing" /\ verdict' = "Failed"
  /\ UNCHANGED <<config, profile, reviewers, entry, head, loops, reportedNow, worst>>

ReviewNext == Trigger \/ Generation \/ GenerationFails
ReviewSpec == ReviewInit /\ [][ReviewNext]_reviewVars
ReviewFairness == WF_reviewVars(Trigger) /\ WF_reviewVars(Generation)

-----------------------------------------------------------------------------
(* An approval means that nothing the last generation reported was ever reported at or above *)
(* the blocking severity: no rewording, lower severity, moved head or exhausted budget turns *)
(* an unresolved blocking finding into an approval.                                          *)
ApprovalIsClean ==
  verdict = "StopNoBlockingFindings" =>
    loops >= 1 /\ \A f \in reportedNow : worst[f] < config.threshold

(* No generation is ever scheduled past the configured budget or the hard ceiling, and every *)
(* required domain reviews, within max_reviewers.                                            *)
ReviewBounded ==
  /\ loops <= config.max_review_loops /\ loops <= HARD_LOOP_CEILING
  /\ verdict \notin {"none", "SkippedEmptyChangeSet", "ConfigUnsatisfiable"} =>
       Covers(config, reviewers)

Settled == verdict \notin {"none", "reviewing"}

(* Every triggered review ends with a verdict. *)
ReviewEnds == []<>Settled
=============================================================================
