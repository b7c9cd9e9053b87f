----------------------------- MODULE BoardReads ------------------------------
(***************************************************************************)
(* What the gateway's clients read of board and pull requests, each answer *)
(* put together from several calls while the things read go on moving: the *)
(* blocking chain of an item, the merge verdict, expanded references.      *)
(***************************************************************************)
EXTENDS Naturals, Sequences, FiniteSets, SequencesExt

-----------------------------------------------------------------------------
(* board.query.  In search mode the matches, cut to the limit, are read    *)
(* with their fields.  In blocked-by mode the root is looked up, and a     *)
(* depth-first walk over the blocking edges finds what blocks it, with     *)
(* shortest depths, back edges on the current path and a cap on the path's *)
(* depth; then every item found is read.  The edges are read once; each    *)
(* read may fail.                                                          *)

CONSTANTS BoardItems,      \* 0 .. n: item ids in their sort order, 0 the root
          BoardEdges,      \* bound: <<blocked, blocker>> the provider may answer with
          MAX_BLOCKED_DEPTH, MAX_RESULT_ITEMS

Modes == {"search", "blocked-by"}
EXIT == 99                 \* the frame value that pops the path
Unseen == 98
NoCycle == [item |-> Unseen, path |-> <<>>]

VARIABLES
  mode,         \* "search" or "blocked-by"
  matches,      \* what the provider's search answered with
  root_exists,
  edges,        \* what dependency_edges answered with
  stack,        \* frames <<item, depth or EXIT>>, top first
  seen,         \* least depth each item was reached at
  path, found, cycle, depth_capped,
  answer,       \* the items of the answer
  walkPc

walkVars == <<mode, matches, root_exists, edges, stack, seen, path, found, cycle, depth_capped,
              answer, walkPc>>

WalkInit ==
  /\ mode \in Modes /\ matches = {} /\ root_exists = FALSE /\ edges = {}
  /\ stack = <<>> /\ seen = [i \in BoardItems |-> IF i = 0 THEN 0 ELSE Unseen] /\ path = <<0>>
  /\ found = {} /\ cycle = NoCycle /\ depth_capped = FALSE /\ answer = {}
  /\ walkPc = "begin"

query == <<mode, matches, root_exists, edges, answer>>
walk == <<stack, seen, path, found, cycle, depth_capped>>

QueryFails ==
  /\ walkPc \in {"begin", "edges", "fields"} /\ walkPc' = "failed"
  /\ UNCHANGED <<query, walk>>

(* contract_filter: a filter, whatever fields it names, matches some set of items. *)
Filtered == SUBSET BoardItems

Search ==
  /\ walkPc = "begin" /\ mode = "search"
  /\ matches' \in Filtered /\ walkPc' = "edges"
  /\ UNCHANGED <<mode, root_exists, edges, answer, walk>>

(* Only ItemNotFound means that there is no root; the walk goes on without it. *)
LookUpRoot ==
  /\ walkPc = "begin" /\ mode = "blocked-by"
  /\ root_exists' \in BOOLEAN /\ walkPc' = "edges"
  /\ UNCHANGED <<mode, matches, edges, answer, walk>>

(* direct_blockers, each list sorted; the walk takes the largest first. *)
Blockers(graph, item) == {b \in BoardItems : <<item, b>> \in graph}
DirectBlockers(item) == Blockers(edges, item)
Sorted(S) ==
  CHOOSE s \in [1 .. Cardinality(S) -> S] : \A j, k \in 1 .. Cardinality(S) : j < k => s[j] > s[k]
Frames(item, depth) ==
  LET sorted == Sorted(DirectBlockers(item))
  IN  [k \in 1 .. Len(sorted) |-> <<sorted[k], depth>>]

(* dependency_edges; a search only shows them with its items. *)
ReadEdges ==
  /\ walkPc = "edges" /\ walkPc' = "fields"
  /\ edges' \in IF mode = "search" THEN {{}} ELSE SUBSET BoardEdges
  /\ UNCHANGED <<mode, matches, root_exists, answer, walk>>

(* The catalog of fields is read once; the walk begins with the root's blockers. *)
ReadFields ==
  /\ walkPc = "fields"
  /\ IF mode = "search" THEN walkPc' = "project" /\ UNCHANGED stack
     ELSE walkPc' = "walk" /\ stack' = Frames(0, 1)
  /\ UNCHANGED <<query, seen, path, found, cycle, depth_capped>>

Top == stack[1]

PopPath ==
  /\ walkPc = "walk" /\ stack # <<>> /\ Top[2] = EXIT
  /\ path' = Front(path) /\ stack' = Tail(stack)
  /\ UNCHANGED <<query, seen, found, cycle, depth_capped, walkPc>>

(* Mutant: an item seen before is skipped, at whatever depth. *)
MutantRevisit == seen[Top[1]] # Unseen
Revisit == seen[Top[1]] <= Top[2]

(* A revisit: a back edge to the current path ends the walk. *)
SkipSeen ==
  /\ walkPc = "walk" /\ stack # <<>> /\ Top[2] # EXIT /\ Revisit
  /\ stack' = Tail(stack)
  /\ IF Contains(path, Top[1])
     THEN cycle' = [item |-> Top[1], path |-> path] /\ walkPc' = "project"
     ELSE UNCHANGED <<cycle, walkPc>>
  /\ UNCHANGED <<query, seen, path, found, depth_capped>>

CapDepth ==
  /\ walkPc = "walk" /\ stack # <<>> /\ Top[2] # EXIT /\ ~Revisit
  /\ Top[2] > MAX_BLOCKED_DEPTH
  /\ depth_capped' = TRUE /\ stack' = Tail(stack)
  /\ UNCHANGED <<query, seen, path, found, cycle, walkPc>>

Expand ==
  LET item == Top[1]  depth == Top[2]
  IN  /\ walkPc = "walk" /\ stack # <<>> /\ depth # EXIT /\ ~Revisit
      /\ depth <= MAX_BLOCKED_DEPTH
      /\ seen' = [seen EXCEPT ![item] = depth]
      /\ stack' = Frames(item, depth + 1) \o <<<<item, EXIT>>>> \o Tail(stack)
      /\ path' = Append(path, item) /\ found' = found \cup {item}
      /\ UNCHANGED <<query, cycle, depth_capped, walkPc>>

WalkDone ==
  /\ walkPc = "walk" /\ stack = <<>> /\ walkPc' = "project"
  /\ UNCHANGED <<query, walk>>

(* The least matches up to the limit, which are all in the answer; of the  *)
(* walk's items the ones whose lookup succeeds, whatever made it fail.     *)
Kept == {i \in matches : Cardinality({j \in matches : j < i}) < MAX_RESULT_ITEMS}

ProjectItems ==
  /\ walkPc = "project" /\ walkPc' = "answered"
  /\ answer' \in IF mode = "search" THEN {Kept} ELSE SUBSET found
  /\ UNCHANGED <<mode, matches, root_exists, edges, walk>>

(* A failed read of a field fails the query. *)
ProjectFails ==
  /\ walkPc = "project" /\ (IF mode = "search" THEN Kept ELSE found) # {}
  /\ walkPc' = "failed" /\ UNCHANGED <<query, walk>>

WalkNext ==
  \/ QueryFails \/ Search \/ LookUpRoot \/ ReadEdges \/ ReadFields
  \/ PopPath \/ SkipSeen \/ CapDepth \/ Expand \/ WalkDone \/ ProjectItems \/ ProjectFails

-----------------------------------------------------------------------------
(* The reference: the ends of the walks over at most d blocking edges, all *)
(* that is reachable, and the cyclic items among that.                     *)
IsWalk(p) == \A k \in 1 .. Len(p) - 1 : <<p[k], p[k + 1]>> \in edges
Walks(n) == {p \in [1 .. n + 1 -> BoardItems] : p[1] = 0 /\ IsWalk(p)}
Within(d) == UNION {{p[n + 1] : p \in Walks(n)} : n \in 0 .. d}
Closed(S) == 0 \in S /\ \A i \in S : DirectBlockers(i) \subseteq S
Reachable == {i \in BoardItems : \A S \in SUBSET BoardItems : Closed(S) => i \in S}
ReachableCycle ==
  \E S \in SUBSET Reachable : S # {} /\ \A i \in S : DirectBlockers(i) \cap S # {}

(* What board.query promises: a reported cycle is a real one, reached from *)
(* the root; without one, the items found are exactly those within the cap *)
(* of the root over shortest paths, however long the branch that reached   *)
(* them first; a walk that is neither capped nor cyclic has found the      *)
(* whole blocking set of an acyclic graph, and the answer names nothing    *)
(* else.  It need not name all of it: an item whose lookup fails, for      *)
(* whatever reason, is left out without a word.  A search that was not     *)
(* truncated has every match.                                              *)
BlockersComplete ==
  walkPc \in {"project", "answered"} =>
    /\ mode = "blocked-by" =>
         /\ cycle # NoCycle =>
              /\ IsWalk(Append(cycle.path, cycle.item))
              /\ cycle.path[1] = 0 /\ Contains(cycle.path, cycle.item)
         /\ cycle = NoCycle => found = Within(MAX_BLOCKED_DEPTH) \ {0}
         /\ cycle = NoCycle /\ ~depth_capped => found = Reachable \ {0} /\ ~ReachableCycle
         /\ walkPc = "answered" => answer \subseteq found
    /\ mode = "search" /\ walkPc = "answered" =>
         /\ Cardinality(answer) <= MAX_RESULT_ITEMS
         /\ Cardinality(matches) <= MAX_RESULT_ITEMS => answer = matches

-----------------------------------------------------------------------------
(* pr.status: one merge verdict put together from several reads of a pull  *)
(* request that goes on moving: the view with the two anchors (head and    *)
(* base), the checks of that head, the review threads, the body's          *)
(* checklist, the local CLEAN record, and the view again.  Commits have    *)
(* well-formed ids.                                                        *)

CONSTANTS Oids,           \* commits, as numbers
          Prefix(_),      \* the seven characters a record's file name keeps
          Checks,         \* (name, workflow, event), or the context of a status
          KNOWN_DISABLED_JOBS,
          Buckets,        \* bound: gh_bucket's classes of the states of runs meanwhile
          MaxMoves        \* bound: what happens to the pull request meanwhile

(* reviewDecision, a null or empty one as "". *)
Decisions == {"", "REVIEW_REQUIRED", "CHANGES_REQUESTED", "APPROVED"}
Threads == {"open", "resolved", "outdated"}

VARIABLES
  pr,        \* the pull request: head, base, draft, state, decision, thread, checked
  runs,      \* check runs of each head: sequence of [check, started, bucket]
  files,     \* CLEAN records by file name: [head, base, verdict], or NoFile
  snap,      \* what this call has read so far
  verdict, statusPc, moves, ticks,
  cleaned    \* history: pairs <<head, base>> a CLEAN record was ever written for

statusVars == <<pr, runs, files, snap, verdict, statusPc, moves, ticks, cleaned>>

NoFile == [head |-> 99, base |-> 99, verdict |-> ""]
Unread == "unread"
NoSnap == [view |-> Unread, errors |-> FALSE, checks |-> {}, count |-> 0, thread |-> Unread,
           checked |-> Unread, record |-> FALSE]
NoVerdict == [kind |-> "none", json |-> FALSE, reasons |-> {}]

StatusInit ==
  /\ pr = [head |-> 0, base |-> 0, draft |-> "no", state |-> "OPEN", decision |-> "",
           thread |-> "resolved", checked |-> "all"]
  /\ runs = [o \in Oids |->
               IF o = 0 THEN SetToSeq({[check |-> c, started |-> 1, bucket |-> "pass"] : c \in Checks})
               ELSE <<>>]
  /\ files = [f \in {Prefix(o) : o \in Oids} |->
                IF f = Prefix(0) THEN [head |-> 0, base |-> 0, verdict |-> "CLEAN"] ELSE NoFile]
  /\ snap = NoSnap /\ verdict = NoVerdict /\ statusPc = "view" /\ moves = 0 /\ ticks = 1
  /\ cleaned = {<<0, 0>>}

Step(pc) == statusPc' = pc
World == <<pr, runs, files, moves, ticks, cleaned>>

(* A failure that carries no verdict. *)
FailWith(kind) ==
  verdict' = [NoVerdict EXCEPT !.kind = kind] /\ Step("done") /\ UNCHANGED snap

(* pr_view: a null pull request is not found, or unread under errors; and  *)
(* oid_field refuses a view without an anchor.                             *)
ViewFailures == {"config", "unrecoverable"}

(* The first view.  Under partial errors fields other than the anchors may *)
(* be null.                                                                *)
ReadView ==
  /\ statusPc = "view"
  /\ \/ \E e \in BOOLEAN, nulls \in SUBSET {"decision", "draft", "state"} :
          /\ nulls # {} => e
          /\ snap' = [snap EXCEPT !.errors = e,
                        !.view = [pr EXCEPT !.decision = IF "decision" \in nulls THEN "" ELSE @,
                                            !.draft = IF "draft" \in nulls THEN "null" ELSE @,
                                            !.state = IF "state" \in nulls THEN "null" ELSE @]]
          /\ Step("checks") /\ UNCHANGED verdict
     \/ \E kind \in ViewFailures : FailWith(kind)
  /\ UNCHANGED World

(* dedupe_check_nodes: of each check's runs the one started last counts;   *)
(* one that has not started sorts behind all that have.                    *)
Newest(s, c) == CHOOSE r \in {s[k] : k \in 1 .. Len(s)} :
  r.check = c /\ \A k \in 1 .. Len(s) : s[k].check = c => s[k].started <= r.started
Dedupe(s) == {Newest(s, c) : c \in {s[k].check : k \in 1 .. Len(s)}}

(* classify_check: a job that is disabled on purpose does not apply while it is skipped. *)
Classify(r) ==
  IF r.check \in KNOWN_DISABLED_JOBS /\ r.bucket = "skipping" THEN "not-applicable"
  ELSE IF r.bucket = "cancel" THEN "fail" ELSE r.bucket

(* aggregate_checks: the flags the verdict uses. *)
AggregateChecks(items) ==
  {f \in {"all_passed", "any_pending"} :
     \/ f = "all_passed" /\ items # {}
          /\ \A r \in items : Classify(r) \in {"pass", "not-applicable"}
     \/ f = "any_pending" /\ \E r \in items : Classify(r) = "pending"}

(* read_checks: the rollup of the anchored head, asked for again without   *)
(* the event where the first query fails.  A null under errors, a page too *)
(* many or a malformed answer leaves the sub-check unread.                 *)
ReadChecks ==
  /\ statusPc = "checks" /\ Step("threads")
  /\ LET rollup == runs[snap.view.head]
     IN  \/ snap' = [snap EXCEPT !.checks = {"read"} \cup AggregateChecks(Dedupe(rollup)),
                                 !.count = Len(rollup)]
         \/ UNCHANGED snap
  /\ UNCHANGED <<World, verdict>>

ReadThreads ==
  /\ statusPc = "threads" /\ Step("body")
  /\ \/ snap' = [snap EXCEPT !.thread = pr.thread]
     \/ UNCHANGED snap
  /\ UNCHANGED <<World, verdict>>

ReadBody ==
  /\ statusPc = "body" /\ Step("record")
  /\ \/ snap' = [snap EXCEPT !.checked = pr.checked]
     \/ UNCHANGED snap
  /\ UNCHANGED <<World, verdict>>

(* read_review_record: found by the head's prefix, believed only when it   *)
(* names the whole head and the whole base.  A file that cannot be read is *)
(* no record.                                                              *)
(* Mutant: the file name is proof enough of the head. *)
MutantRecordClean(f) == f.verdict = "CLEAN" /\ f.base = snap.view.base
RecordClean(f) == f.verdict = "CLEAN" /\ f.head = snap.view.head /\ f.base = snap.view.base

ReadReviewRecord ==
  /\ statusPc = "record" /\ Step("anchors")
  /\ \/ snap' = [snap EXCEPT !.record = RecordClean(files[Prefix(snap.view.head)])]
     \/ UNCHANGED snap
  /\ UNCHANGED <<World, verdict>>

(* What could not be read: the sub-reads that failed, and under partial    *)
(* errors a field of the view that is null.                                *)
UnreadSubchecks ==
  {u \in {"unread(checks)", "unread(threads)", "unread(body)", "unread(review-decision)",
          "unread(is-draft)"} :
     \/ u = "unread(checks)" /\ "read" \notin snap.checks
     \/ u = "unread(threads)" /\ snap.thread = Unread
     \/ u = "unread(body)" /\ snap.checked = Unread
     \/ u = "unread(review-decision)" /\ snap.errors /\ snap.view.decision = ""
     \/ u = "unread(is-draft)" /\ snap.errors /\ snap.view.draft = "null"}

(* apply_review_state_gates, on the first view.  A null without errors is  *)
(* "no review required" and "no draft"; any state but OPEN blocks.         *)
ReviewGates ==
  {r \in {"review_required", "is_draft", "pr_not_open", "review_changes_requested"} :
     \/ r = "review_required" /\ snap.view.decision = "REVIEW_REQUIRED"
     \/ r = "review_changes_requested" /\ snap.view.decision = "CHANGES_REQUESTED"
     \/ r = "is_draft" /\ snap.view.draft = "yes"
     \/ r = "pr_not_open" /\ snap.view.state # "OPEN"}

(* assemble_verdict; a thread is actionable unless it is resolved or outdated. *)
Reasons ==
  {r \in {"agent_review_not_clean_at_head", "checks_not_passing", "checks_pending",
          "unresolved_threads", "unchecked_items"} :
     \/ r = "agent_review_not_clean_at_head" /\ ~snap.record
     \/ r = "checks_not_passing" /\ "read" \in snap.checks /\ "all_passed" \notin snap.checks
     \/ r = "checks_pending" /\ "any_pending" \in snap.checks
     \/ r = "unresolved_threads" /\ snap.thread \notin {"resolved", "outdated", Unread}
     \/ r = "unchecked_items" /\ snap.checked = "some"}
  \cup ReviewGates \cup UnreadSubchecks

(* Mutant: only the head is compared. *)
MutantAnchorsStable == pr.head = snap.view.head
AnchorsStable == pr.head = snap.view.head /\ pr.base = snap.view.base

(* check_anchors_stable reads the view again: a moved anchor is an error   *)
(* without a verdict.  With anything unread the verdict is emitted as part *)
(* of an error.                                                            *)
CheckAnchors ==
  /\ statusPc = "anchors"
  /\ \/ \E kind \in ViewFailures : FailWith(kind)
     \/ ~AnchorsStable /\ FailWith("concurrent-edit")
     \/ /\ AnchorsStable /\ Step("done") /\ UNCHANGED snap
        /\ verdict' = [kind |-> IF UnreadSubchecks = {} THEN "verdict" ELSE "unrecoverable",
                       json |-> TRUE, reasons |-> Reasons]
  /\ UNCHANGED World

(* The pull request meanwhile: pushes, base moves, reviews, comments,      *)
(* check runs queued, started and finished, a review recorded. *)
PrMoves ==
  /\ moves < MaxMoves /\ statusPc # "done" /\ moves' = moves + 1
  /\ \/ /\ \E o \in Oids : pr' \in {[pr EXCEPT !.head = o], [pr EXCEPT !.base = o]}
        /\ UNCHANGED <<runs, files, ticks, cleaned>>
     \/ /\ \/ pr' \in {[pr EXCEPT !.draft = "yes"], [pr EXCEPT !.state = "CLOSED"],
                       [pr EXCEPT !.checked = IF @ = "all" THEN "some" ELSE "all"]}
           \/ \E d \in Decisions : pr' = [pr EXCEPT !.decision = d]
           \/ \E t \in Threads : pr' = [pr EXCEPT !.thread = t]
        /\ UNCHANGED <<runs, files, ticks, cleaned>>
     \/ /\ \E o \in Oids, c \in Checks, b \in Buckets :
             runs' = [runs EXCEPT ![o] = Append(@, [check |-> c, started |-> ticks + 1, bucket |-> b])]
        /\ ticks' = ticks + 1 /\ UNCHANGED <<pr, files, cleaned>>
     \/ /\ \E o \in Oids, c \in Checks :
             runs' = [runs EXCEPT ![o] = Append(@, [check |-> c, started |-> 0, bucket |-> "pending"])]
        /\ UNCHANGED <<pr, files, ticks, cleaned>>
     \/ /\ \E v \in {"CLEAN", "FINDINGS"} :
             /\ files' = [files EXCEPT ![Prefix(pr.head)] =
                            [head |-> pr.head, base |-> pr.base, verdict |-> v]]
             /\ cleaned' = IF v = "CLEAN" THEN cleaned \cup {<<pr.head, pr.base>>} ELSE cleaned
        /\ UNCHANGED <<pr, runs, ticks>>
  /\ UNCHANGED <<snap, verdict, statusPc>>

StatusNext ==
  ReadView \/ ReadChecks \/ ReadThreads \/ ReadBody \/ ReadReviewRecord \/ CheckAnchors \/ PrMoves

-----------------------------------------------------------------------------
(* convergence.mergeable of any verdict that is emitted, an error's too. *)
Mergeable == verdict.json /\ verdict.reasons = {}

(* A mergeable verdict is about one commit on one base: the pull request   *)
(* shows that head and that base when the verdict is given, a CLEAN review *)
(* was recorded of exactly this pair, every check that had run on this     *)
(* very head when the checks were read has a run that passes, and no part  *)
(* of the verdict went unread, whatever moved between the reads.           *)
VerdictOfOneSnapshot ==
  Mergeable =>
    /\ verdict.kind = "verdict"
    /\ <<pr.head, pr.base>> \in cleaned
    /\ snap.count > 0 /\ snap.view.head = pr.head
    /\ \A k \in 1 .. snap.count : \E j \in 1 .. snap.count :
         /\ runs[pr.head][j].check = runs[pr.head][k].check
         /\ Classify(runs[pr.head][j]) \in {"pass", "not-applicable"}

-----------------------------------------------------------------------------
(* Expansion of pr:// and issue:// references in a payload.  Every literal *)
(* is fetched once, and its block replaces every place that names it until *)
(* the budget of the pass is used up; from then on the places get a notice *)
(* and nothing more is fetched.  The text of a block is its length.        *)

CONSTANTS Refs,                     \* literals
          MAX_PASS_CHARS, MAX_REFERENCE_CHARS,
          NoticeChars,              \* length of a failure's text
          MaxSpans                  \* bound: places in the payload

VARIABLES
  spans,        \* the literal at every place, in order
  raw,          \* what the provider answers: length of the block, 0 a failure
  queue,        \* first places of the literals still to do
  site,         \* last place done of the literal in hand
  subst,        \* what was put at each place
  pass_chars, budget_exceeded, fetched, outcomes

refVars == <<spans, raw, queue, site, subst, pass_chars, budget_exceeded, fetched, outcomes>>

(* The places that name a literal for the first time; literals are done in *)
(* the order of these.                                                     *)
Unique(s) == {k \in 1 .. Len(s) : \A j \in 1 .. k - 1 : s[j] # s[k]}
Least(S) == CHOOSE k \in S : \A j \in S : k <= j

(* parse_reference_spans: the well-formed literals of a payload in their order. *)
Payloads == UNION {[1 .. n -> Refs] : n \in 0 .. MaxSpans}

(* build_block: a failure, or a block that fits the reference's cap or does not. *)
BlockChars == 0 .. MAX_REFERENCE_CHARS + 1

RefInit ==
  /\ spans \in Payloads /\ raw \in [Refs -> BlockChars]
  /\ queue = Unique(spans) /\ site = 0
  /\ subst = [k \in 1 .. Len(spans) |-> "literal"]
  /\ pass_chars = 0 /\ budget_exceeded = FALSE /\ fetched = {}
  /\ outcomes = [r \in {} |-> "none"]

(* build_site_substitution and enforce_reference_cap: a block that does    *)
(* not fit the reference's cap is cut to it, the mark of the cut included. *)
BlockLen(r) ==
  IF raw[r] = 0 THEN NoticeChars
  ELSE IF raw[r] > MAX_REFERENCE_CHARS THEN MAX_REFERENCE_CHARS ELSE raw[r]

Put(k, what) == subst' = [subst EXCEPT ![k] = what]
Current == spans[Least(queue)]
NextSite == {k \in 1 .. Len(spans) : k > site /\ spans[k] = Current}

(* The literal in hand has its outcome. *)
Settle(outcome) ==
  /\ outcomes' = [r \in DOMAIN outcomes \cup {Current} |-> IF r = Current THEN outcome ELSE outcomes[r]]
  /\ queue' = queue \ {Least(queue)}

(* resolve_references, a literal after the budget went: notices only. *)
SkipReference ==
  /\ queue # {} /\ site = 0 /\ Current \notin fetched /\ budget_exceeded
  /\ subst' = [k \in 1 .. Len(spans) |-> IF spans[k] = Current THEN "notice" ELSE subst[k]]
  /\ Settle("budget-exceeded")
  /\ UNCHANGED <<spans, raw, site, pass_chars, budget_exceeded, fetched>>

Fetch ==
  /\ queue # {} /\ Current \notin fetched /\ ~budget_exceeded
  /\ fetched' = fetched \cup {Current}
  /\ UNCHANGED <<spans, raw, queue, site, subst, pass_chars, budget_exceeded, outcomes>>

(* Mutant: the budget is looked at once for a literal, not at every place. *)
MutantFits(k) == site > 0 \/ pass_chars + BlockLen(spans[k]) <= MAX_PASS_CHARS
Fits(k) == pass_chars + BlockLen(spans[k]) <= MAX_PASS_CHARS

FillSite ==
  /\ queue # {} /\ Current \in fetched /\ NextSite # {}
  /\ LET k == Least(NextSite)
     IN  /\ site' = k
         /\ IF Fits(k)
            THEN /\ Put(k, IF raw[Current] = 0 THEN "failure" ELSE "block")
                 /\ pass_chars' = pass_chars + BlockLen(Current)
                 /\ UNCHANGED budget_exceeded
            ELSE Put(k, "notice") /\ budget_exceeded' = TRUE /\ UNCHANGED pass_chars
  /\ UNCHANGED <<spans, raw, queue, fetched, outcomes>>

SettleReference ==
  /\ queue # {} /\ Current \in fetched /\ NextSite = {}
  /\ Settle(IF raw[Current] = 0 THEN "failed"
            ELSE IF \E k \in 1 .. Len(spans) : spans[k] = Current /\ subst[k] = "notice"
                 THEN "budget-exceeded" ELSE "expanded")
  /\ site' = 0
  /\ UNCHANGED <<spans, raw, subst, pass_chars, budget_exceeded, fetched>>

RefNext == SkipReference \/ Fetch \/ FillSite \/ SettleReference

-----------------------------------------------------------------------------
(* What the first n places of the payload add to it. *)
Added[n \in 0 .. Len(spans)] ==
  IF n = 0 THEN 0
  ELSE Added[n - 1] + IF subst[n] \in {"block", "failure"} THEN BlockLen(spans[n]) ELSE 0

(* However often a payload names the same literal, what the pass adds      *)
(* stays within its budget; and at the end no place was left as it was,    *)
(* every literal has one outcome, one that is expanded is expanded at      *)
(* every place, and one reported over budget shows a notice.               *)
ExpansionAccounted ==
  /\ Added[Len(spans)] = pass_chars /\ pass_chars <= MAX_PASS_CHARS
  /\ queue = {} =>
       /\ \A k \in 1 .. Len(spans) : subst[k] # "literal"
       /\ DOMAIN outcomes = ToSet(spans)
       /\ \A k \in 1 .. Len(spans) : outcomes[spans[k]] = "expanded" => subst[k] = "block"
       /\ \A r \in ToSet(spans) : outcomes[r] = "budget-exceeded" =>
            \E k \in 1 .. Len(spans) : spans[k] = r /\ subst[k] = "notice"
=============================================================================
