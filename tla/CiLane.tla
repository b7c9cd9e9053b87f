-------------------------------- MODULE CiLane --------------------------------
(***************************************************************************)
(* The CI completions lane of the event ingress, for one repository: a     *)
(* conditional poll of the workflow runs, which also tells which head SHAs *)
(* are in flight, then one of the check runs of every tracked SHA, then    *)
(* the pruning of what went quiet.                                         *)
(*                                                                         *)
(* The tracked set is in memory, the bookkeeping rows (ETag, baseline) and *)
(* the delivery keys are durable, and the platform moves between any two   *)
(* requests.  The questions: is every SHA in flight followed, and does a   *)
(* completion of a followed SHA become an event?                           *)
(*                                                                         *)
(* A SHA is a number, the newer the larger; it has one workflow run and    *)
(* one check run, both started anew with every attempt.  An ETag is the    *)
(* content it was made from, so a 304 means that nothing differs.  The     *)
(* queue behind `emitted` is the one of EventPoller.                       *)
(***************************************************************************)
EXTENDS Integers, Sequences, FiniteSets, SequencesExt

CONSTANTS
  Shas,         \* head SHAs, 1 .. n
  Cap,          \* MAX_TRACKED_HEAD_SHAS
  MaxAttempts,  \* bound: attempts of a run
  MaxFaults,    \* bound: failed requests and writes
  MaxRestarts   \* bound: restarts of the daemon

CiLaneAssumption ==
  /\ IsFiniteSet(Shas) /\ Shas = 1 .. Cardinality(Shas)
  /\ Cap \in Nat \ {0} /\ MaxAttempts \in Nat /\ MaxFaults \in Nat /\ MaxRestarts \in Nat

VARIABLES
  attempt, run, check,       \* the platform: attempt, run status, check status of a SHA
  runsTag, checkTag,         \* ingress_etags: the stored ETags
  baselined, deliveries,     \* the SHAs whose row is baselined; the delivery keys
  tracked, initialized, lastSnapshot,  \* CiLane: the in-memory bookkeeping
  pc, snapshot, todo, quiet, \* poll_repo
  faults, restarts,
  emitted                    \* history: the keys handed to the queue

platform == <<attempt, run, check>>
durable == <<runsTag, checkTag, baselined, deliveries>>
memory == <<tracked, initialized, lastSnapshot>>
round == <<pc, snapshot, todo, quiet>>

vars == <<attempt, run, check, runsTag, checkTag, baselined, deliveries, tracked,
          initialized, lastSnapshot, pc, snapshot, todo, quiet, faults, restarts, emitted>>

(* No ETag, and no snapshot: 0 is no SHA. *)
NoTag == <<>>
NoSnapshot == {0}

Keys == {"run", "check"} \X Shas \X (1 .. MaxAttempts)

Status == {"absent", "pending", "completed"}

TypeOK ==
  /\ attempt \in [Shas -> 0 .. MaxAttempts]
  /\ run \in [Shas -> Status] /\ check \in [Shas -> Status]
  /\ baselined \subseteq Shas /\ deliveries \subseteq Keys
  /\ tracked \in Seq(Shas) /\ Len(tracked) <= Cap /\ IsInjective(tracked)
  /\ initialized \in BOOLEAN
  /\ lastSnapshot \in (SUBSET Shas) \cup {NoSnapshot}
  /\ pc \in {"idle", "checks", "prune"}
  /\ snapshot \in (SUBSET Shas) \cup {NoSnapshot}
  /\ todo \in Seq(Shas) /\ quiet \subseteq Shas
  /\ faults \in 0 .. MaxFaults /\ restarts \in 0 .. MaxRestarts
  /\ emitted \subseteq deliveries

-----------------------------------------------------------------------------

(* The two representations an ETag stands for. *)
RunsPage == <<attempt, run>>
CheckPage(s) == <<attempt[s], check[s]>>

InFlight == {s \in Shas : run[s] = "pending"}

(* The n-th smallest of a set of numbers, and what of a sequence is in T. *)
Nth(S, n) == CHOOSE x \in S : Cardinality({y \in S : y < x}) = n - 1

Kept(s, T) ==
  LET where == {j \in 1 .. Len(s) : s[j] \in T}
  IN  [i \in 1 .. Cardinality(where) |-> s[Nth(where, i)]]

NewestFirst(S) == [i \in 1 .. Cardinality(S) |-> Nth(S, Cardinality(S) - i + 1)]

(* Mutant: the union is not truncated. *)
MutantCapped(seq) == SubSeq(seq, 1, Len(seq))

Capped(seq) == SubSeq(seq, 1, IF Len(seq) < Cap THEN Len(seq) ELSE Cap)

(* The SHAs the lane should wait for now: the newest in flight. *)
Wanted == {s \in InFlight : Cardinality({q \in InFlight : q > s}) < Cap}

RunKeys == {<<"run", s, attempt[s]>> : s \in {q \in Shas : run[q] = "completed"}}

CheckKeys(s) == IF check[s] = "completed" THEN {<<"check", s, attempt[s]>>} ELSE {}

(* `process_events`: the delivery key decides what reaches the queue. *)
ProcessEvents(keys) ==
  /\ deliveries' = deliveries \cup keys
  /\ emitted' = emitted \cup (keys \ deliveries)

(* Mutant: the previously tracked SHAs come first. *)
MutantUnion(flight) ==
  Capped(tracked \o Kept(flight, Shas \ ToSet(tracked)))

(* The SHAs in flight, then those tracked before; the oldest beyond the cap go. *)
Union(flight) ==
  Capped(flight \o Kept(tracked, Shas \ ToSet(flight)))

(* Mutant: the first poll of a process sends the persisted ETag, too. *)
MutantRunsUnchanged == runsTag = RunsPage

(* The first poll of a process bypasses the persisted ETag. *)
RunsUnchanged == initialized /\ runsTag = RunsPage

PollRuns ==
  /\ pc = "idle" /\ ~RunsUnchanged
  /\ LET flight == Capped(NewestFirst(InFlight))
     IN  /\ tracked' = Union(flight)
         /\ snapshot' = ToSet(flight) /\ lastSnapshot' = snapshot'
  /\ ProcessEvents(RunKeys)
  /\ runsTag' \in {RunsPage, NoTag}
  /\ initialized' = TRUE
  /\ pc' = "checks" /\ todo' = tracked' /\ quiet' = {}
  /\ UNCHANGED <<platform, checkTag, baselined, faults, restarts>>

(* 304: the set stays, the last snapshot is still the truth. *)
RunsNotModified ==
  /\ pc = "idle" /\ RunsUnchanged
  /\ snapshot' = lastSnapshot
  /\ pc' = "checks" /\ todo' = tracked /\ quiet' = {}
  /\ UNCHANGED <<platform, durable, memory, faults, restarts, emitted>>

(***************************************************************************)
(* The runs poll fails: refused, rate-limited, or a write failed after     *)
(* some of its events.  A bypassed ETag is overwritten with none.  The     *)
(* round goes on without a snapshot.                                       *)
(***************************************************************************)
RunsFail ==
  /\ pc = "idle" /\ faults < MaxFaults
  /\ faults' = faults + 1
  /\ \/ /\ runsTag' \in {runsTag, IF initialized THEN runsTag ELSE NoTag}
        /\ UNCHANGED <<deliveries, emitted>>
     \/ /\ ~RunsUnchanged
        /\ \E keys \in SUBSET RunKeys : ProcessEvents(keys)
        /\ UNCHANGED runsTag
  /\ snapshot' = NoSnapshot
  /\ pc' = "checks" /\ todo' = tracked /\ quiet' = {}
  /\ UNCHANGED <<platform, checkTag, baselined, memory, restarts>>

-----------------------------------------------------------------------------

CheckPolled ==
  /\ pc = "checks" /\ todo # <<>>
  /\ todo' = Tail(todo)

(* Quiet needs a valid snapshot without the SHA. *)
QuietEligible(s) == snapshot # NoSnapshot /\ s \notin snapshot

CheckNotModified ==
  /\ CheckPolled
  /\ LET s == Head(todo)
     IN  /\ checkTag[s] = CheckPage(s)
         /\ quiet' = IF QuietEligible(s) THEN quiet \cup {s} ELSE quiet
  /\ UNCHANGED <<platform, durable, memory, pc, snapshot, faults, restarts, emitted>>

(* Mutant: the baseline is taken with every answer. *)
MutantFirstEnable(s) == s \in Shas

FirstEnable(s) == s \notin baselined

(* The first answer only registers what is completed already. *)
CheckBaseline ==
  /\ CheckPolled
  /\ LET s == Head(todo)
     IN  /\ checkTag[s] # CheckPage(s) /\ FirstEnable(s)
         /\ deliveries' = deliveries \cup CheckKeys(s)
         /\ baselined' = baselined \cup {s}
         /\ \E tag \in {CheckPage(s), NoTag} : checkTag' = [checkTag EXCEPT ![s] = tag]
  /\ UNCHANGED <<platform, runsTag, memory, pc, snapshot, quiet, faults, restarts, emitted>>

CheckDelta ==
  /\ CheckPolled
  /\ LET s == Head(todo)
     IN  /\ checkTag[s] # CheckPage(s) /\ ~FirstEnable(s)
         /\ ProcessEvents(CheckKeys(s))
         /\ \E tag \in {CheckPage(s), NoTag} : checkTag' = [checkTag EXCEPT ![s] = tag]
  /\ UNCHANGED <<platform, runsTag, baselined, memory, pc, snapshot, quiet, faults, restarts>>

(* A refusal, or a write that failed after some of the others. *)
CheckFails ==
  /\ CheckPolled /\ faults < MaxFaults
  /\ faults' = faults + 1
  /\ LET s == Head(todo)
     IN  \/ UNCHANGED <<deliveries, baselined, emitted>>
         \/ /\ checkTag[s] # CheckPage(s) /\ FirstEnable(s)
            /\ deliveries' = deliveries \cup CheckKeys(s)
            /\ baselined' \in {baselined, baselined \cup {s}}
            /\ UNCHANGED emitted
         \/ /\ checkTag[s] # CheckPage(s) /\ ~FirstEnable(s)
            /\ ProcessEvents(CheckKeys(s))
            /\ UNCHANGED baselined
  /\ UNCHANGED <<platform, runsTag, checkTag, memory, pc, snapshot, quiet, restarts>>

ChecksDone ==
  /\ pc = "checks" /\ todo = <<>>
  /\ pc' = "prune"
  /\ UNCHANGED <<platform, durable, memory, snapshot, todo, quiet, faults, restarts, emitted>>

(* `prune_endpoints`: the rows outside `keep` go. *)
DeleteRows(doomed) ==
  /\ baselined' = baselined \ doomed
  /\ checkTag' = [s \in Shas |-> IF s \in doomed THEN NoTag ELSE checkTag[s]]

Doomed == (Shas \ ToSet(tracked)) \cup quiet

EndRound == pc' = "idle" /\ snapshot' = NoSnapshot /\ todo' = <<>> /\ quiet' = {}

(* The read of the not-modified marker fails after a poll: the round is over. *)
MarkerUnread ==
  /\ pc = "checks" /\ Len(todo) < Len(tracked) /\ faults < MaxFaults
  /\ QuietEligible(tracked[Len(tracked) - Len(todo)])
  /\ faults' = faults + 1
  /\ EndRound
  /\ UNCHANGED <<platform, durable, memory, restarts, emitted>>

Prune ==
  /\ pc = "prune"
  /\ DeleteRows(Doomed)
  /\ tracked' = Kept(tracked, Shas \ quiet)
  /\ EndRound
  /\ UNCHANGED <<platform, runsTag, deliveries, initialized, lastSnapshot, faults,
                 restarts, emitted>>

(* The rows go one by one; a failure keeps the tracked set. *)
PruneFails ==
  /\ pc = "prune" /\ faults < MaxFaults
  /\ faults' = faults + 1
  /\ \E some \in SUBSET Doomed : DeleteRows(some)
  /\ EndRound
  /\ UNCHANGED <<platform, runsTag, deliveries, memory, restarts, emitted>>

(* The daemon dies, or is stopped, and comes back. *)
Restart ==
  /\ restarts < MaxRestarts
  /\ restarts' = restarts + 1
  /\ tracked' = <<>> /\ initialized' = FALSE /\ lastSnapshot' = NoSnapshot
  /\ EndRound
  /\ UNCHANGED <<platform, durable, faults, emitted>>

-----------------------------------------------------------------------------

(* A push, or a re-run: run and check start anew. *)
StartRun(s) ==
  /\ attempt[s] < MaxAttempts /\ run[s] # "pending"
  /\ attempt' = [attempt EXCEPT ![s] = @ + 1]
  /\ run' = [run EXCEPT ![s] = "pending"]
  /\ check' = [check EXCEPT ![s] = "pending"]
  /\ UNCHANGED <<durable, memory, round, faults, restarts, emitted>>

(* The check may outlive its run. *)
FinishRun(s) ==
  /\ run[s] = "pending"
  /\ run' = [run EXCEPT ![s] = "completed"]
  /\ UNCHANGED <<attempt, check, durable, memory, round, faults, restarts, emitted>>

FinishCheck(s) ==
  /\ check[s] = "pending"
  /\ check' = [check EXCEPT ![s] = "completed"]
  /\ UNCHANGED <<attempt, run, durable, memory, round, faults, restarts, emitted>>

Init ==
  /\ attempt = [s \in Shas |-> 0]
  /\ run = [s \in Shas |-> "absent"] /\ check = [s \in Shas |-> "absent"]
  /\ runsTag = NoTag /\ checkTag = [s \in Shas |-> NoTag]
  /\ baselined = {} /\ deliveries = {}
  /\ tracked = <<>> /\ initialized = FALSE /\ lastSnapshot = NoSnapshot
  /\ pc = "idle" /\ snapshot = NoSnapshot /\ todo = <<>> /\ quiet = {}
  /\ faults = 0 /\ restarts = 0 /\ emitted = {}

PollRepo ==
  \/ PollRuns \/ RunsNotModified \/ CheckNotModified \/ CheckBaseline \/ CheckDelta
  \/ ChecksDone \/ Prune

Next ==
  \/ PollRepo \/ RunsFail \/ CheckFails \/ MarkerUnread \/ PruneFails \/ Restart
  \/ \E s \in Shas : StartRun(s) \/ FinishRun(s) \/ FinishCheck(s)

Spec == Init /\ [][Next]_vars

(* `ci_lane_poll_loop` runs round after round for the daemon's lifetime. *)
FairSpec == Spec /\ WF_vars(PollRepo)

-----------------------------------------------------------------------------

(***************************************************************************)
(* Whatever was tracked before, a runs answer never pushes a SHA in flight *)
(* out of the tracked set, nor does the pruning at the end of its round    *)
(* (the eviction order of poll_runs, the quiet rule of poll_repo).         *)
(***************************************************************************)
InFlightFollowed ==
  /\ pc \in {"checks", "prune"} /\ snapshot # NoSnapshot => snapshot \subseteq ToSet(tracked)
  /\ pc = "prune" /\ snapshot # NoSnapshot => snapshot \cap quiet = {}

(***************************************************************************)
(* A SHA that stays in flight, and among the newest the cap can hold, gets *)
(* followed, also after a restart with a persisted ETag that still matches *)
(* (the first-success gate of poll_repo).                                  *)
(***************************************************************************)
InFlightFound ==
  \A s \in Shas :
    s \in Wanted ~> (Contains(tracked, s) \/ s \notin Wanted)

(***************************************************************************)
(* A check that completes on a followed, baselined SHA becomes an event,   *)
(* unless the lane lets go of the SHA (the tracked set or the row) or the  *)
(* check is started anew: no failed request or write hides a completion    *)
(* behind an ETag or a second baseline.                                    *)
(***************************************************************************)
CompletionEmitted ==
  \A s \in Shas, a \in 1 .. MaxAttempts :
    (/\ Contains(tracked, s) /\ s \in baselined
     /\ check[s] = "completed" /\ attempt[s] = a /\ <<"check", s, a>> \notin deliveries)
      ~> (\/ <<"check", s, a>> \in emitted
          \/ ~Contains(tracked, s) \/ s \notin baselined \/ attempt[s] # a)
=============================================================================
