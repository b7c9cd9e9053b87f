------------------------------ MODULE IntakeLane ------------------------------
(***************************************************************************)
(* The bug-report intake: `intake_attach_loop` takes events from the       *)
(* durable intake store, and `attach_issue` puts their issues on the board *)
(* with the mechanical fields, call by call, while people and the triage   *)
(* pass edit the same items.                                               *)
(*                                                                         *)
(* Taking deletes: between the take and the re-put of the failed events a  *)
(* batch exists in memory only.  Every call to the board may fail, before  *)
(* or after its effect.  The questions: is a finished item complete, is a  *)
(* promotion ever reversed, does every report arrive?                      *)
(*                                                                         *)
(* Events are numbered in the order in which the poller accepted them,     *)
(* which is the order `take` reads them in.                                *)
(***************************************************************************)
EXTENDS Integers, FiniteSets

CONSTANTS
  Events,       \* the events, 1 .. n
  Issues,       \* their issues; a late redelivery is a second event of an issue
  IssueOf,      \* the issue of an event
  Facts,        \* the launch facts of an event: login and bot marker
  Untypable,    \* issues whose type name the platform does not resolve
  TickLimit,    \* INTAKE_TICK_LIMIT
  MaxEdits,     \* bound: edits of the board by others
  MaxFaults,    \* bound: failed calls and failed writes
  MaxCrashes    \* bound: crashes

(* The login "none" is an absent one; "service" is in the service-identity set. *)
LaunchFacts == [login: {"none", "service", "suffixed", "plain"},
                bot: {"yes", "no", "unknown"}]

(* Fewer hopeless events than a tick takes: a full tick of them blocks the rest. *)
IntakeAssumption ==
  /\ IsFiniteSet(Events) /\ Events = 1 .. Cardinality(Events)
  /\ IssueOf \in [Events -> Issues] /\ Facts \in [Events -> LaunchFacts]
  /\ Untypable \subseteq Issues
  /\ TickLimit \in Nat /\ TickLimit > Cardinality({e \in Events : IssueOf[e] \in Untypable})
  /\ MaxEdits \in Nat /\ MaxFaults \in Nat /\ MaxCrashes \in Nat

VARIABLES
  accepted,                \* events accepted so far
  store,                   \* intake_events
  pc, batch, failed,       \* the tick: what is left of the batch, failed_events
  fresh, needs,            \* attach_issue: newly added?; the fields to write
  board,                   \* the platform: the item and the issue
  edits, faults, crashes,
  raced,                   \* history: fields edited by others since attach_issue read them
  attached, dropped, lost  \* history: events attached, skipped, lost with their batch

lane == <<pc, batch, failed, fresh, needs>>
ends == <<attached, dropped, lost>>
bounds == <<edits, faults, crashes>>

vars == <<accepted, store, pc, batch, failed, fresh, needs, board, edits, faults,
          crashes, raced, attached, dropped, lost>>

Fields == {"status", "priority", "type"}

(* What the lane writes, and what people or the triage pass may choose. *)
Mechanical == [status |-> "Triage", priority |-> "P1", type |-> "Bug"]

Promoted == [status |-> "Ready", priority |-> "P0", type |-> "Feature"]

Item == [member: BOOLEAN, label: BOOLEAN,
         status: {"unset", "Triage", "Ready"},
         priority: {"unset", "P1", "P0"},
         type: {"unset", "Bug", "Feature"}]

(* The calls of attach_issue in their order; each is awaited. *)
Calls == {"lookup", "add", "read", "status", "statusCheck", "priority",
          "priorityCheck", "type", "label"}

TypeOK ==
  /\ accepted \in 0 .. Cardinality(Events)
  /\ store \subseteq 1 .. accepted
  /\ pc \in Calls \cup {"sleep", "next", "reput"}
  /\ batch \subseteq Events /\ Cardinality(batch) <= TickLimit
  /\ failed \subseteq Events
  /\ fresh \in BOOLEAN /\ needs \subseteq Fields
  /\ board \in [Issues -> Item]
  /\ edits \in 0 .. MaxEdits /\ faults \in 0 .. MaxFaults /\ crashes \in 0 .. MaxCrashes
  /\ raced \subseteq Fields
  /\ attached \subseteq Events /\ dropped \subseteq Events /\ lost \subseteq Events

-----------------------------------------------------------------------------

Oldest(S) == CHOOSE e \in S : \A f \in S : e <= f

(* The event in hand, and its issue. *)
Current == Oldest(batch)
Issue == IssueOf[Current]

(* `classify_author_opt`: service identity, login suffix, then the bot marker. *)
Classify(fact) ==
  CASE fact.login = "service"                           -> "agent"
    [] fact.login = "suffixed" \/ fact.bot # "no"        -> "bot"
    [] OTHER                                            -> "human"

(* No author fact fails closed; the loop's own reports never attach. *)
Attachable(e) == Facts[e].login # "none" /\ Classify(Facts[e]) # "agent"

(* Mutant: one row more than the limit. *)
MutantOldestRows == {e \in store : Cardinality({f \in store : f < e}) <= TickLimit}

OldestRows == {e \in store : Cardinality({f \in store : f < e}) < TickLimit}

(* `take`: the oldest rows, deleted in the transaction that read them. *)
Take ==
  /\ pc = "sleep" /\ store # {}
  /\ batch' = OldestRows
  /\ store' = store \ batch'
  /\ pc' = "next"
  /\ UNCHANGED <<accepted, failed, fresh, needs, board, bounds, raced, ends>>

Skip ==
  /\ pc = "next" /\ batch # {} /\ ~Attachable(Current)
  /\ dropped' = dropped \cup {Current}
  /\ batch' = batch \ {Current}
  /\ UNCHANGED <<accepted, store, pc, failed, fresh, needs, board, bounds, raced,
                 attached, lost>>

Attach ==
  /\ pc = "next" /\ batch # {} /\ Attachable(Current)
  /\ pc' = "lookup"
  /\ UNCHANGED <<accepted, store, batch, failed, fresh, needs, board, bounds, raced, ends>>

Unset(i, fs) == {f \in fs : board[i][f] = "unset"}

(* The issue lookup answers membership and the native type at once. *)
Lookup ==
  /\ pc = "lookup"
  /\ fresh' = ~board[Issue].member
  /\ needs' = Unset(Issue, {"type"})
  /\ raced' = {}
  /\ pc' = IF fresh' THEN "add" ELSE "read"
  /\ UNCHANGED <<accepted, store, batch, failed, board, bounds, ends>>

(* Mutant: an item that is already there is taken for complete. *)
MutantRepairs == needs

(* An item that was there is repaired: only what is unset is written. *)
Repairs == needs \cup Unset(Issue, {"status", "priority"})

ReadFields ==
  /\ pc = "read"
  /\ needs' = Repairs
  /\ raced' = raced \ {"status", "priority"}
  /\ pc' = "status"
  /\ UNCHANGED <<accepted, store, batch, failed, fresh, board, bounds, ends>>

(* The board after the mutation that the call at pc makes. *)
Written ==
  CASE pc = "add"      -> [board EXCEPT ![Issue].member = TRUE]
    [] pc = "status"   -> [board EXCEPT ![Issue].status = Mechanical.status]
    [] pc = "priority" -> [board EXCEPT ![Issue].priority = Mechanical.priority]
    [] pc = "type"     -> IF Issue \in Untypable THEN board
                          ELSE [board EXCEPT ![Issue].type = Mechanical.type]
    [] pc = "label"    -> [board EXCEPT ![Issue].label = TRUE]
    [] OTHER           -> board

(* A newly added item gets the full mechanical set. *)
FreshNeeds == needs \cup {"status", "priority"}

Add ==
  /\ pc = "add"
  /\ board' = Written
  /\ needs' = FreshNeeds
  /\ pc' = "status"
  /\ UNCHANGED <<accepted, store, batch, failed, fresh, bounds, raced, ends>>

Check == [status |-> "statusCheck", priority |-> "priorityCheck"]

After == [status |-> "priority", priority |-> "type", type |-> "label"]

(* Mutant: every attempt writes the full mechanical set. *)
MutantDue(f) == f \in Fields

Due(f) == f \in needs

(* A field that needs no write. *)
PassField(f) ==
  /\ pc = f /\ ~Due(f)
  /\ pc' = After[f]
  /\ UNCHANGED <<accepted, store, batch, failed, fresh, needs, board, bounds, raced, ends>>

(* `set_single_select` writes, then reads back. *)
WriteField(f) ==
  /\ pc = f /\ Due(f)
  /\ board' = Written
  /\ pc' = Check[f]
  /\ UNCHANGED <<accepted, store, batch, failed, fresh, needs, bounds, raced, ends>>

(* `process`: the failed event waits for the re-put, the next one is taken up. *)
AttachFailed ==
  /\ failed' = failed \cup {Current}
  /\ batch' = batch \ {Current}
  /\ fresh' = FALSE /\ needs' = {} /\ raced' = {}
  /\ pc' = "next"

ReadBack(f) ==
  /\ pc = Check[f]
  /\ \/ /\ board[Issue][f] = Mechanical[f]
        /\ pc' = After[f]
        /\ UNCHANGED <<batch, failed, fresh, needs, raced>>
     \/ /\ board[Issue][f] # Mechanical[f]
        /\ AttachFailed
  /\ UNCHANGED <<accepted, store, board, bounds, ends>>

WriteType ==
  /\ pc = "type" /\ Due("type")
  /\ \/ /\ Issue \notin Untypable
        /\ board' = Written
        /\ pc' = "label"
        /\ UNCHANGED <<batch, failed, fresh, needs, raced>>
     \/ /\ Issue \in Untypable
        /\ AttachFailed /\ UNCHANGED board
  /\ UNCHANGED <<accepted, store, bounds, ends>>

ApplyLabel ==
  /\ pc = "label"
  /\ board' = Written
  /\ attached' = attached \cup {Current}
  /\ batch' = batch \ {Current}
  /\ fresh' = FALSE /\ needs' = {} /\ raced' = {}
  /\ pc' = "next"
  /\ UNCHANGED <<accepted, store, failed, bounds, dropped, lost>>

(* A call fails: refused, or its answer is lost after the effect. *)
CallFails ==
  /\ pc \in Calls /\ faults < MaxFaults
  /\ faults' = faults + 1
  /\ \/ UNCHANGED board
     \/ (pc \in Fields => Due(pc)) /\ board' = Written
  /\ AttachFailed
  /\ UNCHANGED <<accepted, store, edits, crashes, ends>>

Processed ==
  /\ pc = "next" /\ batch = {}
  /\ pc' = IF failed = {} THEN "sleep" ELSE "reput"
  /\ UNCHANGED <<accepted, store, batch, failed, fresh, needs, board, bounds, raced, ends>>

(* Mutant: only the first failed event goes back. *)
MutantReput ==
  /\ pc = "reput"
  /\ store' = store \cup {Oldest(failed)}
  /\ failed' = {}
  /\ pc' = "sleep"
  /\ UNCHANGED <<accepted, batch, fresh, needs, board, bounds, raced, ends>>

(* Exactly the failed events go back, one write each. *)
Reput ==
  /\ pc = "reput"
  /\ LET e == Oldest(failed)
     IN  /\ store' = store \cup {e}
         /\ failed' = failed \ {e}
         /\ pc' = IF failed = {e} THEN "sleep" ELSE "reput"
  /\ UNCHANGED <<accepted, batch, fresh, needs, board, bounds, raced, ends>>

(* The failed write is logged; the event is gone. *)
ReputFails ==
  /\ pc = "reput" /\ faults < MaxFaults
  /\ faults' = faults + 1
  /\ LET e == Oldest(failed)
     IN  /\ failed' = failed \ {e}
         /\ lost' = lost \cup {e}
         /\ pc' = IF failed = {e} THEN "sleep" ELSE "reput"
  /\ UNCHANGED <<accepted, store, batch, fresh, needs, board, edits, crashes, raced,
                 attached, dropped>>

-----------------------------------------------------------------------------

(* `put` on the poller's accept path (AcceptItem of EventPoller). *)
Accept ==
  /\ accepted < Cardinality(Events)
  /\ accepted' = accepted + 1
  /\ store' = store \cup {accepted'}
  /\ UNCHANGED <<lane, board, bounds, raced, ends>>

(* A person, or the triage pass, adds the item or sets a field. *)
Edit ==
  /\ edits < MaxEdits /\ edits' = edits + 1
  /\ \E i \in Issues :
       \/ /\ ~board[i].member
          /\ board' = [board EXCEPT ![i].member = TRUE]
          /\ UNCHANGED raced
       \/ \E f \in Fields :
            /\ f = "type" \/ board[i].member
            /\ board' = [board EXCEPT ![i][f] = Promoted[f]]
            /\ raced' = IF batch # {} /\ pc \in Calls /\ i = Issue
                        THEN raced \cup {f} ELSE raced
  /\ UNCHANGED <<accepted, store, lane, faults, crashes, ends>>

(* The process dies; the batch and the failed events were in memory. *)
Crash ==
  /\ pc # "sleep" /\ crashes < MaxCrashes
  /\ crashes' = crashes + 1
  /\ lost' = lost \cup batch \cup failed
  /\ batch' = {} /\ failed' = {} /\ fresh' = FALSE /\ needs' = {} /\ raced' = {}
  /\ pc' = "sleep"
  /\ UNCHANGED <<accepted, store, board, edits, faults, attached, dropped>>

(* Nothing is left to take and nothing will come. *)
Quiet ==
  /\ pc = "sleep" /\ store = {} /\ accepted = Cardinality(Events)
  /\ UNCHANGED vars

Init ==
  /\ accepted = 0 /\ store = {}
  /\ pc = "sleep" /\ batch = {} /\ failed = {} /\ fresh = FALSE /\ needs = {}
  /\ board \in [Issues -> {b \in Item : /\ ~b.member /\ ~b.label
                                        /\ b.status = "unset" /\ b.priority = "unset"
                                        /\ b.type \in {"unset", "Feature"}}]
  /\ edits = 0 /\ faults = 0 /\ crashes = 0 /\ raced = {}
  /\ attached = {} /\ dropped = {} /\ lost = {}

SingleSelects == {"status", "priority"}

AttachIssue ==
  \/ Lookup \/ ReadFields \/ Add
  \/ \E f \in Fields : PassField(f)
  \/ \E f \in SingleSelects : WriteField(f) \/ ReadBack(f)
  \/ WriteType \/ ApplyLabel

Tick == Take \/ Skip \/ Attach \/ AttachIssue \/ Processed \/ Reput

Next == Tick \/ CallFails \/ ReputFails \/ Accept \/ Edit \/ Crash \/ Quiet

Spec == Init /\ [][Next]_vars

(* The tick recurs for the daemon's lifetime. *)
FairSpec == Spec /\ WF_vars(Tick)

-----------------------------------------------------------------------------

Complete(i) ==
  /\ board[i].member /\ board[i].label
  /\ \A f \in Fields : board[i][f] # "unset"

(***************************************************************************)
(* An event counts as attached only when its item is complete: an attach   *)
(* that failed or died after any of its calls is repaired by the next one, *)
(* although that one finds the issue on the board already (attach_issue).  *)
(***************************************************************************)
FinishedIsComplete == \A e \in attached : Complete(IssueOf[e])

(***************************************************************************)
(* The lane changes a field that somebody set only when it was set after   *)
(* attach_issue looked: a retry never reverses a promotion that was made   *)
(* between two attempts, on whatever path it finds the item.               *)
(***************************************************************************)
PromotionsKept ==
  [][\A i \in Issues, f \in Fields :
       /\ board[i][f] = Promoted[f] /\ board'[i][f] # Promoted[f]
       => f \in raced]_vars

(***************************************************************************)
(* Every attachable report arrives, unless its type cannot be resolved or  *)
(* it was lost with the process: failing events cannot hold up the others  *)
(* as long as a tick takes more than those.                                *)
(***************************************************************************)
EventuallyAttached ==
  \A e \in Events :
    e <= accepted /\ Attachable(e) /\ IssueOf[e] \notin Untypable
      ~> e \in attached \cup lost

(***************************************************************************)
(* `IntakeStore`: "a daemon restart re-attaches from durable state instead *)
(* of memory" - checked with crashes and without any other failure.        *)
(***************************************************************************)
RestartReattaches ==
  pc = "sleep" => \A e \in 1 .. accepted : e \in store \cup attached \cup dropped
=============================================================================
