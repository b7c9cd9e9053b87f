----------------------------- MODULE BoardTools ------------------------------
(***************************************************************************)
(* The gateway's guarded writes: concurrent invocations of board.move and  *)
(* decision.record by several clients, over one board provider, one lease  *)
(* registry, one decision store and one audit store.  Only a registry      *)
(* operation and an audit append are done under a lock; between the steps  *)
(* of a move other calls, and people at the board, go on.                  *)
(*                                                                         *)
(* A status stands for its class.  The audit store is a chain: a record    *)
(* carries its number and the record it follows.                           *)
(***************************************************************************)
EXTENDS Naturals, Sequences, FiniteSets

CONSTANTS
  Clients,
  SessionOf,      \* the session label a client calls with
  Items,
  Edges,          \* <<blocker, blocked>>
  Targets,        \* bound: statuses the calls ask for
  InitStatus,
  TTL,            \* lease_ttl_secs, already defaulted and capped
  MaxCalls, MaxFaults, MaxPeople, MaxNow

StatusClass == {"Triage", "Ready", "InProgress", "Held", "Done", "Retired", "Other"}

BoardToolsAssumption ==
  /\ InitStatus \in [Items -> StatusClass] /\ Targets \subseteq StatusClass
  /\ TTL \in Nat /\ MaxCalls \in Nat /\ MaxFaults \in Nat /\ MaxNow \in Nat
  /\ \A c \in Clients : SessionOf[c] # "nobody"

VARIABLES
  board,          \* status class of every item
  leases,         \* set of [item, session, expires]
  audit,          \* sequence of [seq, prev, call, kind]
  decisions,      \* CampaignDecisionStore: the calls it stored, in order
  call,           \* each client's invocation
  now, calls, faults, people,
  owner,          \* history: the session whose applied move the board still shows
  shared,         \* history: items that two calls of one session held at a time
  told            \* history: what each call answered, and whether it wrote

vars == <<board, leases, audit, decisions, call, now, calls, faults, people, owner,
          shared, told>>

(* policy_allows *)
PolicyAllows(from, to) ==
  \/ from \in {"Ready", "Held"} /\ to = "InProgress"
  \/ from = "InProgress" /\ to \in {"Held", "Done"}
  \/ from = "Held" /\ to = "Ready"
  \/ from \in {"Ready", "InProgress", "Held"} /\ to = "Retired"

LeaseHolding(class) == class \in {"InProgress", "Held"}
Idle == [pc |-> "idle", id |-> 0, item |-> "none", to |-> "none", from |-> "none",
         fresh |-> FALSE, wrote |-> FALSE, outcome |-> "none"]
Pcs == {"idle", "policy", "claim", "write", "read-back", "bookkeep", "record", "decide"}
Outcomes == {"none", "applied", "refused", "indeterminate", "stored", "invalid", "not-recorded"}
Holding == {"write", "read-back", "bookkeep"}

Init ==
  /\ board = InitStatus /\ leases = {} /\ audit = <<>> /\ decisions = <<>>
  /\ call = [c \in Clients |-> Idle]
  /\ now = 0 /\ calls = 0 /\ faults = 0 /\ people = 0
  /\ owner = [i \in Items |-> "nobody"] /\ shared = {}
  /\ told = [n \in 1 .. MaxCalls |-> [answer |-> "none", wrote |-> FALSE]]

Fault == faults < MaxFaults /\ faults' = faults + 1
NoFault == faults' = faults
Go(c, r) == call' = [call EXCEPT ![c] = r]
Settle(c, o) == Go(c, [call[c] EXCEPT !.pc = "record", !.outcome = o])
Begins == calls < MaxCalls /\ calls' = calls + 1

-----------------------------------------------------------------------------
(* board_move, execute up to the policy check: session, scope, the item    *)
(* and its status are read here.                                           *)
ResolveTarget(c) ==
  /\ call[c].pc = "idle" /\ Begins
  /\ \E i \in Items, to \in Targets :
       \/ /\ Go(c, [Idle EXCEPT !.pc = "policy", !.id = calls + 1, !.item = i, !.to = to,
                                !.from = board[i]])
          /\ NoFault
       \/ /\ Go(c, [Idle EXCEPT !.pc = "record", !.id = calls + 1, !.item = i, !.to = to,
                                !.outcome = "refused"])
          /\ Fault
  /\ UNCHANGED <<board, leases, audit, decisions, now, people, owner, shared, told>>

UnresolvedBlockers(i) ==
  {b \in Items : <<b, i>> \in Edges /\ board[b] \notin {"Done", "Retired"}}

(* policy_refusal: the matrix, and for In Progress the blockers as the     *)
(* board shows them now.                                                   *)
PolicyPasses(c) ==
  /\ PolicyAllows(call[c].from, call[c].to)
  /\ call[c].to = "InProgress" => UnresolvedBlockers(call[c].item) = {}

PolicyCheck(c) ==
  /\ call[c].pc = "policy"
  /\ IF PolicyPasses(c) THEN Go(c, [call[c] EXCEPT !.pc = "claim"]) ELSE Settle(c, "refused")
  /\ UNCHANGED <<board, leases, audit, decisions, now, calls, faults, people, owner, shared, told>>

Lease(i, s, t) == [item |-> i, session |-> s, expires |-> t]
Live(i) == {l \in leases : l.item = i /\ now < l.expires}
OwnLeases(i, s) == {l \in leases : l.item = i /\ l.session = s}

(* try_claim, under the registry's lock.  A lease of another session that  *)
(* is live, or one of the session's own that is not, refuses.              *)
(* Mutant: an item is claimed by whoever comes. *)
MutantClaimable(i, s) == OwnLeases(i, s) = {} \/ OwnLeases(i, s) \cap Live(i) # {}

Claimable(i, s) ==
  /\ \A l \in Live(i) : l.session = s
  /\ Live(i) = {} => OwnLeases(i, s) = {}

(* Another call of the same session is between its claim and its end. *)
HeldByAnother(c) ==
  \E d \in Clients \ {c} :
    SessionOf[d] = SessionOf[c] /\ call[d].pc \in Holding /\ call[d].item = call[c].item

TryClaim(c) ==
  LET i == call[c].item  s == SessionOf[c]
  IN  /\ call[c].pc = "claim"
      /\ IF Claimable(i, s)
         THEN /\ leases' = (leases \ OwnLeases(i, s)) \cup {Lease(i, s, now + TTL)}
              /\ Go(c, [call[c] EXCEPT !.pc = "write", !.fresh = (OwnLeases(i, s) = {})])
         ELSE Settle(c, "refused") /\ UNCHANGED leases
      /\ shared' = IF HeldByAnother(c) THEN shared \cup {i} ELSE shared
      /\ UNCHANGED <<board, audit, decisions, now, calls, faults, people, owner, told>>

(* registry.release *)
Release(i, s) == leases \ OwnLeases(i, s)

(* Only a fresh claim is rolled back when the provider refused the write.  *)
(* Mutant: a rejected write releases the lease in any case. *)
MutantCompensate(c) == Release(call[c].item, SessionOf[c])
Compensate(c) == IF call[c].fresh THEN Release(call[c].item, SessionOf[c]) ELSE leases

(* The provider's write: done, rejected, or a transport failure that does  *)
(* not tell.                                                               *)
SetItemStatus(c) ==
  LET i == call[c].item
      written == [board EXCEPT ![i] = call[c].to]
      wrote == [call[c] EXCEPT !.wrote = TRUE]
  IN  /\ call[c].pc = "write"
      /\ \/ /\ board' = written /\ owner' = [owner EXCEPT ![i] = "nobody"]
            /\ Go(c, [wrote EXCEPT !.pc = "read-back"]) /\ NoFault /\ UNCHANGED leases
         \/ /\ Fault /\ UNCHANGED <<board, owner>>
            /\ leases' = Compensate(c) /\ Settle(c, "refused")
         \/ /\ Fault /\ UNCHANGED leases
            /\ \/ UNCHANGED <<board, owner>> /\ Settle(c, "indeterminate")
               \/ /\ board' = written /\ owner' = [owner EXCEPT ![i] = "nobody"]
                  /\ Go(c, [wrote EXCEPT !.pc = "record", !.outcome = "indeterminate"])
      /\ UNCHANGED <<audit, decisions, now, calls, people, shared, told>>

(* The read-back: a failure or a drift leaves the outcome open. *)
ReadBack(c) ==
  /\ call[c].pc = "read-back"
  /\ \/ /\ board[call[c].item] = call[c].to
        /\ Go(c, [call[c] EXCEPT !.pc = "bookkeep"]) /\ NoFault
     \/ board[call[c].item] # call[c].to /\ Settle(c, "indeterminate") /\ NoFault
     \/ Settle(c, "indeterminate") /\ Fault
  /\ UNCHANGED <<board, leases, audit, decisions, now, calls, people, owner, shared, told>>

(* post_write_bookkeeping: the lease stays with an item in a lease-holding *)
(* class and is released otherwise, unless it was there before a move      *)
(* between two classes that need none.                                     *)
(* Mutant: the lease goes with every move that leaves a lease-holding class. *)
MutantKeepsLease(c) == LeaseHolding(call[c].to) /\ ~LeaseHolding(call[c].from)

KeepsLease(c) ==
  \/ LeaseHolding(call[c].to)
  \/ ~LeaseHolding(call[c].from) /\ ~call[c].fresh

Bookkeep(c) ==
  LET i == call[c].item
  IN  /\ call[c].pc = "bookkeep"
      /\ leases' = IF KeepsLease(c) THEN leases ELSE Release(i, SessionOf[c])
      /\ owner' = IF LeaseHolding(call[c].to) /\ board[i] = call[c].to
                  THEN [owner EXCEPT ![i] = SessionOf[c]] ELSE owner
      /\ Settle(c, "applied")
      /\ UNCHANGED <<board, audit, decisions, now, calls, faults, people, shared, told>>

-----------------------------------------------------------------------------
(* decision.record: validation, then the decision store, then the audit    *)
(* event, in one call that holds both locks.  A rejected audit append      *)
(* leaves the decision stored and is answered with an error.               *)
Decides(c, o) == Go(c, [Idle EXCEPT !.pc = "decide", !.id = calls + 1, !.outcome = o])

RecordDecision(c) ==
  /\ call[c].pc = "idle" /\ Begins
  /\ \/ Decides(c, "invalid") /\ UNCHANGED <<decisions, audit>> /\ NoFault
     \/ /\ decisions' = Append(decisions, calls + 1)
        /\ \/ /\ audit' = Append(audit, [seq |-> Len(audit) + 1, prev |-> Len(audit),
                                         call |-> calls + 1, kind |-> "stored"])
              /\ Decides(c, "stored") /\ NoFault
           \/ Decides(c, "not-recorded") /\ UNCHANGED audit /\ Fault
  /\ UNCHANGED <<board, leases, now, people, owner, shared, told>>

(* build_invocation_event and the append, under the audit store's lock:    *)
(* number and predecessor are read there, after the board was written.     *)
(* Mutant: they are the ones the call found when it began. *)
MutantInvocationEvent(c) ==
  [seq |-> call[c].id, prev |-> call[c].id - 1, call |-> call[c].id, kind |-> call[c].outcome]
InvocationEvent(c) ==
  [seq |-> Len(audit) + 1, prev |-> Len(audit), call |-> call[c].id, kind |-> call[c].outcome]

Tells(c, a) ==
  /\ told' = [told EXCEPT ![call[c].id] = [answer |-> a, wrote |-> call[c].wrote]]
  /\ Go(c, Idle)

(* A rejected append turns every outcome into an error: it says that the   *)
(* board is unchanged after a refusal, and to read it again otherwise.     *)
(* Mutant: the outcome is answered all the same. *)
MutantUnrecordedAnswer(o) == o
UnrecordedAnswer(o) == IF o = "refused" THEN "unchanged" ELSE "not-recorded"

RecordInvocation(c) ==
  /\ call[c].pc = "record"
  /\ \/ /\ audit' = Append(audit, InvocationEvent(c)) /\ NoFault
        /\ Tells(c, call[c].outcome)
     \/ UNCHANGED audit /\ Fault /\ Tells(c, UnrecordedAnswer(call[c].outcome))
  /\ UNCHANGED <<board, leases, decisions, now, calls, people, owner, shared>>

DecisionReturns(c) ==
  /\ call[c].pc = "decide"
  /\ Tells(c, call[c].outcome)
  /\ UNCHANGED <<board, leases, audit, decisions, now, calls, faults, people, owner, shared>>

(* People at the board, and the clock. *)
MoveByHand ==
  /\ people < MaxPeople /\ people' = people + 1
  /\ \E i \in Items, to \in Targets :
       board' = [board EXCEPT ![i] = to] /\ owner' = [owner EXCEPT ![i] = "nobody"]
  /\ UNCHANGED <<leases, audit, decisions, call, now, calls, faults, shared, told>>

Tick ==
  /\ now < MaxNow /\ now' = now + 1
  /\ UNCHANGED <<board, leases, audit, decisions, call, calls, faults, people, owner, shared, told>>

Next ==
  \/ \E c \in Clients :
       \/ ResolveTarget(c) \/ PolicyCheck(c) \/ TryClaim(c) \/ SetItemStatus(c)
       \/ ReadBack(c) \/ Bookkeep(c) \/ RecordInvocation(c)
       \/ RecordDecision(c) \/ DecisionReturns(c)
  \/ MoveByHand \/ Tick

Spec == Init /\ [][Next]_vars

-----------------------------------------------------------------------------
TypeOK ==
  /\ board \in [Items -> StatusClass]
  /\ \A l \in leases : l.item \in Items /\ l.expires \in 0 .. (MaxNow + TTL)
  /\ \A c \in Clients : call[c].pc \in Pcs /\ call[c].outcome \in Outcomes
  /\ \A k \in 1 .. Len(audit) : audit[k].call \in 1 .. MaxCalls
  /\ now \in 0 .. MaxNow /\ calls \in 0 .. MaxCalls /\ faults \in 0 .. MaxFaults

(* At no time two sessions hold a live lease on one item.  An item the     *)
(* board shows in progress or held by an applied move is under the lease   *)
(* of the session that moved it (run out or not), unless two calls of one  *)
(* session held it at a time: of those, the release at the end of one      *)
(* takes the lease that the other renewed, and nothing in the gateway      *)
(* keeps them apart.                                                       *)
LeaseProtects ==
  \A i \in Items :
    /\ Cardinality({l.session : l \in Live(i)}) <= 1
    /\ owner[i] # "nobody" /\ i \notin shared => OwnLeases(i, owner[i]) # {}

(* The audit chain has no gap, no fork and no call twice, whatever order   *)
(* concurrent calls finish in.  An outcome that was answered has its event *)
(* and a call that was answered with an error has none, so that no success *)
(* goes unrecorded; a decision is stored unless it was called invalid; and *)
(* who was told of a refusal, recorded or not, did not touch the board.    *)
Answered(n, answer) ==
  LET of == {k \in 1 .. Len(audit) : audit[k].call = n}
  IN  /\ answer \in {"applied", "refused", "indeterminate", "stored"} =>
           \E k \in of : audit[k].kind = answer
      /\ answer \in {"unchanged", "not-recorded", "invalid"} => of = {}
      /\ answer = "stored" => \E k \in 1 .. Len(decisions) : decisions[k] = n
      /\ answer = "invalid" => \A k \in 1 .. Len(decisions) : decisions[k] # n

RefusalAndAuditHonest ==
  /\ \A k \in 1 .. Len(audit) : audit[k].seq = k /\ audit[k].prev = k - 1
  /\ \A j, k \in 1 .. Len(audit) : audit[j].call = audit[k].call => j = k
  /\ \A n \in 1 .. MaxCalls :
       /\ Answered(n, told[n].answer)
       /\ told[n].answer \in {"refused", "unchanged"} => ~told[n].wrote
       /\ told[n].answer = "applied" => told[n].wrote

(* What the guarded writes promise, together: at no time two sessions hold *)
(* a live lease on one item, and an item an applied move put in progress   *)
(* is under its session's lease, across compensation, expiry and renewal,  *)
(* as long as the calls of a session do not overlap on it; what the tools  *)
(* refuse changed nothing, and every outcome they answer is in the audit   *)
(* chain as it was answered.                                               *)
BoardWritesSound == TypeOK /\ LeaseProtects /\ RefusalAndAuditHonest

(* The guard's promise: what board.move writes is a transition the policy  *)
(* allows from the status the board shows at that moment (done and retired *)
(* items are never reopened by the tool).                                  *)
PolicyKept ==
  [][\A c \in Clients, i \in Items :
       (SetItemStatus(c) /\ board'[i] # board[i]) => PolicyAllows(board[i], board'[i])]_vars
=============================================================================
