----------------------------- MODULE ToolsProofs -----------------------------
(***************************************************************************)
(* Proofs about the tools agents reach the outside through: the guarded    *)
(* writes to the board, the delegation of gh, the gateway's other tools,   *)
(* the clients of the board and of its cache, the provider proxy and the   *)
(* simplify pass.  For every number of clients, sessions, users, items,    *)
(* files, findings, calls, faults and edits, every length of a stream and  *)
(* every way the network cuts it.                                          *)
(***************************************************************************)
EXTENDS Tools, FiniteSetTheorems, WellFoundedInduction, TLAPS

-----------------------------------------------------------------------------
(***************************************************************************)
(* The guarded writes: types.                                              *)
(***************************************************************************)

Call == [pc : Pcs, id : 0 .. MaxCalls, item : Items \cup {"none"}, to : Targets \cup {"none"},
         from : StatusClass \cup {"none"}, fresh : BOOLEAN, wrote : BOOLEAN, outcome : Outcomes]

(* Steps of a move that know their item and their target. *)
Moving == {"policy", "claim", "write", "read-back", "bookkeep"}

Record == [seq : Nat, prev : Nat, call : 1 .. MaxCalls, kind : Outcomes]
Telling == [answer : Outcomes \cup {"unchanged"}, wrote : BOOLEAN]

Sessions == {SessionOf[c] : c \in Clients}

(* A call that has begun has its number; a move under way has its item and target. *)
CallHolds(r) ==
  /\ r.pc # "idle" => r.id >= 1
  /\ r.pc \in Moving => r.item \in Items /\ r.to \in Targets /\ r.from \in StatusClass

CallTypes == call \in [Clients -> Call] /\ \A c \in Clients : CallHolds(call[c])

BoardTypes ==
  /\ board \in [Items -> StatusClass] /\ owner \in [Items -> Sessions \cup {"nobody"}]
  /\ \A l \in leases : l.item \in Items /\ l.expires \in 0 .. MaxNow + TTL
  /\ audit \in Seq(Record) /\ decisions \in Seq(1 .. MaxCalls)
  /\ shared \subseteq Items /\ told \in [1 .. MaxCalls -> Telling]
  /\ now \in 0 .. MaxNow /\ calls \in 0 .. MaxCalls /\ faults \in 0 .. MaxFaults
  /\ CallTypes

(* Every step of a call is a step of one client. *)
CallStep(c) ==
  \/ ResolveTarget(c) \/ PolicyCheck(c) \/ TryClaim(c) \/ SetItemStatus(c)
  \/ ReadBack(c) \/ Bookkeep(c) \/ RecordInvocation(c) \/ RecordDecision(c) \/ DecisionReturns(c)

(* The event of the decision that the next call records. *)
StoredEvent ==
  [seq |-> Len(audit) + 1, prev |-> Len(audit), call |-> calls + 1, kind |-> "stored"]

(* A call's record after a step, and the types it keeps. *)
LEMMA CallTypesStep ==
  ASSUME BoardToolsAssumption, BoardTypes, NEW c \in Clients, CallStep(c)
  PROVE  CallTypes' /\ \A d \in Clients \ {c} : call'[d] = call[d]
<1> USE DEF BoardToolsAssumption, BoardTypes, CallTypes
<1>1. call[c] \in Call /\ CallHolds(call[c])
  OBVIOUS
<1>2. ASSUME NEW r \in Call, CallHolds(r), Go(c, r)
      PROVE  CallTypes' /\ \A d \in Clients \ {c} : call'[d] = call[d]
  BY <1>2 DEF Go, CallHolds
<1>3. Idle \in Call /\ CallHolds(Idle)
  BY DEF Idle, Call, Pcs, Outcomes, Moving, CallHolds
<1>4. ASSUME NEW o \in Outcomes, Settle(c, o), call[c].pc \in Moving
      PROVE  CallTypes' /\ \A d \in Clients \ {c} : call'[d] = call[d]
  <2>1. [call[c] EXCEPT !.pc = "record", !.outcome = o] \in Call
    BY <1>1 DEF Call, Pcs
  <2>2. CallHolds([call[c] EXCEPT !.pc = "record", !.outcome = o])
    BY <1>1, <1>4 DEF Call, Moving, CallHolds
  <2> QED
    BY <1>2, <1>4, <2>1, <2>2 DEF Settle
<1>5. CASE ResolveTarget(c)
  <2>1. PICK i \in Items, to \in Targets :
          \/ Go(c, [Idle EXCEPT !.pc = "policy", !.id = calls + 1, !.item = i, !.to = to,
                                !.from = board[i]])
          \/ Go(c, [Idle EXCEPT !.pc = "record", !.id = calls + 1, !.item = i, !.to = to,
                                !.outcome = "refused"])
    BY <1>5 DEF ResolveTarget
  <2>2. calls + 1 \in 0 .. MaxCalls /\ calls + 1 >= 1 /\ board[i] \in StatusClass
    BY <1>5 DEF ResolveTarget, Begins
  <2>3. /\ [Idle EXCEPT !.pc = "policy", !.id = calls + 1, !.item = i, !.to = to,
                        !.from = board[i]] \in Call
        /\ [Idle EXCEPT !.pc = "record", !.id = calls + 1, !.item = i, !.to = to,
                        !.outcome = "refused"] \in Call
    BY <2>2 DEF Idle, Call, Pcs, Outcomes
  <2> QED
    BY <1>2, <2>1, <2>2, <2>3 DEF Idle, Moving, CallHolds
<1>6. CASE PolicyCheck(c)
  <2>1. [call[c] EXCEPT !.pc = "claim"] \in Call
    BY <1>1 DEF Call, Pcs
  <2> QED
    BY <1>1, <1>2, <1>4, <1>6, <2>1 DEF PolicyCheck, Outcomes, Moving, Call, CallHolds
<1>7. CASE TryClaim(c)
  <2>1. \A b \in BOOLEAN : [call[c] EXCEPT !.pc = "write", !.fresh = b] \in Call
    BY <1>1 DEF Call, Pcs
  <2> QED
    BY <1>1, <1>2, <1>4, <1>7, <2>1 DEF TryClaim, Outcomes, Moving, Call, CallHolds
<1>8. CASE SetItemStatus(c)
  <2> DEFINE wrote == [call[c] EXCEPT !.wrote = TRUE]
             done == [wrote EXCEPT !.pc = "read-back"]
             open == [wrote EXCEPT !.pc = "record", !.outcome = "indeterminate"]
  <2>1. Go(c, done) \/ Go(c, open) \/ \E o \in Outcomes : Settle(c, o)
    BY <1>8 DEF SetItemStatus, Outcomes
  <2>2. done \in Call /\ open \in Call
    BY <1>1 DEF Call, Pcs, Outcomes
  <2>3. /\ done.item = call[c].item /\ done.to = call[c].to /\ done.from = call[c].from
        /\ open.pc \notin Moving /\ call[c].pc \in Moving
        /\ open.id = call[c].id /\ done.id = call[c].id /\ call[c].pc # "idle"
    BY <1>1, <1>8 DEF Call, Moving, SetItemStatus
  <2>4. CallHolds(done) /\ CallHolds(open)
    BY <1>1, <2>3 DEF CallHolds
  <2> HIDE DEF done, open
  <2> QED
    BY <1>1, <1>2, <1>4, <2>1, <2>2, <2>3, <2>4
<1>9. CASE ReadBack(c)
  <2>1. [call[c] EXCEPT !.pc = "bookkeep"] \in Call
    BY <1>1 DEF Call, Pcs
  <2> QED
    BY <1>1, <1>2, <1>4, <1>9, <2>1 DEF ReadBack, Outcomes, Moving, Call, CallHolds
<1>10. CASE Bookkeep(c)
  BY <1>4, <1>10 DEF Bookkeep, Outcomes, Moving
<1>11. CASE RecordInvocation(c) \/ DecisionReturns(c)
  BY <1>2, <1>3, <1>11 DEF RecordInvocation, DecisionReturns, Tells
<1>12. CASE RecordDecision(c)
  <2>1. calls + 1 \in 0 .. MaxCalls /\ calls + 1 >= 1
    BY <1>12 DEF RecordDecision, Begins
  <2>2. PICK o \in Outcomes : Decides(c, o)
    BY <1>12 DEF RecordDecision, Outcomes
  <2>3. PICK r : r = [Idle EXCEPT !.pc = "decide", !.id = calls + 1, !.outcome = o]
    OBVIOUS
  <2>4. r \in Call /\ r.pc = "decide" /\ r.id = calls + 1
    BY <2>1, <2>3 DEF Idle, Call, Pcs, Outcomes
  <2> QED
    BY <1>2, <2>1, <2>2, <2>3, <2>4 DEF Decides, Moving, CallHolds
<1> QED
  BY <1>5, <1>6, <1>7, <1>8, <1>9, <1>10, <1>11, <1>12 DEF CallStep


(* Every step keeps the types. *)
LEMMA BoardTypesStep ==
  ASSUME BoardToolsAssumption, BoardTypes, [Next]_vars
  PROVE  BoardTypes'
<1> USE DEF BoardToolsAssumption
<1>1. ASSUME NEW c \in Clients, CallStep(c) PROVE BoardTypes'
  <2>1. CallTypes'
    BY <1>1, CallTypesStep
  <2>a. now' = now
    BY <1>1 DEF CallStep, ResolveTarget, PolicyCheck, TryClaim, SetItemStatus, ReadBack, Bookkeep,
       RecordInvocation, RecordDecision, DecisionReturns
  <2>b. calls' = calls \/ Begins
    BY <1>1 DEF CallStep, ResolveTarget, PolicyCheck, TryClaim, SetItemStatus, ReadBack, Bookkeep,
       RecordInvocation, RecordDecision, DecisionReturns
  <2>f. NoFault \/ Fault
    BY <1>1 DEF CallStep, ResolveTarget, PolicyCheck, TryClaim, SetItemStatus, ReadBack, Bookkeep,
       RecordInvocation, RecordDecision, DecisionReturns, NoFault
  <2>2. now' \in 0 .. MaxNow /\ calls' \in 0 .. MaxCalls /\ faults' \in 0 .. MaxFaults
    BY <2>a, <2>b, <2>f DEF BoardTypes, Begins, Fault, NoFault
  <2>3. call[c].pc \in Moving => call[c].item \in Items /\ call[c].to \in StatusClass
    BY DEF BoardTypes, CallTypes, CallHolds
  <2>4. board' \in [Items -> StatusClass] /\ owner' \in [Items -> Sessions \cup {"nobody"}]
    BY <1>1, <2>3 DEF BoardTypes, CallStep, ResolveTarget, PolicyCheck, TryClaim, SetItemStatus,
       ReadBack, Bookkeep, RecordInvocation, RecordDecision, DecisionReturns, Moving, Sessions
  <2>5. \A l \in leases' : l.item \in Items /\ l.expires \in 0 .. MaxNow + TTL
    <3>a. SetItemStatus(c) \/ Bookkeep(c) => leases' \subseteq leases
      BY DEF SetItemStatus, Bookkeep, Compensate, Release
    <3>1. leases' \subseteq leases \/ TryClaim(c)
      BY <1>1, <3>a DEF CallStep, ResolveTarget, PolicyCheck, ReadBack, RecordInvocation,
         RecordDecision, DecisionReturns
    <3>c. TryClaim(c) => leases' \subseteq leases \cup {Lease(call[c].item, SessionOf[c], now + TTL)}
                           /\ call[c].pc \in Moving
      BY DEF TryClaim, Moving
    <3>2. now + TTL \in 0 .. MaxNow + TTL
      BY DEF BoardTypes
    <3> QED
      BY <2>3, <3>1, <3>2, <3>c DEF BoardTypes, Lease
  <2>6. audit' \in Seq(Record)
    <3>1. CASE UNCHANGED audit
      BY <3>1 DEF BoardTypes
    <3>2. CASE audit' = Append(audit, InvocationEvent(c)) /\ call[c].id \in 1 .. MaxCalls
      <4>1. InvocationEvent(c) \in Record
        BY <3>2 DEF BoardTypes, CallTypes, Call, InvocationEvent, Record
      <4> QED
        BY <3>2, <4>1 DEF BoardTypes
    <3>3. CASE audit' = Append(audit, StoredEvent) /\ calls + 1 \in 1 .. MaxCalls
      <4>1. StoredEvent \in Record
        BY <3>3 DEF BoardTypes, Record, StoredEvent, Outcomes
      <4> QED
        BY <3>3, <4>1 DEF BoardTypes
    <3>4. RecordDecision(c) => calls + 1 \in 1 .. MaxCalls
      BY DEF RecordDecision, Begins, BoardTypes
    <3>5. RecordInvocation(c) => call[c].id \in 1 .. MaxCalls
      BY DEF RecordInvocation, BoardTypes, CallTypes, CallHolds, Call
    <3>6. RecordDecision(c) => audit' = audit \/ audit' = Append(audit, StoredEvent)
      BY DEF RecordDecision, StoredEvent
    <3> QED
      BY <1>1, <3>5, <3>1, <3>2, <3>3, <3>4, <3>6 DEF CallStep, ResolveTarget, PolicyCheck, TryClaim, SetItemStatus, ReadBack, Bookkeep,
         RecordInvocation, DecisionReturns
  <2>7. decisions' \in Seq(1 .. MaxCalls)
    <3>1. decisions' = decisions \/ (decisions' = Append(decisions, calls + 1) /\ Begins)
      BY <1>1 DEF CallStep, ResolveTarget, PolicyCheck, TryClaim, SetItemStatus, ReadBack, Bookkeep,
         RecordInvocation, RecordDecision, DecisionReturns
    <3>2. Begins => calls + 1 \in 1 .. MaxCalls
      BY DEF Begins, BoardTypes
    <3>3. PICK S : S = 1 .. MaxCalls
      OBVIOUS
    <3>4. decisions \in Seq(S)
      BY <3>3 DEF BoardTypes
    <3>5. \A n \in S : Append(decisions, n) \in Seq(S)
      BY <3>4
    <3> QED
      BY <3>1, <3>2, <3>3, <3>4, <3>5
  <2>8. shared' \subseteq Items
    BY <1>1, <2>3 DEF BoardTypes, CallStep, ResolveTarget, PolicyCheck, TryClaim, SetItemStatus, ReadBack,
       Bookkeep, RecordInvocation, RecordDecision, DecisionReturns, Moving
  <2>9. told' \in [1 .. MaxCalls -> Telling]
    <3>1. CASE \E a \in Outcomes \cup {"unchanged"} : Tells(c, a)
      <4>1. PICK t : \E a \in Outcomes \cup {"unchanged"} :
                      t = [answer |-> a, wrote |-> call[c].wrote] /\ told' = [told EXCEPT ![call[c].id] = t]
        BY <3>1 DEF Tells
      <4>2. call[c].wrote \in BOOLEAN
        BY DEF BoardTypes, CallTypes, Call
      <4>3. t \in Telling
        BY <4>1, <4>2 DEF Telling
      <4> QED
        BY <4>1, <4>3 DEF BoardTypes
    <3>2. call[c].outcome \in Outcomes
      BY DEF BoardTypes, CallTypes, Call
    <3>3. RecordInvocation(c) \/ DecisionReturns(c) => \E a \in Outcomes \cup {"unchanged"} : Tells(c, a)
      BY <3>2 DEF RecordInvocation, DecisionReturns, UnrecordedAnswer, Outcomes
    <3> QED
      BY <1>1, <3>1, <3>3 DEF BoardTypes, CallStep, ResolveTarget, PolicyCheck, TryClaim, SetItemStatus,
         ReadBack, Bookkeep, RecordDecision
  <2> QED
    BY <2>1, <2>2, <2>4, <2>5, <2>6, <2>7, <2>8, <2>9 DEF BoardTypes
<1>2. CASE MoveByHand
  BY <1>2 DEF MoveByHand, BoardTypes, CallTypes, CallHolds
<1>3. CASE Tick
  BY <1>3 DEF Tick, BoardTypes, CallTypes, CallHolds
<1>4. CASE UNCHANGED vars
  BY <1>4 DEF vars, BoardTypes, CallTypes, CallHolds, Sessions, Telling, Record
<1> QED
  BY <1>1, <1>2, <1>3, <1>4 DEF Next, CallStep

-----------------------------------------------------------------------------
(***************************************************************************)
(* The guarded writes: leases.                                             *)
(***************************************************************************)

(* The live leases on an item are of one session. *)
LeaseInv == \A i \in Items : \A l, m \in Live(i) : l.session = m.session

(* A session has a lease on an item, live or not. *)
Holds(held, i, s) == \E l \in held : l.item = i /\ l.session = s

(* Of the items that no two calls of one session held at a time: a call    *)
(* between its claim and its bookkeeping has a lease, and is the only one  *)
(* of its session there.  What its bookkeeping or its compensation may     *)
(* release is not what the board shows as the session's: a fresh claim     *)
(* found the session without a lease, and the write made the item nobody's. *)
HoldInv ==
  /\ \A i \in Items \ shared : owner[i] # "nobody" => Holds(leases, i, owner[i])
  /\ \A c \in Clients :
       call[c].pc \in Holding /\ call[c].item \notin shared
         => Holds(leases, call[c].item, SessionOf[c])
  /\ \A c \in Clients :
       /\ call[c].item \notin shared
       /\ \/ call[c].pc = "write" /\ call[c].fresh
          \/ call[c].pc \in {"read-back", "bookkeep"}
       => owner[call[c].item] # SessionOf[c]
  /\ \A c, d \in Clients :
       /\ call[c].pc \in Holding /\ call[d].pc \in Holding
       /\ call[c].item = call[d].item /\ SessionOf[c] = SessionOf[d] /\ call[c].item \notin shared
       => c = d

(* The leases of other sessions are out of a call's reach. *)
LEMMA OthersLeases ==
  ASSUME BoardTypes, NEW c \in Clients, CallStep(c)
  PROVE  \A i, s : s # SessionOf[c] /\ Holds(leases, i, s) => Holds(leases', i, s)
<1>1. CASE TryClaim(c)
  <2>1. \/ leases' = (leases \ OwnLeases(call[c].item, SessionOf[c]))
                     \cup {Lease(call[c].item, SessionOf[c], now + TTL)}
        \/ leases' = leases
    BY <1>1 DEF TryClaim
  <2> QED
    BY <2>1 DEF Holds, OwnLeases, Lease
<1>2. CASE leases' = leases \/ leases' = Release(call[c].item, SessionOf[c])
  BY <1>2 DEF Holds, OwnLeases, Release
<1>3. SetItemStatus(c) \/ Bookkeep(c)
      => leases' = leases \/ leases' = Release(call[c].item, SessionOf[c])
  BY DEF SetItemStatus, Bookkeep, Compensate
<1> QED
  BY <1>1, <1>2, <1>3 DEF CallStep, ResolveTarget, PolicyCheck, ReadBack, RecordInvocation,
     RecordDecision, DecisionReturns

(* A session loses its leases on an item only where its own call releases  *)
(* them: a fresh claim whose write was refused, or a move that needs none. *)
Releases(c) ==
  \/ call[c].pc = "write" /\ call[c].fresh
  \/ call[c].pc = "bookkeep" /\ ~KeepsLease(c)

LEMMA OwnLeasesKept ==
  ASSUME BoardTypes, NEW c \in Clients, CallStep(c)
  PROVE  \A i : Holds(leases, i, SessionOf[c]) /\ ~(Releases(c) /\ i = call[c].item)
               => Holds(leases', i, SessionOf[c])
<1> SUFFICES ASSUME NEW i, Holds(leases, i, SessionOf[c]), ~(Releases(c) /\ i = call[c].item)
             PROVE  Holds(leases', i, SessionOf[c])
  OBVIOUS
<1>1. CASE TryClaim(c)
  <2>1. CASE leases' = leases
    BY <2>1
  <2>2. CASE leases' = (leases \ OwnLeases(call[c].item, SessionOf[c]))
                       \cup {Lease(call[c].item, SessionOf[c], now + TTL)}
    <3>1. CASE i = call[c].item
      <4> DEFINE new == Lease(call[c].item, SessionOf[c], now + TTL)
      <4>1. new \in leases' /\ new.item = i /\ new.session = SessionOf[c]
        BY <2>2, <3>1 DEF Lease
      <4> QED
        BY <4>1 DEF Holds
    <3>2. CASE i # call[c].item
      BY <2>2, <3>2 DEF Holds, OwnLeases
    <3> QED
      BY <3>1, <3>2
  <2> QED
    BY <1>1, <2>1, <2>2 DEF TryClaim
<1>2. CASE leases' = leases
  BY <1>2
<1>3. CASE SetItemStatus(c) \/ Bookkeep(c)
  <2>1. \/ leases' = leases
        \/ leases' = Release(call[c].item, SessionOf[c]) /\ Releases(c)
    <3>1. CASE SetItemStatus(c)
      BY <3>1 DEF SetItemStatus, Compensate, Releases
    <3>2. CASE Bookkeep(c)
      BY <3>2 DEF Bookkeep, Releases
    <3> QED
      BY <1>3, <3>1, <3>2
  <2> QED
    BY <1>2, <2>1 DEF Holds, OwnLeases, Release
<1> QED
  BY <1>1, <1>2, <1>3 DEF CallStep, ResolveTarget, PolicyCheck, ReadBack, RecordInvocation,
     RecordDecision, DecisionReturns

(* A claim is granted only where no other session's lease is live, and the *)
(* clock only ends leases.                                                 *)
LEMMA LeaseInvStep ==
  ASSUME BoardToolsAssumption, BoardTypes, LeaseInv, [Next]_vars
  PROVE  LeaseInv'
<1>1. ASSUME leases' \subseteq leases, now' \in Nat, now' >= now PROVE LeaseInv'
  <2>1. ASSUME NEW i \in Items PROVE Live(i)' \subseteq Live(i)
    <3>1. ASSUME NEW l \in Live(i)' PROVE l \in Live(i)
      <4>1. l \in leases /\ l.item = i /\ now' < l.expires /\ l.expires \in 0 .. MaxNow + TTL
        BY <1>1, <3>1 DEF Live, BoardTypes
      <4>2. now < l.expires
        BY <1>1, <4>1 DEF BoardTypes, BoardToolsAssumption
      <4> QED
        BY <4>1, <4>2 DEF Live
    <3> QED
      BY <3>1
  <2> QED
    BY <2>1 DEF LeaseInv
<1>2. ASSUME NEW c \in Clients, CallStep(c) PROVE LeaseInv'
  <2>0. now \in Nat
    BY DEF BoardTypes
  <2>1. now' = now
    BY <1>2 DEF CallStep, ResolveTarget, PolicyCheck, TryClaim, SetItemStatus, ReadBack,
       Bookkeep, RecordInvocation, RecordDecision, DecisionReturns
  <2>2. CASE TryClaim(c) /\ Claimable(call[c].item, SessionOf[c])
    <3> DEFINE new == Lease(call[c].item, SessionOf[c], now + TTL)
    <3>1. leases' \subseteq leases \cup {new} /\ new.item = call[c].item /\ new.session = SessionOf[c]
      BY <2>2 DEF TryClaim, Lease
    <3> HIDE DEF new
    <3>2. ASSUME NEW i \in Items, NEW l \in Live(i)'
          PROVE  l \in Live(i) \/ (l = new /\ i = call[c].item)
      BY <2>1, <3>1, <3>2 DEF Live
    <3>3. ASSUME NEW i \in Items, NEW l \in Live(i)', NEW m \in Live(i)' PROVE l.session = m.session
      BY <2>2, <3>1, <3>2, <3>3 DEF LeaseInv, Claimable
    <3> QED
      BY <3>3 DEF LeaseInv
  <2>3. CASE leases' \subseteq leases
    BY <1>1, <2>0, <2>1, <2>3
  <2>4. SetItemStatus(c) \/ Bookkeep(c) => leases' \subseteq leases
    BY DEF SetItemStatus, Bookkeep, Compensate, Release
  <2>5. TryClaim(c) => Claimable(call[c].item, SessionOf[c]) \/ leases' = leases
    BY DEF TryClaim
  <2> QED
    BY <1>2, <2>2, <2>3, <2>4, <2>5 DEF CallStep, ResolveTarget, PolicyCheck, ReadBack,
       RecordInvocation, RecordDecision, DecisionReturns
<1>3. CASE MoveByHand \/ Tick \/ UNCHANGED vars
  BY <1>1, <1>3 DEF MoveByHand, Tick, vars, BoardTypes
<1> QED
  BY <1>2, <1>3 DEF Next, CallStep

(* What a step makes of the history variable. *)
LEMMA OwnerStep ==
  ASSUME BoardTypes, NEW c \in Clients, CallStep(c), NEW i \in Items
  PROVE  \/ owner'[i] = owner[i] \/ owner'[i] = "nobody"
         \/ /\ owner'[i] = SessionOf[c] /\ i = call[c].item /\ call[c].pc = "bookkeep"
            /\ leases' = leases
<1>1. CASE owner' = owner
  BY <1>1
<1>2. CASE SetItemStatus(c)
  <2>1. owner' = owner \/ owner' = [owner EXCEPT ![call[c].item] = "nobody"]
    BY <1>2 DEF SetItemStatus
  <2> QED
    BY <2>1 DEF BoardTypes
<1>3. CASE Bookkeep(c)
  <2>1. \/ owner' = owner
        \/ owner' = [owner EXCEPT ![call[c].item] = SessionOf[c]] /\ LeaseHolding(call[c].to)
    BY <1>3 DEF Bookkeep
  <2>2. LeaseHolding(call[c].to) => leases' = leases
    BY <1>3 DEF Bookkeep, KeepsLease
  <2>3. call[c].pc = "bookkeep"
    BY <1>3 DEF Bookkeep
  <2> QED
    BY <2>1, <2>2, <2>3 DEF BoardTypes
<1> QED
  BY <1>1, <1>2, <1>3 DEF CallStep, ResolveTarget, PolicyCheck, TryClaim, ReadBack,
     RecordInvocation, RecordDecision, DecisionReturns

(* How a call comes to hold its item. *)
LEMMA HolderStep ==
  ASSUME BoardToolsAssumption, BoardTypes, NEW c \in Clients, CallStep(c), call'[c].pc \in Holding
  PROVE  /\ call'[c].item = call[c].item /\ call[c].item \in Items
         /\ \/ /\ call'[c].pc = "write" /\ owner' = owner
               /\ Holds(leases', call[c].item, SessionOf[c])
               /\ call'[c].fresh => ~Holds(leases, call[c].item, SessionOf[c])
            \/ /\ call[c].pc = "write" /\ call'[c].pc = "read-back" /\ leases' = leases
               /\ owner'[call[c].item] = "nobody"
            \/ /\ call[c].pc = "read-back" /\ leases' = leases /\ owner' = owner
               /\ call'[c].pc = "bookkeep"
<1>1. call \in [Clients -> Call] /\ call[c] \in Call /\ CallHolds(call[c])
  BY DEF BoardTypes, CallTypes
<1>2. ASSUME NEW o, Settle(c, o) PROVE call'[c].pc = "record"
  BY <1>1, <1>2 DEF Settle, Go, Call
<1>3. ASSUME NEW r, Go(c, r) PROVE call'[c] = r
  BY <1>1, <1>3 DEF Go
<1>4. CASE TryClaim(c)
  <2> DEFINE r == [call[c] EXCEPT !.pc = "write", !.fresh = (OwnLeases(call[c].item, SessionOf[c]) = {})]
  <2>1. Claimable(call[c].item, SessionOf[c])
    BY <1>2, <1>4 DEF TryClaim, Holding
  <2>2. Go(c, r) /\ owner' = owner /\ call[c].pc = "claim"
        /\ Lease(call[c].item, SessionOf[c], now + TTL) \in leases'
    BY <1>4, <2>1 DEF TryClaim
  <2>3. r.pc = "write" /\ r.item = call[c].item
        /\ r.fresh = (OwnLeases(call[c].item, SessionOf[c]) = {})
    BY <1>1 DEF Call
  <2>4. call'[c] = r
    BY <1>3, <2>2
  <2>5. Holds(leases', call[c].item, SessionOf[c])
    BY <2>2 DEF Holds, Lease
  <2> HIDE DEF r
  <2>6. call[c].item \in Items
    BY <1>1, <2>2 DEF CallHolds, Moving
  <2> QED
    BY <2>2, <2>3, <2>4, <2>5, <2>6 DEF Holds, OwnLeases
<1>5. CASE SetItemStatus(c)
  <2> DEFINE wrote == [call[c] EXCEPT !.wrote = TRUE]
             done == [wrote EXCEPT !.pc = "read-back"]
             open == [wrote EXCEPT !.pc = "record", !.outcome = "indeterminate"]
  <2>1. \/ Go(c, done) /\ leases' = leases /\ owner' = [owner EXCEPT ![call[c].item] = "nobody"]
        \/ Go(c, open) \/ \E o \in Outcomes : Settle(c, o)
    BY <1>5 DEF SetItemStatus, Outcomes
  <2>2. done.pc = "read-back" /\ done.item = call[c].item /\ open.pc = "record"
    BY <1>1 DEF Call
  <2> HIDE DEF done, open
  <2>3. call[c].item \in Items /\ call[c].pc = "write"
    BY <1>1, <1>5 DEF SetItemStatus, CallHolds, Moving
  <2>4. call'[c] = done /\ leases' = leases /\ owner' = [owner EXCEPT ![call[c].item] = "nobody"]
    BY <1>2, <1>3, <2>1, <2>2 DEF Holding
  <2> QED
    BY <2>2, <2>3, <2>4 DEF BoardTypes
<1>6. CASE ReadBack(c)
  <2> DEFINE r == [call[c] EXCEPT !.pc = "bookkeep"]
  <2>1. Go(c, r) \/ \E o \in Outcomes : Settle(c, o)
    BY <1>6 DEF ReadBack, Outcomes
  <2>2. r.pc = "bookkeep" /\ r.item = call[c].item
    BY <1>1 DEF Call
  <2> HIDE DEF r
  <2>3. call[c].item \in Items /\ call[c].pc = "read-back" /\ leases' = leases /\ owner' = owner
    BY <1>1, <1>6 DEF ReadBack, CallHolds, Moving
  <2>4. call'[c] = r
    BY <1>2, <1>3, <2>1 DEF Holding
  <2> QED
    BY <2>2, <2>3, <2>4
<1>7. CASE Bookkeep(c)
  BY <1>2, <1>7 DEF Bookkeep, Holding
<1>8. CASE PolicyCheck(c)
  <2>1. [call[c] EXCEPT !.pc = "claim"].pc = "claim"
    BY <1>1 DEF Call
  <2> QED
    BY <1>2, <1>3, <1>8, <2>1 DEF PolicyCheck, Holding
<1>9. CASE RecordInvocation(c) \/ DecisionReturns(c)
  BY <1>3, <1>9 DEF RecordInvocation, DecisionReturns, Tells, Idle, Holding
<1>10. CASE ResolveTarget(c)
  <2>1. PICK i \in Items, to \in Targets :
          \/ Go(c, [Idle EXCEPT !.pc = "policy", !.id = calls + 1, !.item = i, !.to = to,
                                !.from = board[i]])
          \/ Go(c, [Idle EXCEPT !.pc = "record", !.id = calls + 1, !.item = i, !.to = to,
                                !.outcome = "refused"])
    BY <1>10 DEF ResolveTarget
  <2> QED
    BY <1>3, <2>1 DEF Idle, Holding
<1>11. CASE RecordDecision(c)
  <2>1. \E o \in Outcomes : Go(c, [Idle EXCEPT !.pc = "decide", !.id = calls + 1, !.outcome = o])
    BY <1>11 DEF RecordDecision, Decides, Outcomes
  <2> QED
    BY <1>3, <2>1 DEF Idle, Holding
<1> QED
  BY <1>4, <1>5, <1>6, <1>7, <1>8, <1>9, <1>10, <1>11 DEF CallStep

(* What two calls of one session hold at a time is noted as they come to it. *)
LEMMA SharedStep ==
  ASSUME BoardToolsAssumption, BoardTypes, NEW c \in Clients, CallStep(c)
  PROVE  /\ shared \subseteq shared'
         /\ \A d \in Clients \ {c} :
              /\ call'[c].pc \in Holding /\ call[d].pc \in Holding
              /\ call[c].item = call[d].item /\ SessionOf[c] = SessionOf[d]
              => call[c].item \in shared' \/ call[c].pc \in Holding
<1>1. CASE TryClaim(c)
  BY <1>1 DEF TryClaim, HeldByAnother
<1>2. CASE ~TryClaim(c)
  <2>1. shared' = shared
    BY <1>1, <1>2 DEF CallStep, ResolveTarget, PolicyCheck, SetItemStatus, ReadBack, Bookkeep,
       RecordInvocation, RecordDecision, DecisionReturns
  <2>2. ASSUME call'[c].pc \in Holding PROVE call[c].pc \in Holding
    <3>1. \/ call'[c].pc = "write" \/ call[c].pc = "write" \/ call[c].pc = "read-back"
      BY <2>2, HolderStep
    <3>2. ASSUME call'[c].pc = "write" PROVE FALSE
      <4>1. call \in [Clients -> Call] /\ call[c] \in Call
        BY DEF BoardTypes, CallTypes
      <4>2. ASSUME NEW o, Settle(c, o) PROVE FALSE
        BY <3>2, <4>1, <4>2 DEF Settle, Go, Call
      <4>3. ASSUME NEW r, Go(c, r), r.pc # "write" PROVE FALSE
        BY <3>2, <4>1, <4>3 DEF Go
      <4>4. ~PolicyCheck(c)
        <5>1. [call[c] EXCEPT !.pc = "claim"].pc = "claim"
          BY <4>1 DEF Call
        <5> QED
          BY <4>2, <4>3, <5>1 DEF PolicyCheck
      <4>5. ~SetItemStatus(c)
        <5> DEFINE wrote == [call[c] EXCEPT !.wrote = TRUE]
                   done == [wrote EXCEPT !.pc = "read-back"]
                   open == [wrote EXCEPT !.pc = "record", !.outcome = "indeterminate"]
        <5>1. SetItemStatus(c) => Go(c, done) \/ Go(c, open) \/ \E o \in Outcomes : Settle(c, o)
          BY DEF SetItemStatus, Outcomes
        <5>2. done.pc = "read-back" /\ open.pc = "record"
          BY <4>1 DEF Call
        <5> HIDE DEF done, open
        <5> QED
          BY <4>2, <4>3, <5>1, <5>2
      <4>6. ~ReadBack(c)
        <5>1. [call[c] EXCEPT !.pc = "bookkeep"].pc = "bookkeep"
          BY <4>1 DEF Call
        <5> QED
          BY <4>2, <4>3, <5>1 DEF ReadBack
      <4>7. ~Bookkeep(c)
        BY <4>2 DEF Bookkeep
      <4>8. ~RecordInvocation(c) /\ ~DecisionReturns(c)
        BY <4>3 DEF RecordInvocation, DecisionReturns, Tells, Idle
      <4>9. ~ResolveTarget(c)
        <5>1. SUFFICES ASSUME NEW i \in Items, NEW to \in Targets,
                \/ Go(c, [Idle EXCEPT !.pc = "policy", !.id = calls + 1, !.item = i, !.to = to,
                                      !.from = board[i]])
                \/ Go(c, [Idle EXCEPT !.pc = "record", !.id = calls + 1, !.item = i, !.to = to,
                                      !.outcome = "refused"])
              PROVE FALSE
          BY DEF ResolveTarget
        <5> QED
          BY <4>3, <5>1 DEF Idle
      <4>10. ~RecordDecision(c)
        <5>1. RecordDecision(c) => \E o : Go(c, [Idle EXCEPT !.pc = "decide", !.id = calls + 1, !.outcome = o])
          BY DEF RecordDecision, Decides
        <5> QED
          BY <4>3, <5>1 DEF Idle
      <4> QED
        BY <1>2, <4>4, <4>5, <4>6, <4>7, <4>8, <4>9, <4>10 DEF CallStep
    <3> QED
      BY <3>1, <3>2 DEF Holding
  <2> QED
    BY <2>1, <2>2
<1> QED
  BY <1>1, <1>2

(* A lease that protects an applied move is never released by another move. *)
LEMMA HoldInvStep ==
  ASSUME BoardToolsAssumption, BoardTypes, HoldInv, [Next]_vars
  PROVE  HoldInv'
<1>1. ASSUME NEW c \in Clients, CallStep(c) PROVE HoldInv'
  <2>1. \A d \in Clients \ {c} : call'[d] = call[d]
    BY <1>1, CallTypesStep
  <2>2. Releases(c) /\ call[c].item \notin shared => owner[call[c].item] # SessionOf[c]
    BY DEF Releases, HoldInv
  <2>a. shared \subseteq shared'
    BY <1>1, SharedStep
  <2>b. ASSUME NEW d \in Clients \ {c}, call[d].pc \in Holding, call[d].item \notin shared,
               call[c].item = call[d].item, SessionOf[c] = SessionOf[d]
        PROVE  ~Releases(c) /\ call[c].pc # "bookkeep"
    BY <2>b DEF HoldInv, Releases, Holding
  <2>3. ASSUME NEW i \in Items \ shared', owner'[i] # "nobody" PROVE Holds(leases', i, owner'[i])
    <3>0. i \in Items \ shared
      BY <2>a
    <3>1. CASE owner'[i] = owner[i] /\ owner[i] # SessionOf[c]
      BY <1>1, <2>3, <3>0, <3>1, OthersLeases DEF HoldInv
    <3>2. CASE owner'[i] = owner[i] /\ owner[i] = SessionOf[c]
      BY <1>1, <2>2, <2>3, <3>0, <3>2, OwnLeasesKept DEF HoldInv
    <3>3. CASE owner'[i] = SessionOf[c] /\ i = call[c].item /\ call[c].pc = "bookkeep" /\ leases' = leases
      BY <3>0, <3>3 DEF HoldInv, Holding
    <3> QED
      BY <1>1, <2>3, <3>1, <3>2, <3>3, OwnerStep
  <2>4. ASSUME NEW d \in Clients, call'[d].pc \in Holding, call'[d].item \notin shared'
        PROVE  Holds(leases', call'[d].item, SessionOf[d])
    <3>1. CASE d # c
      <4>1. call[d].pc \in Holding /\ call[d].item \notin shared /\ call'[d] = call[d]
        BY <2>1, <2>4, <2>a, <3>1
      <4>2. Holds(leases, call[d].item, SessionOf[d])
        BY <4>1 DEF HoldInv
      <4>3. CASE SessionOf[d] # SessionOf[c]
        BY <1>1, <4>1, <4>2, <4>3, OthersLeases
      <4>4. CASE SessionOf[d] = SessionOf[c]
        <5>1. ~(Releases(c) /\ call[d].item = call[c].item)
          BY <2>b, <3>1, <4>1, <4>4
        <5> QED
          BY <1>1, <4>1, <4>2, <4>4, <5>1, OwnLeasesKept
      <4> QED
        BY <4>3, <4>4
    <3>2. CASE d = c
      <4>1. call'[c].item = call[c].item /\ call[c].item \notin shared
        BY <1>1, <2>4, <2>a, <3>2, HolderStep
      <4> QED
        BY <1>1, <2>4, <3>2, <4>1, HolderStep DEF HoldInv, Holding
    <3> QED
      BY <3>1, <3>2
  <2>5. ASSUME NEW d \in Clients, call'[d].item \notin shared',
               (call'[d].pc = "write" /\ call'[d].fresh) \/ call'[d].pc \in {"read-back", "bookkeep"}
        PROVE  owner'[call'[d].item] # SessionOf[d]
    <3>0. SessionOf[d] # "nobody"
      BY DEF BoardToolsAssumption
    <3>1. CASE d # c
      <4>1. call[d].item \in Items /\ call'[d] = call[d] /\ call[d].item \notin shared
        BY <2>1, <2>5, <2>a, <3>1 DEF BoardTypes, CallTypes, CallHolds, Moving
      <4>2. owner[call[d].item] # SessionOf[d] /\ call[d].pc \in Holding
        BY <2>5, <4>1 DEF HoldInv, Holding
      <4>3. ~(call[c].pc = "bookkeep" /\ call[c].item = call[d].item /\ SessionOf[c] = SessionOf[d])
        BY <2>b, <3>1, <4>1, <4>2
      <4> QED
        BY <1>1, <3>0, <4>1, <4>2, <4>3, OwnerStep
    <3>2. CASE d = c
      <4>1. call'[c].item = call[c].item /\ call[c].item \notin shared /\ call[c].item \in Items
            /\ call'[c].pc \in Holding
        BY <1>1, <2>5, <2>a, <3>2, HolderStep DEF Holding
      <4>2. CASE call'[c].pc = "write" /\ owner' = owner
                 /\ (call'[c].fresh => ~Holds(leases, call[c].item, SessionOf[c]))
        BY <2>5, <3>0, <3>2, <4>1, <4>2 DEF HoldInv
      <4>3. CASE owner'[call[c].item] = "nobody"
        BY <3>0, <3>2, <4>1, <4>3
      <4>4. CASE call[c].pc = "read-back" /\ owner' = owner
        BY <3>2, <4>1, <4>4 DEF HoldInv
      <4> QED
        BY <1>1, <4>1, <4>2, <4>3, <4>4, HolderStep
    <3> QED
      BY <3>1, <3>2
  <2>6. ASSUME NEW d \in Clients \ {c}, call'[c].pc \in Holding, call'[d].pc \in Holding,
               call'[c].item = call'[d].item, SessionOf[c] = SessionOf[d]
        PROVE  call'[c].item \in shared'
    <3>1. call'[c].item = call[c].item /\ call'[d] = call[d]
      BY <1>1, <2>1, <2>6, HolderStep
    <3>2. call[c].item \in shared' \/ call[c].pc \in Holding
      BY <1>1, <2>6, <3>1, SharedStep
    <3>3. call[c].pc \in Holding => call[c].item \in shared
      BY <2>6, <3>1 DEF HoldInv
    <3> QED
      BY <2>a, <3>1, <3>2, <3>3
  <2>7. ASSUME NEW d \in Clients, NEW e \in Clients,
               call'[d].pc \in Holding, call'[e].pc \in Holding, call'[d].item = call'[e].item,
               SessionOf[d] = SessionOf[e], call'[d].item \notin shared'
        PROVE  d = e
    <3>1. CASE d # c /\ e # c
      BY <2>1, <2>7, <2>a, <3>1 DEF HoldInv
    <3>2. CASE d = c \/ e = c
      BY <2>6, <2>7, <3>2
    <3> QED
      BY <3>1, <3>2
  <2> QED
    BY <2>3, <2>4, <2>5, <2>7 DEF HoldInv
<1>2. CASE MoveByHand
  <2>1. leases' = leases /\ call' = call /\ shared' = shared
        /\ \E i \in Items : owner' = [owner EXCEPT ![i] = "nobody"]
    BY <1>2 DEF MoveByHand
  <2>2. \A i \in Items : owner'[i] = owner[i] \/ owner'[i] = "nobody"
    BY <2>1 DEF BoardTypes
  <2>3. \A c \in Clients : call[c].pc \in Holding => call[c].item \in Items
    BY DEF BoardTypes, CallTypes, CallHolds, Moving, Holding
  <2> QED
    BY <2>1, <2>2, <2>3 DEF HoldInv, Holding, BoardToolsAssumption
<1>3. CASE Tick \/ UNCHANGED vars
  <2>1. leases' = leases /\ call' = call /\ owner' = owner /\ shared' = shared
    BY <1>3 DEF Tick, vars
  <2> QED
    BY <2>1 DEF HoldInv
<1> QED
  BY <1>1, <1>2, <1>3 DEF Next, CallStep

-----------------------------------------------------------------------------
(***************************************************************************)
(* The guarded writes: refusals and the audit chain.                       *)
(***************************************************************************)

(* A call has written once it is past its write, and what is refused has   *)
(* not.  An outcome comes with the step that leads to the answer.          *)
WroteLate(r) ==
  /\ r.pc \in {"policy", "claim", "write"} \/ r.outcome = "refused" => ~r.wrote
  /\ r.pc \in {"read-back", "bookkeep"} \/ r.outcome = "applied" => r.wrote
  /\ r.pc \in Moving => r.outcome = "none"
  /\ r.pc = "record" => r.outcome \in {"applied", "refused", "indeterminate"}
  /\ r.pc = "decide" => r.outcome \in {"stored", "invalid", "not-recorded"}

(* Calls are numbered as they begin.  A move's number is not in the audit  *)
(* chain before its last step; a decision's is put there in its first.     *)
AuditInv ==
  /\ \A c \in Clients : WroteLate(call[c]) /\ call[c].id <= calls
  /\ \A c, d \in Clients :
       call[c].pc # "idle" /\ call[d].pc # "idle" /\ call[c].id = call[d].id => c = d
  /\ \A k \in 1 .. Len(audit) : audit[k].seq = k /\ audit[k].prev = k - 1 /\ audit[k].call <= calls
  /\ \A c \in Clients : call[c].pc \notin {"idle", "decide"} =>
       \A k \in 1 .. Len(audit) : audit[k].call # call[c].id
  /\ \A j, k \in 1 .. Len(audit) : audit[j].call = audit[k].call => j = k

(* What a step makes of a call: it begins, under the next number; or it    *)
(* goes on, under its own; or it ends.                                     *)
CallBegins(c) == call[c].pc = "idle" /\ call'[c].id = calls + 1 /\ calls' = calls + 1
CallGoesOn(c) ==
  /\ call[c].pc \notin {"idle", "decide"} /\ call'[c].pc # "decide"
  /\ call'[c].id = call[c].id /\ calls' = calls /\ audit' = audit
CallEnds(c) == call'[c] = Idle /\ calls' = calls

LEMMA NumberStep ==
  ASSUME BoardToolsAssumption, BoardTypes, NEW c \in Clients, CallStep(c), WroteLate(call[c])
  PROVE  /\ WroteLate(call'[c])
         /\ \/ /\ CallBegins(c)
               /\ \/ audit' = audit
                  \/ /\ audit' = Append(audit, StoredEvent)
                     /\ call'[c].pc = "decide"
            \/ CallGoesOn(c)
            \/ /\ CallEnds(c)
               /\ \/ audit' = audit
                  \/ audit' = Append(audit, InvocationEvent(c)) /\ call[c].pc = "record"
<1>1. call \in [Clients -> Call] /\ call[c] \in Call /\ CallHolds(call[c])
  BY DEF BoardTypes, CallTypes
<1>2. ASSUME NEW o \in Outcomes, Settle(c, o), calls' = calls, audit' = audit,
             call[c].pc \notin {"idle", "decide"}, o = "refused" => ~call[c].wrote,
             o = "applied" => call[c].wrote, o \in {"applied", "refused", "indeterminate"}
      PROVE  WroteLate(call'[c]) /\ CallGoesOn(c)
  <2> DEFINE r == [call[c] EXCEPT !.pc = "record", !.outcome = o]
  <2>1. r.pc = "record" /\ r.outcome = o /\ r.id = call[c].id /\ r.wrote = call[c].wrote
    BY <1>1 DEF Call
  <2>2. call'[c] = r
    BY <1>1, <1>2 DEF Settle, Go
  <2> HIDE DEF r
  <2> QED
    BY <1>2, <2>1, <2>2 DEF WroteLate, Moving, CallGoesOn
<1>3. ASSUME NEW r, Go(c, r) PROVE call'[c] = r
  BY <1>1, <1>3 DEF Go
<1>4. CASE ResolveTarget(c)
  <2>1. PICK i \in Items, to \in Targets :
          \/ Go(c, [Idle EXCEPT !.pc = "policy", !.id = calls + 1, !.item = i, !.to = to,
                                !.from = board[i]])
          \/ Go(c, [Idle EXCEPT !.pc = "record", !.id = calls + 1, !.item = i, !.to = to,
                                !.outcome = "refused"])
    BY <1>4 DEF ResolveTarget
  <2>2. call[c].pc = "idle" /\ calls' = calls + 1 /\ audit' = audit
    BY <1>4 DEF ResolveTarget, Begins
  <2>3. CASE Go(c, [Idle EXCEPT !.pc = "policy", !.id = calls + 1, !.item = i, !.to = to, !.from = board[i]])
    <3>1. PICK r : r = [Idle EXCEPT !.pc = "policy", !.id = calls + 1, !.item = i, !.to = to, !.from = board[i]]
      OBVIOUS
    <3>2. r.pc = "policy" /\ r.id = calls + 1 /\ r.outcome = "none" /\ ~r.wrote
      BY <3>1 DEF Idle
    <3>3. call'[c] = r
      BY <1>3, <2>3, <3>1
    <3> QED
      BY <2>2, <3>2, <3>3 DEF WroteLate, Moving, CallBegins
  <2>4. CASE Go(c, [Idle EXCEPT !.pc = "record", !.id = calls + 1, !.item = i, !.to = to, !.outcome = "refused"])
    <3>1. PICK r : r = [Idle EXCEPT !.pc = "record", !.id = calls + 1, !.item = i, !.to = to, !.outcome = "refused"]
      OBVIOUS
    <3>2. r.pc = "record" /\ r.id = calls + 1 /\ ~r.wrote /\ r.outcome = "refused"
      BY <3>1 DEF Idle
    <3>3. call'[c] = r
      BY <1>3, <2>4, <3>1
    <3> QED
      BY <2>2, <3>2, <3>3 DEF WroteLate, Moving, CallBegins
  <2> QED
    BY <2>1, <2>3, <2>4
<1>5. CASE PolicyCheck(c)
  <2> DEFINE r == [call[c] EXCEPT !.pc = "claim"]
  <2>1. r.pc = "claim" /\ r.id = call[c].id /\ r.outcome = call[c].outcome /\ r.wrote = call[c].wrote
    BY <1>1 DEF Call
  <2>2. call[c].pc = "policy" /\ calls' = calls /\ audit' = audit /\ (Go(c, r) \/ Settle(c, "refused"))
    BY <1>5 DEF PolicyCheck
  <2> HIDE DEF r
  <2> QED
    BY <1>2, <1>3, <2>1, <2>2 DEF WroteLate, Moving, CallGoesOn, Outcomes
<1>6. CASE TryClaim(c)
  <2> DEFINE r == [call[c] EXCEPT !.pc = "write", !.fresh = (OwnLeases(call[c].item, SessionOf[c]) = {})]
  <2>1. r.pc = "write" /\ r.id = call[c].id /\ r.outcome = call[c].outcome /\ r.wrote = call[c].wrote
    BY <1>1 DEF Call
  <2>2. call[c].pc = "claim" /\ calls' = calls /\ audit' = audit /\ (Go(c, r) \/ Settle(c, "refused"))
    BY <1>6 DEF TryClaim
  <2> HIDE DEF r
  <2> QED
    BY <1>2, <1>3, <2>1, <2>2 DEF WroteLate, Moving, CallGoesOn, Outcomes
<1>7. CASE SetItemStatus(c)
  <2> DEFINE wrote == [call[c] EXCEPT !.wrote = TRUE]
             done == [wrote EXCEPT !.pc = "read-back"]
             open == [wrote EXCEPT !.pc = "record", !.outcome = "indeterminate"]
  <2>1. Go(c, done) \/ Go(c, open) \/ Settle(c, "refused") \/ Settle(c, "indeterminate")
    BY <1>7 DEF SetItemStatus
  <2>2. /\ done.pc = "read-back" /\ done.id = call[c].id /\ done.outcome = call[c].outcome
        /\ open.pc = "record" /\ open.id = call[c].id /\ open.outcome = "indeterminate"
        /\ done.wrote
    BY <1>1 DEF Call
  <2> HIDE DEF done, open
  <2>3. call[c].pc = "write" /\ calls' = calls /\ audit' = audit
    BY <1>7 DEF SetItemStatus
  <2>4. call[c].outcome = "none"
    BY <2>3 DEF WroteLate, Moving
  <2> QED
    BY <1>2, <1>3, <2>1, <2>2, <2>3, <2>4 DEF WroteLate, Moving, CallGoesOn, Outcomes
<1>8. CASE ReadBack(c)
  <2> DEFINE r == [call[c] EXCEPT !.pc = "bookkeep"]
  <2>1. r.pc = "bookkeep" /\ r.id = call[c].id /\ r.outcome = call[c].outcome /\ r.wrote = call[c].wrote
    BY <1>1 DEF Call
  <2>2. call[c].pc = "read-back" /\ calls' = calls /\ audit' = audit
        /\ (Go(c, r) \/ Settle(c, "indeterminate"))
    BY <1>8 DEF ReadBack
  <2> HIDE DEF r
  <2> QED
    BY <1>2, <1>3, <2>1, <2>2 DEF WroteLate, Moving, CallGoesOn, Outcomes
<1>9. CASE Bookkeep(c)
  BY <1>2, <1>9 DEF Bookkeep, Outcomes, WroteLate
<1>10. CASE RecordInvocation(c)
  BY <1>3, <1>10 DEF RecordInvocation, Tells, Idle, WroteLate, Moving, CallEnds
<1>11. CASE DecisionReturns(c)
  BY <1>3, <1>11 DEF DecisionReturns, Tells, Idle, WroteLate, Moving, CallEnds
<1>12. CASE RecordDecision(c)
  <2>1. call[c].pc = "idle" /\ calls' = calls + 1
    BY <1>12 DEF RecordDecision, Begins
  <2>2. \E o \in {"invalid", "stored", "not-recorded"} :
          Go(c, [Idle EXCEPT !.pc = "decide", !.id = calls + 1, !.outcome = o])
    BY <1>12 DEF RecordDecision, Decides
  <2>3. WroteLate(call'[c]) /\ call'[c].id = calls + 1 /\ call'[c].pc = "decide"
    BY <1>3, <2>2 DEF Idle, WroteLate, Moving
  <2>4. \/ audit' = audit
        \/ audit' = Append(audit, StoredEvent)
    BY <1>12 DEF RecordDecision, StoredEvent
  <2> QED
    BY <2>1, <2>3, <2>4 DEF CallBegins
<1> QED
  BY <1>4, <1>5, <1>6, <1>7, <1>8, <1>9, <1>10, <1>11, <1>12 DEF CallStep

LEMMA Numbered ==
  ASSUME BoardToolsAssumption, BoardTypes
  PROVE  \A k \in 1 .. Len(audit) : audit[k].call \in 1 .. MaxCalls /\ audit[k].call \in Nat
<1>1. \A k \in 1 .. Len(audit) : audit[k] \in Record
  BY DEF BoardTypes
<1>2. \A r \in Record : r.call \in 1 .. MaxCalls /\ r.call \in Nat
  BY DEF Record, BoardToolsAssumption
<1> QED
  BY <1>1, <1>2

(* The chain grows by a record that carries its place in it. *)
LEMMA AuditInvStep ==
  ASSUME BoardToolsAssumption, BoardTypes, AuditInv, [Next]_vars
  PROVE  AuditInv'
<1>0. calls \in Nat /\ audit \in Seq(Record) /\ call \in [Clients -> Call] /\ Len(audit) \in Nat
      /\ \A c \in Clients : call[c].id \in Nat
  BY DEF BoardTypes, CallTypes, Call
<1>1. ASSUME NEW c \in Clients, CallStep(c) PROVE AuditInv'
  <2>1. \A d \in Clients \ {c} : call'[d] = call[d]
    BY <1>1, CallTypesStep
  <2>2. /\ WroteLate(call'[c])
        /\ \/ /\ CallBegins(c)
              /\ \/ audit' = audit
                 \/ /\ audit' = Append(audit, StoredEvent)
                    /\ call'[c].pc = "decide"
           \/ CallGoesOn(c)
           \/ /\ CallEnds(c)
              /\ \/ audit' = audit
                 \/ audit' = Append(audit, InvocationEvent(c)) /\ call[c].pc = "record"
    BY <1>1, NumberStep DEF AuditInv
  <2>3. CallEnds(c) => call'[c].id = 0 /\ call'[c].pc = "idle"
    BY DEF CallEnds, Idle
  <2>4. calls' \in Nat /\ calls' >= calls /\ call'[c].id <= calls'
    BY <1>0, <2>2, <2>3 DEF CallBegins, CallGoesOn, CallEnds, AuditInv
  <2>5. ASSUME NEW d \in Clients PROVE WroteLate(call'[d]) /\ call'[d].id <= calls'
    BY <1>0, <2>1, <2>2, <2>4 DEF AuditInv
  <2>6. ASSUME NEW d \in Clients \ {c}, call'[c].pc # "idle", call[d].pc # "idle"
        PROVE  call'[c].id # call[d].id
    BY <1>0, <2>2, <2>3, <2>6 DEF CallBegins, CallGoesOn, CallEnds, AuditInv
  <2>7. \A d, e \in Clients :
          call'[d].pc # "idle" /\ call'[e].pc # "idle" /\ call'[d].id = call'[e].id => d = e
    BY <2>1, <2>6 DEF AuditInv
  <2> DEFINE chained == \A k \in 1 .. Len(audit') :
                          audit'[k].seq = k /\ audit'[k].prev = k - 1 /\ audit'[k].call <= calls'
             absent == \A d \in Clients : call'[d].pc \notin {"idle", "decide"} =>
                         \A k \in 1 .. Len(audit') : audit'[k].call # call'[d].id
             once == \A j, k \in 1 .. Len(audit') : audit'[j].call = audit'[k].call => j = k
  <2>8. CASE audit' = audit
    <3>1. \A k \in 1 .. Len(audit) : audit[k].call \in Nat
      BY <1>0, Numbered
    <3>2. chained /\ once
      BY <1>0, <2>4, <2>8, <3>1 DEF AuditInv
    <3>3. ASSUME NEW k \in 1 .. Len(audit), call'[c].pc \notin {"idle", "decide"}
          PROVE  audit[k].call # call'[c].id
      BY <1>0, <2>2, <2>3, <3>1, <3>3 DEF CallBegins, CallGoesOn, CallEnds, AuditInv
    <3>4. absent
      BY <2>1, <2>8, <3>3 DEF AuditInv
    <3> QED
      BY <2>5, <2>7, <3>2, <3>4 DEF AuditInv
  <2>9. ASSUME NEW r, r.seq = Len(audit) + 1, r.prev = Len(audit), r.call \in Nat, r.call <= calls',
               audit' = Append(audit, r), call'[c].pc \in {"idle", "decide"},
               \A k \in 1 .. Len(audit) : audit[k].call # r.call,
               \A d \in Clients \ {c} : call[d].pc # "idle" => call[d].id # r.call
        PROVE  AuditInv'
    <3>1. /\ Len(audit') = Len(audit) + 1 /\ audit'[Len(audit) + 1] = r
          /\ \A k \in 1 .. Len(audit) : audit'[k] = audit[k]
      BY <1>0, <2>9
    <3>2. \A k \in 1 .. Len(audit') : k \in 1 .. Len(audit) \/ k = Len(audit) + 1
      BY <1>0, <3>1
    <3>3. \A k \in 1 .. Len(audit) : audit[k].call \in Nat
      BY <1>0, Numbered
    <3>4. chained
      <4>1. ASSUME NEW k \in 1 .. Len(audit)
            PROVE  audit'[k].seq = k /\ audit'[k].prev = k - 1 /\ audit'[k].call <= calls'
        BY <1>0, <2>4, <3>1, <3>3 DEF AuditInv
      <4> QED
        BY <1>0, <2>9, <3>1, <3>2, <4>1
    <3>5. once
      BY <2>9, <3>1, <3>2 DEF AuditInv
    <3>6. absent
      BY <2>1, <2>9, <3>1, <3>2 DEF AuditInv
    <3> QED
      BY <2>5, <2>7, <3>4, <3>5, <3>6 DEF AuditInv
  <2>10. CASE CallBegins(c) /\ call'[c].pc = "decide" /\ audit' = Append(audit, StoredEvent)
    <3>0. PICK r : r = StoredEvent
      OBVIOUS
    <3>a. r.seq = Len(audit) + 1 /\ r.prev = Len(audit) /\ r.call = calls + 1
      BY <3>0 DEF StoredEvent
    <3>1. \A k \in 1 .. Len(audit) : audit[k].call \in Nat
      BY <1>0, Numbered
    <3>2. /\ r.seq = Len(audit) + 1 /\ r.prev = Len(audit) /\ r.call \in Nat /\ r.call <= calls'
          /\ \A k \in 1 .. Len(audit) : audit[k].call # r.call
          /\ \A d \in Clients \ {c} : call[d].pc # "idle" => call[d].id # r.call
      BY <1>0, <2>10, <3>1, <3>a DEF CallBegins, AuditInv
    <3>3. audit' = Append(audit, r) /\ call'[c].pc \in {"idle", "decide"}
      BY <2>10, <3>0
    <3> QED
      BY <2>9, <3>2, <3>3
  <2>11. CASE CallEnds(c) /\ audit' = Append(audit, InvocationEvent(c)) /\ call[c].pc = "record"
    <3> DEFINE r == InvocationEvent(c)
    <3>1. r.seq = Len(audit) + 1 /\ r.prev = Len(audit) /\ r.call = call[c].id
      BY DEF InvocationEvent
    <3>2. audit' = Append(audit, r) /\ call'[c].pc \in {"idle", "decide"} /\ calls' = calls
      BY <2>3, <2>11 DEF CallEnds
    <3> HIDE DEF r
    <3>3. /\ r.call \in Nat /\ r.call <= calls'
          /\ \A k \in 1 .. Len(audit) : audit[k].call # r.call
          /\ \A d \in Clients \ {c} : call[d].pc # "idle" => call[d].id # r.call
      BY <1>0, <2>11, <3>1, <3>2 DEF AuditInv
    <3> QED
      BY <2>9, <3>1, <3>2, <3>3
  <2> QED
    BY <2>2, <2>8, <2>10, <2>11 DEF CallGoesOn
<1>2. CASE MoveByHand \/ Tick \/ UNCHANGED vars
  <2>1. call' = call /\ calls' = calls /\ audit' = audit
    BY <1>2 DEF MoveByHand, Tick, vars
  <2> QED
    BY <2>1 DEF AuditInv
<1> QED
  BY <1>1, <1>2 DEF Next, CallStep

(* Answered, of a chain and a store. *)
Fits(lines, store, n, word) ==
  /\ word \in {"applied", "refused", "indeterminate", "stored"} =>
       \E k \in 1 .. Len(lines) : lines[k].call = n /\ lines[k].kind = word
  /\ word \in {"unchanged", "not-recorded", "invalid"} =>
       \A k \in 1 .. Len(lines) : lines[k].call # n
  /\ word = "stored" => \E k \in 1 .. Len(store) : store[k] = n
  /\ word = "invalid" => \A k \in 1 .. Len(store) : store[k] # n

(* What calls were told, and what those that decide are about to be told,  *)
(* is so in the chain and in the decision store.                           *)
ToldInv ==
  /\ \A n \in 1 .. MaxCalls :
       /\ told[n].answer # "none" =>
            n <= calls /\ \A c \in Clients : call[c].pc # "idle" => call[c].id # n
       /\ Fits(audit, decisions, n, told[n].answer)
       /\ told[n].answer \in {"refused", "unchanged"} => ~told[n].wrote
       /\ told[n].answer = "applied" => told[n].wrote
  /\ \A c \in Clients : call[c].pc = "decide" => Fits(audit, decisions, call[c].id, call[c].outcome)
  /\ \A k \in 1 .. Len(decisions) : decisions[k] <= calls

(* Another call's event and another call's decision change no answer. *)
LEMMA AnsweredKept ==
  ASSUME BoardTypes, NEW n, NEW a, Fits(audit, decisions, n, a),
         audit' = audit \/ \E r : audit' = Append(audit, r) /\ r.call # n,
         decisions' = decisions \/ \E m : decisions' = Append(decisions, m) /\ m # n
  PROVE  Fits(audit', decisions', n, a)
<1>0. audit \in Seq(Record) /\ decisions \in Seq(1 .. MaxCalls)
      /\ Len(audit) \in Nat /\ Len(decisions) \in Nat
  BY DEF BoardTypes
<1>1. \A k \in 1 .. Len(audit) : k \in 1 .. Len(audit') /\ audit'[k] = audit[k]
  BY <1>0
<1>2. \A k \in 1 .. Len(audit') : audit'[k].call = n => k \in 1 .. Len(audit)
  <2>1. CASE audit' = audit
    BY <2>1
  <2>2. ASSUME NEW r, audit' = Append(audit, r), r.call # n
        PROVE  \A k \in 1 .. Len(audit') : audit'[k].call = n => k \in 1 .. Len(audit)
    <3>1. Len(audit') = Len(audit) + 1 /\ audit'[Len(audit) + 1] = r
      BY <1>0, <2>2
    <3> QED
      BY <1>0, <2>2, <3>1
  <2> QED
    BY <2>1, <2>2
<1>3. \A k \in 1 .. Len(decisions) : k \in 1 .. Len(decisions') /\ decisions'[k] = decisions[k]
  BY <1>0
<1>4. \A k \in 1 .. Len(decisions') : decisions'[k] = n => k \in 1 .. Len(decisions)
  <2>1. CASE decisions' = decisions
    BY <2>1
  <2>2. ASSUME NEW m, decisions' = Append(decisions, m), m # n
        PROVE  \A k \in 1 .. Len(decisions') : decisions'[k] = n => k \in 1 .. Len(decisions)
    <3>1. Len(decisions') = Len(decisions) + 1 /\ decisions'[Len(decisions) + 1] = m
      BY <1>0, <2>2
    <3> QED
      BY <1>0, <2>2, <3>1
  <2> QED
    BY <2>1, <2>2
<1>5. a \in {"applied", "refused", "indeterminate", "stored"} =>
        \E k \in 1 .. Len(audit') : audit'[k].call = n /\ audit'[k].kind = a
  BY <1>1 DEF Fits
<1>6. a \in {"unchanged", "not-recorded", "invalid"} => \A k \in 1 .. Len(audit') : audit'[k].call # n
  BY <1>1, <1>2 DEF Fits
<1>7. /\ a = "stored" => \E k \in 1 .. Len(decisions') : decisions'[k] = n
      /\ a = "invalid" => \A k \in 1 .. Len(decisions') : decisions'[k] # n
  BY <1>3, <1>4 DEF Fits
<1> QED
  BY <1>5, <1>6, <1>7 DEF Fits

(* The steps that touch neither the store nor what was told, and the others. *)
LEMMA QuietOrTells ==
  ASSUME BoardToolsAssumption, BoardTypes, NEW c \in Clients, CallStep(c), WroteLate(call[c])
  PROVE  \/ RecordDecision(c) \/ RecordInvocation(c) \/ DecisionReturns(c)
         \/ /\ told' = told /\ decisions' = decisions /\ audit' = audit
            /\ call'[c].pc # "decide" /\ calls' \in {calls, calls + 1}
            /\ \/ call'[c].id = calls + 1 /\ calls' = calls + 1
               \/ call[c].pc # "idle" /\ call'[c].id = call[c].id /\ calls' = calls
<1> SUFFICES ASSUME ~RecordDecision(c), ~RecordInvocation(c), ~DecisionReturns(c)
             PROVE  /\ told' = told /\ decisions' = decisions /\ audit' = audit
                    /\ call'[c].pc # "decide" /\ calls' \in {calls, calls + 1}
                    /\ \/ call'[c].id = calls + 1 /\ calls' = calls + 1
                       \/ call[c].pc # "idle" /\ call'[c].id = call[c].id /\ calls' = calls
  OBVIOUS
<1>1. told' = told /\ decisions' = decisions /\ audit' = audit
  BY DEF CallStep, ResolveTarget, PolicyCheck, TryClaim, SetItemStatus, ReadBack, Bookkeep
<1>2. CASE ResolveTarget(c)
  <2>0. call \in [Clients -> Call]
    BY DEF BoardTypes, CallTypes
  <2>1. PICK r : \E i \in Items, to \in Targets :
          /\ \/ r = [Idle EXCEPT !.pc = "policy", !.id = calls + 1, !.item = i, !.to = to,
                                  !.from = board[i]]
             \/ r = [Idle EXCEPT !.pc = "record", !.id = calls + 1, !.item = i, !.to = to,
                                  !.outcome = "refused"]
          /\ Go(c, r)
    BY <1>2 DEF ResolveTarget
  <2>2. r.id = calls + 1 /\ r.pc # "decide"
    BY <2>1 DEF Idle
  <2>3. call'[c] = r
    BY <2>0, <2>1 DEF Go
  <2> QED
    BY <1>1, <1>2, <2>2, <2>3 DEF ResolveTarget, Begins
<1>3. CASE ~ResolveTarget(c)
  <2>1. call[c].pc \notin {"idle", "decide"} /\ calls' = calls
    BY <1>3 DEF CallStep, PolicyCheck, TryClaim, SetItemStatus, ReadBack, Bookkeep
  <2>2. calls \in Nat
    BY DEF BoardTypes
  <2>3. ~CallBegins(c)
    BY <2>1 DEF CallBegins
  <2>4. CallGoesOn(c) \/ CallEnds(c)
    BY <2>3, NumberStep
  <2>5. ASSUME CallEnds(c) PROVE FALSE
    <3>0. call \in [Clients -> Call] /\ call[c] \in Call
      BY DEF BoardTypes, CallTypes
    <3>1. \E p \in {"record", "claim", "write", "read-back", "bookkeep"} : call'[c].pc = p
      <4>1. ASSUME NEW o, Settle(c, o) PROVE call'[c].pc = "record"
        BY <3>0, <4>1 DEF Settle, Go, Call
      <4>2. ASSUME NEW p, NEW f, Go(c, [call[c] EXCEPT !.pc = p, !.fresh = f]) PROVE call'[c].pc = p
        BY <3>0, <4>2 DEF Go, Call
      <4>3. ASSUME NEW p, Go(c, [call[c] EXCEPT !.pc = p]) PROVE call'[c].pc = p
        BY <3>0, <4>3 DEF Go, Call
      <4>4. CASE SetItemStatus(c)
        <5> DEFINE wrote == [call[c] EXCEPT !.wrote = TRUE]
                   done == [wrote EXCEPT !.pc = "read-back"]
                   open == [wrote EXCEPT !.pc = "record", !.outcome = "indeterminate"]
        <5>1. Go(c, done) \/ Go(c, open) \/ \E o \in Outcomes : Settle(c, o)
          BY <4>4 DEF SetItemStatus, Outcomes
        <5>2. done.pc = "read-back" /\ open.pc = "record"
          BY <3>0 DEF Call
        <5> HIDE DEF done, open
        <5> QED
          BY <3>0, <4>1, <5>1, <5>2 DEF Go
      <4>5. CASE ReadBack(c)
        BY <4>1, <4>3, <4>5 DEF ReadBack
      <4>6. CASE PolicyCheck(c)
        BY <4>1, <4>3, <4>6 DEF PolicyCheck
      <4>7. CASE TryClaim(c)
        BY <4>1, <4>2, <4>7 DEF TryClaim
      <4>8. CASE Bookkeep(c)
        BY <4>1, <4>8 DEF Bookkeep
      <4> QED
        BY <1>3, <4>4, <4>5, <4>6, <4>7, <4>8 DEF CallStep
    <3> QED
      BY <2>5, <3>1 DEF CallEnds, Idle
  <2> QED
    BY <1>1, <2>1, <2>4, <2>5 DEF CallGoesOn
<1> QED
  BY <1>2, <1>3

LEMMA ToldInvStep ==
  ASSUME BoardToolsAssumption, BoardTypes, AuditInv, ToldInv, [Next]_vars
  PROVE  ToldInv'
<1>0. /\ calls \in Nat /\ audit \in Seq(Record) /\ decisions \in Seq(1 .. MaxCalls)
      /\ call \in [Clients -> Call] /\ told \in [1 .. MaxCalls -> Telling]
      /\ Len(audit) \in Nat /\ Len(decisions) \in Nat
      /\ \A c \in Clients : call[c].id \in Nat /\ call[c].id <= calls
  BY DEF BoardTypes, CallTypes, Call, AuditInv
<1>a. \A k \in 1 .. Len(decisions) : decisions[k] \in Nat
  <2>0. PICK S : S = 1 .. MaxCalls
    OBVIOUS
  <2>a. decisions \in Seq(S)
    BY <1>0, <2>0
  <2>1. \A k \in 1 .. Len(decisions) : decisions[k] \in S
    BY <2>a
  <2> QED
    BY <2>0, <2>1 DEF BoardToolsAssumption
<1>b. \A k \in 1 .. Len(audit) : audit[k].call \in Nat /\ audit[k].call <= calls
  BY Numbered DEF AuditInv
<1>1. ASSUME NEW c \in Clients, CallStep(c) PROVE ToldInv'
  <2>1. \A d \in Clients \ {c} : call'[d] = call[d]
    BY <1>1, CallTypesStep
  <2>2. WroteLate(call[c])
    BY DEF AuditInv
  <2>3. CASE /\ told' = told /\ decisions' = decisions /\ audit' = audit
             /\ call'[c].pc # "decide" /\ calls' \in {calls, calls + 1}
             /\ \/ call'[c].id = calls + 1 /\ calls' = calls + 1
                \/ call[c].pc # "idle" /\ call'[c].id = call[c].id /\ calls' = calls
    <3>0. calls' \in Nat /\ calls' >= calls
      BY <1>0, <2>3
    <3>1. \A n, a : Fits(audit', decisions', n, a) <=> Fits(audit, decisions, n, a)
      BY <2>3 DEF Fits
    <3>2. ASSUME NEW n \in 1 .. MaxCalls, told[n].answer # "none"
          PROVE  n <= calls' /\ \A d \in Clients : call'[d].pc # "idle" => call'[d].id # n
      <4>1. n <= calls /\ \A d \in Clients : call[d].pc # "idle" => call[d].id # n
        BY <3>2 DEF ToldInv
      <4>2. call'[c].pc # "idle" => call'[c].id # n
        BY <1>0, <2>3, <4>1
      <4> QED
        BY <1>0, <2>1, <3>0, <4>1, <4>2
    <3>3. \A d \in Clients : call'[d].pc = "decide" => Fits(audit', decisions', call'[d].id, call'[d].outcome)
      BY <2>1, <2>3, <3>1 DEF ToldInv
    <3>4. \A k \in 1 .. Len(decisions) : decisions[k] <= calls'
      BY <1>0, <1>a, <3>0 DEF ToldInv
    <3> QED
      BY <2>3, <3>1, <3>2, <3>3, <3>4 DEF ToldInv
  <2>4. CASE RecordDecision(c)
    <3>1. told' = told /\ calls' = calls + 1 /\ calls + 1 \in Nat
      BY <1>0, <2>4 DEF RecordDecision, Begins
    <3>2. PICK o : /\ Decides(c, o)
                   /\ \/ o = "invalid" /\ decisions' = decisions /\ audit' = audit
                      \/ /\ o = "stored" /\ decisions' = Append(decisions, calls + 1)
                         /\ audit' = Append(audit, StoredEvent)
                      \/ /\ o = "not-recorded" /\ decisions' = Append(decisions, calls + 1)
                         /\ audit' = audit
      BY <2>4 DEF RecordDecision, StoredEvent
    <3>3. call'[c].pc = "decide" /\ call'[c].id = calls + 1 /\ call'[c].outcome = o
      <4>1. PICK r : r = [Idle EXCEPT !.pc = "decide", !.id = calls + 1, !.outcome = o]
        OBVIOUS
      <4>2. r.pc = "decide" /\ r.id = calls + 1 /\ r.outcome = o
        BY <4>1 DEF Idle
      <4> QED
        BY <1>0, <3>2, <4>1, <4>2 DEF Decides, Go
    <3>4. StoredEvent.call = calls + 1 /\ StoredEvent.kind = "stored"
      BY DEF StoredEvent
    <3>5. ASSUME NEW n \in Nat, n <= calls, NEW a, Fits(audit, decisions, n, a) PROVE Fits(audit', decisions', n, a)
      BY <1>0, <3>2, <3>4, <3>5, AnsweredKept
    <3>6. Fits(audit', decisions', calls + 1, o)
      <4>1. CASE o = "stored"
        <5>1. /\ Len(audit') = Len(audit) + 1 /\ audit'[Len(audit) + 1] = StoredEvent
              /\ Len(decisions') = Len(decisions) + 1 /\ decisions'[Len(decisions) + 1] = calls + 1
          BY <1>0, <3>2, <4>1
        <5>2. Len(audit) + 1 \in 1 .. Len(audit') /\ Len(decisions) + 1 \in 1 .. Len(decisions')
          BY <1>0, <5>1
        <5> QED
          BY <3>4, <4>1, <5>1, <5>2 DEF Fits
      <4>2. CASE o \in {"invalid", "not-recorded"}
        <5>1. \A k \in 1 .. Len(audit') : audit'[k].call # calls + 1
          BY <1>0, <1>b, <3>2, <4>2
        <5>2. o = "invalid" => \A k \in 1 .. Len(decisions') : decisions'[k] # calls + 1
          BY <1>0, <1>a, <3>2 DEF ToldInv
        <5> QED
          BY <4>2, <5>1, <5>2 DEF Fits
      <4> QED
        BY <3>2, <4>1, <4>2
    <3>7. ASSUME NEW n \in 1 .. MaxCalls
          PROVE  /\ told[n].answer # "none" =>
                      n <= calls + 1 /\ \A d \in Clients : call'[d].pc # "idle" => call'[d].id # n
                 /\ Fits(audit', decisions', n, told'[n].answer)
      <4>1. CASE told[n].answer = "none"
        BY <3>1, <4>1 DEF Fits
      <4>2. CASE told[n].answer # "none"
        <5>1. n <= calls /\ Fits(audit, decisions, n, told[n].answer)
              /\ \A d \in Clients : call[d].pc # "idle" => call[d].id # n
          BY <4>2 DEF ToldInv
        <5>2. PICK a : a = told[n].answer
          OBVIOUS
        <5>3. Fits(audit', decisions', n, a)
          BY <3>5, <5>1, <5>2
        <5>4. n # calls + 1 /\ n <= calls + 1
          BY <1>0, <5>1
        <5>5. \A d \in Clients : call'[d].pc # "idle" => call'[d].id # n
          BY <2>1, <3>3, <5>1, <5>4
        <5>6. Fits(audit', decisions', n, told'[n].answer)
          BY <3>1, <5>2, <5>3 DEF Fits
        <5> QED
          BY <3>1, <5>4, <5>5, <5>6
      <4> QED
        BY <4>1, <4>2
    <3>8. ASSUME NEW d \in Clients, call'[d].pc = "decide" PROVE Fits(audit', decisions', call'[d].id, call'[d].outcome)
      <4>1. CASE d = c
        BY <3>3, <3>6, <4>1 DEF Fits
      <4>2. CASE d # c
        <5>1. PICK n, a : n = call[d].id /\ a = call[d].outcome
          OBVIOUS
        <5>2. call'[d] = call[d] /\ Fits(audit, decisions, n, a) /\ n \in Nat /\ n <= calls
          BY <1>0, <2>1, <3>8, <4>2, <5>1 DEF ToldInv
        <5>3. Fits(audit', decisions', n, a)
          BY <3>5, <5>2
        <5> QED
          BY <5>1, <5>2, <5>3 DEF Fits
      <4> QED
        BY <4>1, <4>2
    <3>9. \A k \in 1 .. Len(decisions') : decisions'[k] <= calls + 1
      <4>1. CASE decisions' = decisions
        BY <1>0, <1>a, <4>1 DEF ToldInv
      <4>2. CASE decisions' = Append(decisions, calls + 1)
        <5>1. Len(decisions') = Len(decisions) + 1 /\ decisions'[Len(decisions) + 1] = calls + 1
              /\ \A k \in 1 .. Len(decisions) : decisions'[k] = decisions[k]
          BY <1>0, <4>2
        <5> QED
          BY <1>0, <1>a, <5>1 DEF ToldInv
      <4> QED
        BY <3>2, <4>1, <4>2
    <3> QED
      BY <3>1, <3>7, <3>8, <3>9 DEF ToldInv
  <2>5. ASSUME NEW a, NEW m \in 1 .. MaxCalls, m = call[c].id, Tells(c, a), call[c].pc # "idle",
               calls' = calls, decisions' = decisions,
               audit' = audit \/ \E r : audit' = Append(audit, r) /\ r.call = m,
               Fits(audit', decisions', m, a), a \in {"refused", "unchanged"} => ~call[c].wrote,
               a = "applied" => call[c].wrote
        PROVE  ToldInv'
    <3>1. call'[c].pc = "idle"
      BY <1>0, <2>5 DEF Tells, Go, Idle
    <3>2. told'[m].answer = a /\ told'[m].wrote = call[c].wrote
          /\ \A n \in (1 .. MaxCalls) \ {m} : told'[n] = told[n]
      <4>1. PICK t : t = [answer |-> a, wrote |-> call[c].wrote]
        OBVIOUS
      <4>2. t.answer = a /\ t.wrote = call[c].wrote
        BY <4>1
      <4>3. told' = [told EXCEPT ![m] = t]
        BY <2>5, <4>1 DEF Tells
      <4> QED
        BY <1>0, <4>2, <4>3
    <3>3. ASSUME NEW n \in Nat, n # m, NEW b, Fits(audit, decisions, n, b) PROVE Fits(audit', decisions', n, b)
      BY <2>5, <3>3, AnsweredKept
    <3>4. \A d \in Clients : call'[d].pc # "idle" => d # c /\ call'[d] = call[d] /\ call[d].id # m
      BY <2>1, <2>5, <3>1 DEF AuditInv
    <3>5. ASSUME NEW n \in 1 .. MaxCalls
          PROVE  /\ told'[n].answer # "none" =>
                      n <= calls /\ \A d \in Clients : call'[d].pc # "idle" => call'[d].id # n
                 /\ Fits(audit', decisions', n, told'[n].answer)
                 /\ told'[n].answer \in {"refused", "unchanged"} => ~told'[n].wrote
                 /\ told'[n].answer = "applied" => told'[n].wrote
      <4>1. CASE n = m
        <5>1. Fits(audit', decisions', n, told'[n].answer)
          BY <2>5, <3>2, <4>1 DEF Fits
        <5>2. n <= calls /\ \A d \in Clients : call'[d].pc # "idle" => call'[d].id # n
          BY <1>0, <2>5, <3>4, <4>1
        <5> QED
          BY <2>5, <3>2, <4>1, <5>1, <5>2
      <4>2. CASE n # m
        <5>1. PICK b : b = told[n].answer
          OBVIOUS
        <5>2. Fits(audit, decisions, n, b)
          BY <5>1 DEF ToldInv
        <5>3. Fits(audit', decisions', n, b)
          BY <3>3, <4>2, <5>2
        <5>4. Fits(audit', decisions', n, told'[n].answer)
          BY <3>2, <4>2, <5>1, <5>3 DEF Fits
        <5> QED
          BY <3>2, <3>4, <4>2, <5>4 DEF ToldInv
      <4> QED
        BY <4>1, <4>2
    <3>6. ASSUME NEW d \in Clients, call'[d].pc = "decide" PROVE Fits(audit', decisions', call'[d].id, call'[d].outcome)
      <4>1. PICK n, b : n = call[d].id /\ b = call[d].outcome
        OBVIOUS
      <4>2. call'[d] = call[d] /\ n # m /\ n \in Nat /\ Fits(audit, decisions, n, b)
        BY <1>0, <3>4, <3>6, <4>1 DEF ToldInv
      <4>3. Fits(audit', decisions', n, b)
        BY <3>3, <4>2
      <4> QED
        BY <4>1, <4>2, <4>3 DEF Fits
    <3> QED
      BY <2>5, <3>5, <3>6 DEF ToldInv
  <2>6. PICK m : m = call[c].id
    OBVIOUS
  <2>7. call[c].pc # "idle" => m \in 1 .. MaxCalls
    BY <2>6 DEF BoardTypes, CallTypes, CallHolds, Call
  <2>8. CASE DecisionReturns(c)
    <3>1. call[c].pc = "decide" /\ Tells(c, call[c].outcome) /\ calls' = calls /\ decisions' = decisions
          /\ audit' = audit
      BY <2>8 DEF DecisionReturns
    <3>2. PICK a : a = call[c].outcome
      OBVIOUS
    <3>3. Fits(audit', decisions', m, a)
      BY <2>6, <3>1, <3>2 DEF ToldInv, Fits
    <3>4. a \in {"stored", "invalid", "not-recorded"}
      BY <2>2, <3>1, <3>2 DEF WroteLate
    <3> QED
      BY <2>5, <2>6, <2>7, <3>1, <3>2, <3>3, <3>4
  <2>9. CASE RecordInvocation(c)
    <3>1. call[c].pc = "record" /\ calls' = calls /\ decisions' = decisions
      BY <2>9 DEF RecordInvocation
    <3>2. PICK a : /\ Tells(c, a)
                   /\ \/ audit' = Append(audit, InvocationEvent(c)) /\ a = call[c].outcome
                      \/ audit' = audit /\ a = UnrecordedAnswer(call[c].outcome)
      BY <2>9 DEF RecordInvocation
    <3>3. /\ call[c].outcome \in {"applied", "refused", "indeterminate"}
          /\ call[c].outcome = "refused" => ~call[c].wrote
          /\ call[c].outcome = "applied" => call[c].wrote
      BY <2>2, <3>1 DEF WroteLate
    <3>4. \A k \in 1 .. Len(audit) : audit[k].call # m
      BY <2>6, <3>1 DEF AuditInv
    <3>5. InvocationEvent(c).call = m /\ InvocationEvent(c).kind = call[c].outcome
      BY <2>6 DEF InvocationEvent
    <3>6. Fits(audit', decisions', m, a)
      <4>1. CASE audit' = Append(audit, InvocationEvent(c)) /\ a = call[c].outcome
        <5>1. Len(audit') = Len(audit) + 1 /\ audit'[Len(audit) + 1] = InvocationEvent(c)
          BY <1>0, <4>1
        <5>2. Len(audit) + 1 \in 1 .. Len(audit')
          BY <1>0, <5>1
        <5> QED
          BY <3>3, <3>5, <4>1, <5>1, <5>2 DEF Fits
      <4>2. CASE audit' = audit /\ a = UnrecordedAnswer(call[c].outcome)
        BY <3>4, <4>2 DEF Fits, UnrecordedAnswer
      <4> QED
        BY <3>2, <4>1, <4>2
    <3>7. (a \in {"refused", "unchanged"} => ~call[c].wrote) /\ (a = "applied" => call[c].wrote)
      BY <3>2, <3>3 DEF UnrecordedAnswer
    <3>8. audit' = audit \/ \E r : audit' = Append(audit, r) /\ r.call = m
      BY <3>2, <3>5
    <3> QED
      BY <2>5, <2>6, <2>7, <3>1, <3>2, <3>6, <3>7, <3>8
  <2> QED
    BY <1>1, <2>2, <2>3, <2>4, <2>8, <2>9, QuietOrTells
<1>2. CASE MoveByHand \/ Tick \/ UNCHANGED vars
  <2>1. call' = call /\ calls' = calls /\ audit' = audit /\ decisions' = decisions /\ told' = told
    BY <1>2 DEF MoveByHand, Tick, vars
  <2> QED
    BY <2>1 DEF ToldInv, Fits
<1> QED
  BY <1>1, <1>2 DEF Next, CallStep

-----------------------------------------------------------------------------
(***************************************************************************)
(* The guarded writes: the theorems.                                       *)
(***************************************************************************)

LEMMA BoardInit ==
  ASSUME BoardToolsAssumption, Init
  PROVE  BoardTypes /\ LeaseInv /\ HoldInv /\ AuditInv /\ ToldInv
<1>1. \A c \in Clients : call[c] = Idle
  BY DEF Init
<1>2. Idle \in Call /\ CallHolds(Idle) /\ WroteLate(Idle) /\ Idle.pc = "idle" /\ Idle.id = 0
  BY DEF BoardToolsAssumption, Idle, Call, CallHolds, WroteLate, Pcs, Outcomes, Moving
<1>3. CallTypes
  BY <1>2 DEF Init, CallTypes
<1>4. BoardTypes
  <2>1. [answer |-> "none", wrote |-> FALSE] \in Telling
    BY DEF Telling, Outcomes
  <2> QED
    BY <1>3, <2>1 DEF BoardTypes, Init, BoardToolsAssumption
<1>5. LeaseInv /\ HoldInv
  BY <1>1, <1>2 DEF Init, LeaseInv, Live, HoldInv, Holding
<1>6. AuditInv
  BY <1>1, <1>2 DEF Init, AuditInv
<1>7. ToldInv
  <2>1. \A n \in 1 .. MaxCalls : told[n].answer = "none"
    BY DEF Init
  <2> QED
    BY <1>1, <1>2, <2>1 DEF Init, ToldInv, Fits
<1> QED
  BY <1>4, <1>5, <1>6, <1>7

(* One session at most: the set of the sessions is empty or has one member. *)
LEMMA OneSession ==
  ASSUME LeaseInv
  PROVE  \A i \in Items : Cardinality({l.session : l \in Live(i)}) <= 1
<1> SUFFICES ASSUME NEW i \in Items PROVE Cardinality({l.session : l \in Live(i)}) <= 1
  OBVIOUS
<1>1. CASE Live(i) = {}
  <2>1. {l.session : l \in Live(i)} = {}
    BY <1>1
  <2> QED
    BY <2>1, FS_EmptySet
<1>2. CASE Live(i) # {}
  <2>1. PICK m \in Live(i) : TRUE
    BY <1>2
  <2>2. {l.session : l \in Live(i)} = {m.session}
    BY <2>1 DEF LeaseInv
  <2>3. Cardinality({m.session}) = 1
    BY FS_Singleton
  <2> QED
    BY <2>2, <2>3
<1> QED
  BY <1>1, <1>2

(* An item has at most one session with a live lease on it, with any       *)
(* number of clients and also where clients share a session: try_claim     *)
(* under the registry's lock, against expiry, compensation and release.    *)
THEOREM LeasesExclusive ==
  BoardToolsAssumption /\ Spec =>
    [](\A i \in Items : Cardinality({l.session : l \in Live(i)}) <= 1)
<1> SUFFICES ASSUME BoardToolsAssumption
             PROVE  Spec => [](\A i \in Items : Cardinality({l.session : l \in Live(i)}) <= 1)
  OBVIOUS
<1>1. Init => BoardTypes /\ LeaseInv
  BY BoardInit
<1>2. BoardTypes /\ LeaseInv /\ [Next]_vars => (BoardTypes /\ LeaseInv)'
  BY BoardTypesStep, LeaseInvStep
<1>3. LeaseInv => \A i \in Items : Cardinality({l.session : l \in Live(i)}) <= 1
  BY OneSession
<1> QED
  BY <1>1, <1>2, <1>3, PTL DEF Spec

(* What the guarded writes promise, with any number of clients and however *)
(* their sessions overlap: types, a lease over every applied move that the *)
(* board still shows, unless two calls of one session held its item at a   *)
(* time, refusals that wrote nothing, an audit chain without a gap, a fork *)
(* or a call twice, and in it exactly the outcomes that were answered.     *)
THEOREM BoardWrites == BoardToolsAssumption /\ Spec => []BoardWritesSound
<1> SUFFICES ASSUME BoardToolsAssumption PROVE Spec => []BoardWritesSound
  OBVIOUS
<1> DEFINE BoardInv == BoardTypes /\ LeaseInv /\ HoldInv /\ AuditInv /\ ToldInv
<1>1. Init => BoardInv
  BY BoardInit
<1>2. BoardInv /\ [Next]_vars => BoardInv'
  BY BoardTypesStep, LeaseInvStep, HoldInvStep, AuditInvStep, ToldInvStep
<1>3. BoardInv => BoardWritesSound
  <2> SUFFICES ASSUME BoardTypes, LeaseInv, HoldInv, AuditInv, ToldInv PROVE BoardWritesSound
    OBVIOUS
  <2>1. TypeOK
    <3>1. \A c \in Clients : call[c].pc \in Pcs /\ call[c].outcome \in Outcomes
      BY DEF BoardTypes, CallTypes, Call
    <3> QED
      BY <3>1, Numbered DEF BoardTypes, TypeOK
  <2>2. LeaseProtects
    BY OneSession DEF HoldInv, Holds, OwnLeases, LeaseProtects
  <2>3. RefusalAndAuditHonest
    BY DEF AuditInv, ToldInv, RefusalAndAuditHonest, Answered, Fits
  <2> QED
    BY <2>1, <2>2, <2>3 DEF BoardWritesSound
<1> QED
  BY <1>1, <1>2, <1>3, PTL DEF Spec

-----------------------------------------------------------------------------
(***************************************************************************)
(* The delegation of gh.                                                   *)
(***************************************************************************)

Invocation == [step : {"start", "gates", "identity", "mint", "child", "label", "done", "failed", "refused"},
               entry : {"env", "chain"}, command : Commands, gated : BOOLEAN, bot : BOOLEAN,
               strict : BOOLEAN]
World == [pr : {"none", "here", "elsewhere", "noUrl"},
          labelled : SUBSET {"pr-labels", "pr-labels-from-issue"}, warned : BOOLEAN]

(* Past the identity gate a strict invocation is the bot's.  Past the      *)
(* first gate, and with nobody editing the configuration, `gh-env` has     *)
(* read a command that creates nothing.  Labels are put on last.           *)
GhInv ==
  /\ gh \in Invocation /\ world \in World /\ configEdits \in Nat
  /\ gh.step \in {"mint", "child", "label", "done", "failed"} /\ gh.strict => gh.bot
  /\ RequiredMode /\ configEdits = 0 /\ gh.entry = "env" =>
       /\ gh.step \notin {"start", "refused"} => Shape(gh.command) = "no"
       /\ world.pr = "none"
  /\ gh.step # "done" => world.labelled = {}
  /\ gh.entry = "chain" /\ gh.step = "done" =>
       \/ world.warned
       \/ world.pr = "here" /\ world.labelled = {"pr-labels", "pr-labels-from-issue"}
  /\ world.labelled # {} => world.pr = "here"

LEMMA GhInvStep ==
  ASSUME CommandsRecognised, GhInv, [GhNext]_ghVars
  PROVE  GhInv'
<1> USE DEF GhInv
<1>1. ASSUME NEW s \in {"start", "gates", "identity", "mint", "child", "label", "done", "failed", "refused"},
             To(s)
      PROVE  /\ gh' \in Invocation /\ gh'.step = s /\ gh'.entry = gh.entry /\ gh'.command = gh.command
             /\ gh'.bot = gh.bot /\ gh'.strict = gh.strict
  BY <1>1 DEF To, Invocation
<1>2. ASSUME UNCHANGED <<settings, world>>
      PROVE  /\ world' = world /\ configEdits' = configEdits /\ RequiredMode' = RequiredMode
  BY <1>2 DEF settings, RequiredMode
<1>3. CASE GhEnv
  <2>1. /\ gh.step = "start" /\ gh.entry = "env"
        /\ \/ To("refused")
           \/ To("gates") /\ (RequiredMode => Shape(gh.command) = "no")
        /\ UNCHANGED <<settings, world>>
    BY <1>3 DEF GhEnv
  <2> QED
    BY <1>1, <1>2, <2>1
<1>4. CASE PrCreateChain
  <2>1. /\ gh.step = "start" /\ gh.entry = "chain"
        /\ To("refused") \/ To("gates")
        /\ UNCHANGED <<settings, world>>
    BY <1>4 DEF PrCreateChain
  <2> QED
    BY <1>1, <1>2, <2>1
<1>5. CASE Gates
  <2>1. gh.step = "gates" /\ UNCHANGED <<settings, world>>
    BY <1>5 DEF Gates
  <2>2. /\ gh' \in Invocation /\ gh'.entry = gh.entry /\ gh'.command = gh.command
        /\ \/ gh'.step = "refused"
           \/ gh'.step = "identity"
           \/ gh'.step = "mint" /\ ~gh'.strict
    <3>1. CASE gh' = [gh EXCEPT !.step = "refused"]
      BY <3>1 DEF Invocation
    <3>2. CASE gh' = [gh EXCEPT !.gated = RequiredMode, !.strict = (required \/ pin = "required"),
                                !.step = IF RequiredMode THEN "identity" ELSE "mint"]
      <4>1. CASE required \/ pin = "required"
        BY <3>2, <4>1 DEF Invocation, RequiredMode
      <4>2. CASE ~(required \/ pin = "required")
        BY <3>2, <4>2 DEF Invocation, RequiredMode
      <4> QED
        BY <4>1, <4>2
    <3> QED
      BY <1>5, <3>1, <3>2 DEF Gates
  <2> QED
    BY <1>2, <2>1, <2>2
<1>6. CASE Identity
  <2>1. gh.step = "identity" /\ UNCHANGED <<settings, world>>
    BY <1>6 DEF Identity
  <2>2. /\ gh' \in Invocation /\ gh'.entry = gh.entry /\ gh'.command = gh.command
        /\ \/ gh'.step = "refused"
           \/ gh'.step = "mint" /\ gh'.bot
    BY <1>6 DEF Identity, BotAddress, Invocation
  <2> QED
    BY <1>2, <2>1, <2>2
<1>7. CASE Mint
  <2>1. gh.step = "mint" /\ UNCHANGED <<settings, world>> /\ (To("child") \/ To("refused"))
    BY <1>7 DEF Mint
  <2> QED
    BY <1>1, <1>2, <2>1
<1>8. CASE Child
  <2>1. gh.step = "child" /\ configEdits' = configEdits /\ RequiredMode' = RequiredMode
    BY <1>8 DEF Child, settings, RequiredMode
  <2>2. CASE To("failed") /\ UNCHANGED world
    BY <1>1, <2>1, <2>2
  <2>3. CASE /\ To(IF gh.entry = "chain" THEN "label" ELSE "done")
             /\ \E created \in IF Creates(gh.command) THEN {"here", "elsewhere", "noUrl"} ELSE {"none"} :
                  world' = [world EXCEPT !.pr = created]
    <3>1. world' \in World /\ world'.labelled = world.labelled
      BY <2>3 DEF World
    <3>2. Shape(gh.command) = "no" => world'.pr = "none"
      <4>1. gh.command \in Commands
        BY DEF Invocation
      <4> QED
        BY <2>3, <4>1 DEF CommandsRecognised, World
    <3>3. CASE gh.entry = "chain"
      BY <1>1, <2>1, <2>3, <3>1, <3>3
    <3>4. CASE gh.entry # "chain"
      BY <1>1, <2>1, <2>3, <3>1, <3>2, <3>4
    <3> QED
      BY <3>3, <3>4
  <2> QED
    BY <1>8, <2>2, <2>3 DEF Child
<1>9. CASE Label
  <2>1. gh.step = "label" /\ To("done") /\ configEdits' = configEdits /\ RequiredMode' = RequiredMode
    BY <1>9 DEF Label, settings, RequiredMode
  <2>2. /\ world' \in World /\ world'.pr = world.pr
        /\ \/ world'.warned /\ world'.labelled = world.labelled
           \/ /\ world.pr = "here"
              /\ world'.warned \/ world'.labelled = {"pr-labels", "pr-labels-from-issue"}
    BY <1>9 DEF Label, Labels, World
  <2> QED
    BY <1>1, <2>1, <2>2
<1>10. CASE Reconfigure
  <2>1. gh' = gh /\ world' = world /\ configEdits' = configEdits + 1
    BY <1>10 DEF Reconfigure
  <2> QED
    BY <2>1
<1>11. CASE UNCHANGED ghVars
  BY <1>11 DEF ghVars, RequiredMode
<1> QED
  BY <1>3, <1>4, <1>5, <1>6, <1>7, <1>8, <1>9, <1>10, <1>11 DEF GhNext

(* However often the configuration is edited between the gates: a child    *)
(* under a required mode ran as the bot, a pull request is created through *)
(* the chain alone, and the chain ends with every label or a warning.      *)
THEOREM GhGated == CommandsRecognised /\ GhSpec => []DelegationGated
<1> SUFFICES ASSUME CommandsRecognised PROVE GhSpec => []DelegationGated
  OBVIOUS
<1>1. GhInit => GhInv
  <2> SUFFICES ASSUME GhInit PROVE GhInv
    OBVIOUS
  <2>1. gh \in Invocation /\ gh.step = "start" /\ gh.strict = FALSE
    BY DEF GhInit, Invocation
  <2>2. world \in World /\ world.pr = "none" /\ world.labelled = {} /\ configEdits = 0
    BY DEF GhInit, World
  <2> QED
    BY <2>1, <2>2 DEF GhInv
<1>2. GhInv /\ [GhNext]_ghVars => GhInv'
  BY GhInvStep
<1>3. GhInv => DelegationGated
  BY DEF GhInv, DelegationGated, RequiredMode
<1> QED
  BY <1>1, <1>2, <1>3, PTL DEF GhSpec


-----------------------------------------------------------------------------
(***************************************************************************)
(* The gateway's other tools.  A call under way has a number of its own:   *)
(* no other call, no answer and no event has it.  An event is appended in  *)
(* the step that answers, so the events of a call are those of that step.  *)
(***************************************************************************)

GwPcs == {"idle", "patch", "create", "record"}
Waiting == {"result", "verdict", "unrecoverable"} \cup PrErrors
Words == Waiting \cup {"decided", "out_of_scope"}
Entry == [seq : Nat, prev : Nat, call : Nat, outcome : Words]
GwCall == [pc : GwPcs, tool : ToolNames \cup {"none"}, id : Nat, path : Files \cup {"none"},
           base : SUBSET Nat, outcome : Waiting \cup {"none"}]

GwCalling ==
  \A c \in GwClients :
    /\ gw[c].pc \in {"patch", "create"} => gw[c].path \in Files
    /\ gw[c].pc = "record" => gw[c].outcome \in Waiting

GwTypes ==
  /\ log \in Seq(Entry) /\ gwCalls \in Nat
  /\ tree \in [Files -> SUBSET Nat]
  /\ known \in [GwClients -> [Files -> SUBSET Nat]]
  /\ gw \in [GwClients -> GwCall] /\ GwCalling

(* Numbers in use, each for one call. *)
OwnNumber(c) ==
  gw[c].pc # "idle" =>
    /\ gw[c].id \in 1 .. gwCalls
    /\ \A k \in 1 .. Len(log) : log[k].call # gw[c].id
    /\ \A a \in answers : a.call # gw[c].id
    /\ \A d \in GwClients : d # c /\ gw[d].pc # "idle" => gw[d].id # gw[c].id

NumbersOwn ==
  /\ \A c \in GwClients : OwnNumber(c)
  /\ \A k \in 1 .. Len(log) : log[k].call \in 1 .. gwCalls
  /\ \A a \in answers : a.call \in 1 .. gwCalls

(* A patch that passed its digest is about to be made on what its author read. *)
PatchOnReading ==
  \A c \in GwClients : gw[c].pc = "patch" => gw[c].base = known[c][gw[c].path]

ChainUnbroken == \A k \in 1 .. Len(log) : log[k].seq = k /\ log[k].prev = k - 1

AnswerLogged(a) ==
  IF a.outcome \in Audited
  THEN \E k \in 1 .. Len(log) : Mine(a.call) = {k} /\ log[k].outcome = Told(a.outcome)
  ELSE Mine(a.call) = {}

AnswersLogged == "audit" \in wired => \A a \in answers : AnswerLogged(a)

WrittenOnReading == \A a \in answers : a.outcome = "written" => a.content = a.seen \cup {a.call}

Replayable(i) ==
  /\ i.texts = "ok"
  /\ (i.kind = "selected") <=> (i.task = "task")
  /\ (i.kind = "no-op") <=> (i.reason # "none")

StoredReplayable ==
  /\ stored \in Seq([call : Nat, input : DecisionInputs])
  /\ \A k \in 1 .. Len(stored) : Replayable(stored[k].input)

GatewayInv ==
  /\ GwTypes /\ NumbersOwn /\ PatchOnReading /\ ChainUnbroken /\ AnswersLogged
  /\ WrittenOnReading /\ StoredReplayable

(* The number of a call that answers in this step. *)
Unused(i) ==
  /\ i \in Nat /\ Mine(i) = {} /\ (\A a \in answers : a.call # i)

(* What an event of call i adds to the log, and what it leaves alone. *)
LEMMA OneEvent ==
  ASSUME GwTypes, ChainUnbroken, NEW i \in Nat, Mine(i) = {}, NEW o \in Words,
         log' = Append(log, Event(i, o))
  PROVE  /\ log' \in Seq(Entry) /\ ChainUnbroken' /\ Len(log') = Len(log) + 1
         /\ Mine(i)' = {Len(log) + 1} /\ log'[Len(log) + 1].outcome = o
         /\ log'[Len(log) + 1].call = i
         /\ \A k \in 1 .. Len(log) : log'[k] = log[k]
         /\ \A j : j # i => Mine(j)' = Mine(j)
<1>1. Len(log) \in Nat /\ Event(i, o) \in Entry
  BY DEF GwTypes, Event, Entry
<1>2. log' \in Seq(Entry) /\ Len(log') = Len(log) + 1
  BY <1>1 DEF GwTypes
<1>3. log'[Len(log) + 1] = Event(i, o) /\ \A k \in 1 .. Len(log) : log'[k] = log[k]
  BY <1>1 DEF GwTypes
<1>4. ChainUnbroken'
  BY <1>1, <1>2, <1>3 DEF ChainUnbroken, Event
<1>5. Mine(i)' = {Len(log) + 1}
  BY <1>1, <1>2, <1>3 DEF Mine, Event
<1>6. ASSUME NEW j, j # i PROVE Mine(j)' = Mine(j)
  BY <1>1, <1>2, <1>3, <1>6 DEF Mine, Event
<1> QED BY <1>1, <1>2, <1>3, <1>4, <1>5, <1>6 DEF Event

(* Client c answers call i: recorded with a word that fits the outcome, or *)
(* not recorded with an outcome that claims no event.                      *)
Answers(c, i, tool, outcome, content, seen) ==
  /\ Answer(c, i, tool, outcome, content, seen)
  /\ \/ log' = log /\ outcome \notin Audited
     \/ \E o \in Words : Recorded(i, o) /\ outcome \in Audited /\ Told(outcome) = o
     \/ log' = log /\ "audit" \notin wired

(* An answer keeps the log, the numbers and what earlier answers said. *)
LEMMA AnswerKeeps ==
  ASSUME GatewayInv, NEW c \in GwClients, NEW i \in Nat, Unused(i),
         NEW tool, NEW outcome, NEW content, NEW seen,
         Answers(c, i, tool, outcome, content, seen), wired' = wired,
         gwCalls' \in Nat, gwCalls' >= gwCalls, i \in 1 .. gwCalls',
         \A d \in GwClients : d # c /\ gw[d].pc # "idle" => gw[d].id # i,
         outcome = "written" => content = seen \cup {i}
  PROVE  /\ log' \in Seq(Entry) /\ gw' \in [GwClients -> GwCall] /\ GwCalling'
         /\ NumbersOwn' /\ ChainUnbroken' /\ AnswersLogged' /\ WrittenOnReading'
         /\ gw'[c].pc = "idle" /\ \A d \in GwClients \ {c} : gw'[d] = gw[d]
<1> DEFINE A == [call |-> i, tool |-> tool, outcome |-> outcome, content |-> content, seen |-> seen]
<1> USE DEF GatewayInv
<1>1. answers' = answers \cup {A} /\ gw' = [gw EXCEPT ![c] = NoCall]
  BY DEF Answers, Answer
<1>2. NoCall \in GwCall /\ NoCall.pc = "idle"
  BY DEF NoCall, GwCall, GwPcs
<1>3. /\ gw' \in [GwClients -> GwCall] /\ gw'[c].pc = "idle"
      /\ \A d \in GwClients \ {c} : gw'[d] = gw[d]
  BY <1>1, <1>2 DEF GwTypes
<1>4. GwCalling'
  BY <1>3 DEF GwCalling, GwTypes
<1>5. A.call = i /\ A.outcome = outcome /\ A.content = content /\ A.seen = seen
  OBVIOUS
<1> HIDE DEF A
<1>6. WrittenOnReading'
  BY <1>1, <1>5 DEF WrittenOnReading
<1>7. Mine(i) = {} /\ (\A a \in answers : a.call # i)
  BY DEF Unused
<1>a. CASE log' = log
  <2>1. \A j : Mine(j)' = Mine(j)
    BY <1>a DEF Mine
  <2>2. log' \in Seq(Entry) /\ ChainUnbroken'
    BY <1>a DEF GwTypes, ChainUnbroken
  <2>3. NumbersOwn'
    <3>1. ASSUME NEW d \in GwClients, gw'[d].pc # "idle" PROVE OwnNumber(d)'
      <4>1. d # c /\ gw'[d] = gw[d] /\ gw[d].id \in 1 .. gwCalls
        BY <1>3, <3>1 DEF NumbersOwn, OwnNumber
      <4>2. /\ gw'[d].id \in 1 .. gwCalls'
            /\ \A k \in 1 .. Len(log') : log'[k].call # gw'[d].id
        <5>1. gw'[d].id \in 1 .. gwCalls'
          BY <4>1 DEF GwTypes
        <5>2. \A k \in 1 .. Len(log) : log[k].call # gw[d].id
          BY <3>1, <4>1 DEF NumbersOwn, OwnNumber
        <5> QED BY <1>a, <4>1, <5>1, <5>2
      <4>3. \A a \in answers' : a.call # gw'[d].id
        BY <1>1, <1>5, <3>1, <4>1 DEF NumbersOwn, OwnNumber
      <4>4. \A e \in GwClients : e # d /\ gw'[e].pc # "idle" => gw'[e].id # gw'[d].id
        BY <1>3, <3>1, <4>1 DEF NumbersOwn, OwnNumber
      <4> QED BY <4>2, <4>3, <4>4 DEF OwnNumber
    <3>2. \A k \in 1 .. Len(log') : log'[k].call \in 1 .. gwCalls'
      BY <1>a DEF NumbersOwn, GwTypes
    <3>3. \A a \in answers' : a.call \in 1 .. gwCalls'
      BY <1>1, <1>5 DEF NumbersOwn, GwTypes
    <3>4. ASSUME NEW d \in GwClients, gw'[d].pc = "idle" PROVE OwnNumber(d)'
      BY <3>4 DEF OwnNumber
    <3> QED BY <3>1, <3>2, <3>3, <3>4 DEF NumbersOwn
  <2>4. AnswersLogged'
    <3>1. ASSUME "audit" \in wired, NEW a \in answers' PROVE AnswerLogged(a)'
      <4>1. CASE a \in answers
        BY <1>a, <2>1, <3>1, <4>1 DEF AnswersLogged, AnswerLogged
      <4>2. CASE a = A
        <5>1. outcome \notin Audited
          <6>1. ASSUME NEW o \in Words, Recorded(i, o) PROVE FALSE
            <7>1. log' = Append(log, Event(i, o))
              BY <3>1, <6>1 DEF Recorded
            <7>2. Len(log') = Len(log) + 1
              BY <1>7, <7>1, OneEvent
            <7> QED BY <1>a, <7>2 DEF GwTypes
          <6> QED BY <3>1, <6>1 DEF Answers
        <5> QED BY <1>5, <1>7, <2>1, <4>2, <5>1 DEF AnswerLogged
      <4> QED BY <1>1, <4>1, <4>2
    <3> QED BY <3>1 DEF AnswersLogged
  <2> QED BY <1>3, <1>4, <1>6, <2>2, <2>3, <2>4
<1>b. CASE log' # log
  <2>1. PICK o \in Words : Recorded(i, o) /\ outcome \in Audited /\ Told(outcome) = o
    BY <1>b DEF Answers
  <2>2. log' = Append(log, Event(i, o))
    BY <1>b, <2>1 DEF Recorded
  <2>3. /\ log' \in Seq(Entry) /\ ChainUnbroken' /\ Len(log') = Len(log) + 1
        /\ Mine(i)' = {Len(log) + 1} /\ log'[Len(log) + 1].outcome = o
        /\ log'[Len(log) + 1].call = i
        /\ \A k \in 1 .. Len(log) : log'[k] = log[k]
        /\ \A j : j # i => Mine(j)' = Mine(j)
    BY <1>7, <2>2, OneEvent
  <2>4. Len(log) \in Nat
    BY DEF GwTypes
  <2>5. NumbersOwn'
    <3>1. ASSUME NEW d \in GwClients, gw'[d].pc # "idle" PROVE OwnNumber(d)'
      <4>1. d # c /\ gw'[d] = gw[d] /\ gw[d].id \in 1 .. gwCalls /\ gw[d].id # i
        BY <1>3, <3>1 DEF NumbersOwn, OwnNumber
      <4>2. /\ gw'[d].id \in 1 .. gwCalls'
            /\ \A k \in 1 .. Len(log') : log'[k].call # gw'[d].id
        <5>1. gw'[d].id \in 1 .. gwCalls'
          BY <4>1 DEF GwTypes
        <5>2. \A k \in 1 .. Len(log) : log[k].call # gw[d].id
          BY <3>1, <4>1 DEF NumbersOwn, OwnNumber
        <5>3. \A k \in 1 .. Len(log') : k \in 1 .. Len(log) \/ k = Len(log) + 1
          BY <2>3, <2>4
        <5> QED BY <2>3, <4>1, <5>1, <5>2, <5>3
      <4>3. \A a \in answers' : a.call # gw'[d].id
        BY <1>1, <1>5, <3>1, <4>1 DEF NumbersOwn, OwnNumber
      <4>4. \A e \in GwClients : e # d /\ gw'[e].pc # "idle" => gw'[e].id # gw'[d].id
        BY <1>3, <3>1, <4>1 DEF NumbersOwn, OwnNumber
      <4> QED BY <4>2, <4>3, <4>4 DEF OwnNumber
    <3>2. ASSUME NEW k \in 1 .. Len(log') PROVE log'[k].call \in 1 .. gwCalls'
      <4>1. CASE k \in 1 .. Len(log)
        <5>1. log[k].call \in 1 .. gwCalls /\ gwCalls \in Nat
          BY <4>1 DEF NumbersOwn, GwTypes
        <5> QED BY <2>3, <4>1, <5>1
      <4>2. CASE k = Len(log) + 1
        BY <2>3, <4>2
      <4> QED BY <2>3, <2>4, <4>1, <4>2
    <3>3. \A a \in answers' : a.call \in 1 .. gwCalls'
      BY <1>1, <1>5 DEF NumbersOwn, GwTypes
    <3>4. ASSUME NEW d \in GwClients, gw'[d].pc = "idle" PROVE OwnNumber(d)'
      BY <3>4 DEF OwnNumber
    <3> QED BY <3>1, <3>2, <3>3, <3>4 DEF NumbersOwn
  <2>6. AnswersLogged'
    <3>1. ASSUME "audit" \in wired, NEW a \in answers' PROVE AnswerLogged(a)'
      <4>1. CASE a \in answers
        <5>1. a.call # i /\ Mine(a.call)' = Mine(a.call) /\ AnswerLogged(a)
          BY <1>7, <2>3, <3>1, <4>1 DEF AnswersLogged
        <5> QED BY <2>3, <2>4, <5>1 DEF AnswerLogged
      <4>2. CASE a = A
        <5>1. Len(log) + 1 \in 1 .. Len(log')
          BY <2>3, <2>4
        <5> QED BY <1>5, <2>1, <2>3, <4>2, <5>1 DEF AnswerLogged
      <4> QED BY <1>1, <4>1, <4>2
    <3> QED BY <3>1 DEF AnswersLogged
  <2> QED BY <1>3, <1>4, <1>6, <2>3, <2>5, <2>6
<1> QED BY <1>a, <1>b

(* A call that begins and does not answer yet. *)
LEMMA HoldKeeps ==
  ASSUME GatewayInv, NEW c \in GwClients, gw[c].pc = "idle", gwCalls' = gwCalls + 1,
         NEW r \in GwCall, Hold(c, r), r.id = gwCalls + 1, log' = log, wired' = wired,
         r.pc \in {"patch", "create"} => r.path \in Files,
         r.pc = "record" => r.outcome \in Waiting
  PROVE  /\ log' \in Seq(Entry) /\ gw' \in [GwClients -> GwCall] /\ GwCalling'
         /\ NumbersOwn' /\ ChainUnbroken' /\ AnswersLogged' /\ WrittenOnReading'
         /\ gw'[c] = r /\ \A d \in GwClients \ {c} : gw'[d] = gw[d]
<1> USE DEF GatewayInv
<1>1. /\ gw' \in [GwClients -> GwCall] /\ gw'[c] = r /\ answers' = answers
      /\ \A d \in GwClients \ {c} : gw'[d] = gw[d]
  BY DEF Hold, GwTypes
<1>2. GwCalling'
  BY <1>1 DEF GwCalling, GwTypes
<1>3. \A j : Mine(j)' = Mine(j)
  BY DEF Mine
<1>4. ChainUnbroken' /\ WrittenOnReading'
  BY <1>1 DEF ChainUnbroken, WrittenOnReading
<1>5. AnswersLogged'
  BY <1>1, <1>3 DEF AnswersLogged, AnswerLogged
<1>6. gwCalls \in Nat /\ \A n \in 1 .. gwCalls : n # gwCalls + 1 /\ n \in 1 .. gwCalls'
  BY DEF GwTypes
<1>7. /\ \A k \in 1 .. Len(log') : log'[k].call \in 1 .. gwCalls'
      /\ \A a \in answers' : a.call \in 1 .. gwCalls'
  BY <1>1, <1>6 DEF NumbersOwn
<1>8. OwnNumber(c)'
  <2>1. \A d \in GwClients : d # c /\ gw'[d].pc # "idle" => gw'[d].id # gwCalls + 1
    BY <1>1, <1>6 DEF NumbersOwn, OwnNumber
  <2>2. \A a \in answers' : a.call # gwCalls + 1
    BY <1>1, <1>6 DEF NumbersOwn
  <2>3. \A k \in 1 .. Len(log') : log'[k].call # gwCalls + 1
    BY <1>6 DEF NumbersOwn
  <2>4. gwCalls + 1 \in 1 .. gwCalls'
    BY <1>6
  <2> QED BY <1>1, <2>1, <2>2, <2>3, <2>4 DEF OwnNumber
<1>9. ASSUME NEW d \in GwClients \ {c} PROVE OwnNumber(d)'
  <2>1. CASE gw[d].pc # "idle"
    <3>1. gw[d].id \in 1 .. gwCalls
      BY <2>1 DEF NumbersOwn, OwnNumber
    <3>2. /\ \A k \in 1 .. Len(log') : log'[k].call # gw'[d].id
          /\ \A a \in answers' : a.call # gw'[d].id
      BY <1>1, <2>1 DEF NumbersOwn, OwnNumber
    <3>3. \A e \in GwClients : e # d /\ gw'[e].pc # "idle" => gw'[e].id # gw'[d].id
      BY <1>1, <1>6, <2>1, <3>1 DEF NumbersOwn, OwnNumber
    <3>4. gw'[d].id \in 1 .. gwCalls'
      BY <1>1, <1>6, <3>1
    <3> QED BY <3>2, <3>3, <3>4 DEF OwnNumber
  <2>2. CASE gw[d].pc = "idle"
    BY <1>1, <2>2 DEF OwnNumber
  <2> QED BY <2>1, <2>2
<1>10. NumbersOwn'
  BY <1>7, <1>8, <1>9 DEF NumbersOwn
<1>11. log' \in Seq(Entry)
  BY DEF GwTypes
<1> QED BY <1>1, <1>2, <1>4, <1>5, <1>10, <1>11

(* The number of a call that arrives, and of one under way, is unused. *)
LEMMA NumbersFresh ==
  ASSUME GatewayInv, NEW c \in GwClients
  PROVE  /\ gw[c].pc = "idle" =>
              /\ Unused(gwCalls + 1)
              /\ \A d \in GwClients : d # c /\ gw[d].pc # "idle" => gw[d].id # gwCalls + 1
         /\ gw[c].pc # "idle" =>
              /\ Unused(gw[c].id) /\ gw[c].id \in 1 .. gwCalls
              /\ \A d \in GwClients : d # c /\ gw[d].pc # "idle" => gw[d].id # gw[c].id
<1> USE DEF GatewayInv
<1>1. gwCalls \in Nat /\ \A n \in 1 .. gwCalls : n # gwCalls + 1
  BY DEF GwTypes
<1>2. Unused(gwCalls + 1)
  <2>1. Mine(gwCalls + 1) = {}
    BY <1>1 DEF Mine, NumbersOwn
  <2>2. \A a \in answers : a.call # gwCalls + 1
    BY <1>1 DEF NumbersOwn
  <2> QED BY <1>1, <2>1, <2>2 DEF Unused
<1>3. \A d \in GwClients : d # c /\ gw[d].pc # "idle" => gw[d].id # gwCalls + 1
  BY <1>1 DEF NumbersOwn, OwnNumber
<1>4. ASSUME gw[c].pc # "idle"
      PROVE  /\ Unused(gw[c].id) /\ gw[c].id \in 1 .. gwCalls
             /\ \A d \in GwClients : d # c /\ gw[d].pc # "idle" => gw[d].id # gw[c].id
  <2>1. OwnNumber(c)
    BY DEF NumbersOwn
  <2>2. Mine(gw[c].id) = {}
    BY <1>4, <2>1 DEF OwnNumber, Mine
  <2>3. gw[c].id \in Nat
    BY DEF GwTypes, GwCall
  <2> QED BY <1>4, <2>1, <2>2, <2>3 DEF OwnNumber, Unused
<1> QED BY <1>2, <1>3, <1>4

(* What a step of client c does around its answer: the scope's handles     *)
(* stay, no other client's readings change, and what is stored can be      *)
(* replayed.                                                               *)
Around(c) ==
  /\ wired' = wired
  /\ tree' \in [Files -> SUBSET Nat]
  /\ known' \in [GwClients -> [Files -> SUBSET Nat]]
  /\ \A d \in GwClients \ {c} : known'[d] = known[d]
  /\ StoredReplayable'

LEMMA AnswerStep ==
  ASSUME GatewayInv, NEW c \in GwClients, NEW i \in Nat, Unused(i),
         NEW tool, NEW outcome, NEW content, NEW seen,
         Answers(c, i, tool, outcome, content, seen), Around(c),
         gwCalls' \in Nat, gwCalls' >= gwCalls, i \in 1 .. gwCalls',
         \A d \in GwClients : d # c /\ gw[d].pc # "idle" => gw[d].id # i,
         outcome = "written" => content = seen \cup {i}
  PROVE  GatewayInv'
<1>1. wired' = wired
  BY DEF Around
<1>2. /\ log' \in Seq(Entry) /\ gw' \in [GwClients -> GwCall] /\ GwCalling'
      /\ NumbersOwn' /\ ChainUnbroken' /\ AnswersLogged' /\ WrittenOnReading'
      /\ gw'[c].pc = "idle" /\ \A d \in GwClients \ {c} : gw'[d] = gw[d]
  BY <1>1, AnswerKeeps
<1>3. GwTypes'
  BY <1>2 DEF GwTypes, Around
<1>4. PatchOnReading'
  BY <1>2 DEF GatewayInv, PatchOnReading, Around
<1> QED BY <1>2, <1>3, <1>4 DEF GatewayInv, Around

LEMMA HoldStep ==
  ASSUME GatewayInv, NEW c \in GwClients, gw[c].pc = "idle", gwCalls' = gwCalls + 1,
         NEW r \in GwCall, Hold(c, r), r.id = gwCalls + 1, log' = log, Around(c),
         r.pc \in {"patch", "create"} => r.path \in Files,
         r.pc = "record" => r.outcome \in Waiting,
         r.pc = "patch" => r.base = known'[c][r.path]
  PROVE  GatewayInv'
<1>1. wired' = wired /\ gwCalls' \in Nat
  BY DEF Around, GatewayInv, GwTypes
<1>2. /\ log' \in Seq(Entry) /\ gw' \in [GwClients -> GwCall] /\ GwCalling'
      /\ NumbersOwn' /\ ChainUnbroken' /\ AnswersLogged' /\ WrittenOnReading'
      /\ gw'[c] = r /\ \A d \in GwClients \ {c} : gw'[d] = gw[d]
  BY <1>1, HoldKeeps
<1>3. GwTypes'
  BY <1>1, <1>2 DEF GwTypes, Around
<1>4. PatchOnReading'
  BY <1>2 DEF GatewayInv, PatchOnReading, Around
<1> QED BY <1>2, <1>3, <1>4 DEF GatewayInv, Around

(* A call that arrives and is answered in the same step. *)
LEMMA ArrivalAnswers ==
  ASSUME GatewayInv, NEW c \in GwClients, gw[c].pc = "idle", gwCalls' = gwCalls + 1,
         NEW tool, NEW outcome, NEW content, NEW seen, outcome # "written",
         Answers(c, gwCalls + 1, tool, outcome, content, seen), Around(c)
  PROVE  GatewayInv'
<1>1. gwCalls \in Nat
  BY DEF GatewayInv, GwTypes
<1>2. gwCalls' \in Nat /\ gwCalls' >= gwCalls /\ gwCalls + 1 \in 1 .. gwCalls' /\ gwCalls + 1 \in Nat
  BY <1>1
<1>3. /\ Unused(gwCalls + 1)
      /\ \A d \in GwClients : d # c /\ gw[d].pc # "idle" => gw[d].id # gwCalls + 1
  BY NumbersFresh
<1> QED BY <1>2, <1>3, AnswerStep

(* A call under way is answered. *)
LEMMA WaitingAnswers ==
  ASSUME GatewayInv, NEW c \in GwClients, gw[c].pc # "idle", gwCalls' = gwCalls,
         NEW tool, NEW outcome, NEW content, NEW seen,
         Answers(c, gw[c].id, tool, outcome, content, seen), Around(c),
         outcome = "written" => content = seen \cup {gw[c].id}
  PROVE  GatewayInv'
<1>1. gwCalls \in Nat /\ gw[c].id \in Nat
  BY DEF GatewayInv, GwTypes, GwCall
<1>2. gwCalls' \in Nat /\ gwCalls' >= gwCalls
  BY <1>1
<1>3. /\ Unused(gw[c].id) /\ gw[c].id \in 1 .. gwCalls'
      /\ \A d \in GwClients : d # c /\ gw[d].pc # "idle" => gw[d].id # gw[c].id
  BY NumbersFresh
<1> QED BY <1>1, <1>2, <1>3, AnswerStep

(* A decision the validation lets through is one a replay can use. *)
LEMMA ValidReplayable ==
  ASSUME NEW i \in DecisionInputs, ValidateDecision(i) = "ok"
  PROVE  Replayable(i)
<1>1. /\ i.texts # "out-of-bounds" /\ i.texts # "secret" /\ i.task # "incomplete"
      /\ ~(i.kind = "selected" /\ i.reason # "none") /\ ~(i.kind = "no-op" /\ i.reason = "none")
      /\ ~(i.kind = "selected" /\ i.task = "none") /\ ~(i.kind = "no-op" /\ i.task # "none")
  BY DEF ValidateDecision, WithinBounds, SecretFree
<1>2. /\ i.texts \in {"ok", "out-of-bounds", "secret"} /\ i.kind \in {"selected", "no-op"}
      /\ i.task \in {"none", "incomplete", "task"}
  BY DEF DecisionInputs
<1> QED BY <1>1, <1>2 DEF Replayable

LEMMA GatewayInvStep ==
  ASSUME GatewayInv, [GatewayNext]_gatewayVars
  PROVE  GatewayInv'
<1> USE DEF GatewayInv
<1>1. /\ tree \in [Files -> SUBSET Nat] /\ known \in [GwClients -> [Files -> SUBSET Nat]]
      /\ gwCalls \in Nat /\ gw \in [GwClients -> GwCall]
  BY DEF GwTypes
<1>2. Absent \in SUBSET Nat /\ NoCall \in GwCall
  BY DEF Absent, NoCall, GwCall, GwPcs
<1> HIDE DEF GatewayInv
<1>3. StoredReplayable /\ PatchOnReading /\ GwCalling
  BY DEF GatewayInv, GwTypes
<1>4. ASSUME UNCHANGED stored PROVE StoredReplayable'
  BY <1>3, <1>4 DEF StoredReplayable
<1>5. ASSUME NEW c \in GwClients, UNCHANGED <<wired, tree, known, stored>> PROVE Around(c)
  BY <1>1, <1>4, <1>5 DEF Around
<1>6. ASSUME NEW c \in GwClients, NEW r \in GwCall, r.path \in Files, NEW v \in SUBSET Nat,
             wired' = wired, stored' = stored, tree' = [tree EXCEPT ![r.path] = v],
             known' = [known EXCEPT ![c][r.path] = v]
      PROVE  Around(c)
  BY <1>1, <1>4, <1>6 DEF Around
<1>8. gwCalls + 1 \in Nat
  BY <1>1
<1>a. ASSUME NEW c \in GwClients, Read(c) PROVE GatewayInv'
  <2>1. PICK p \in Files :
          /\ Arrives(c, "fs") /\ known' = [known EXCEPT ![c][p] = tree[p]]
          /\ Answer(c, gwCalls + 1, "fs.read", IF tree[p] = Absent THEN "io_error" ELSE "read", {}, {})
          /\ UNCHANGED <<wired, tree, log, stored>>
    BY <1>a DEF Read
  <2>2. Around(c)
    BY <1>1, <1>4, <2>1 DEF Around
  <2>3. PICK o \in {"io_error", "read"} : Answer(c, gwCalls + 1, "fs.read", o, {}, {})
    BY <2>1
  <2>4. Answers(c, gwCalls + 1, "fs.read", o, {}, {})
    BY <2>1, <2>3 DEF Answers, Audited, PrErrors
  <2> QED BY <2>1, <2>2, <2>3, <2>4, ArrivalAnswers DEF Arrives
<1>b. ASSUME NEW c \in GwClients, PatchReads(c) PROVE GatewayInv'
  <2>1. PICK p \in Files :
          /\ Arrives(c, "fs") /\ UNCHANGED <<wired, tree, known, log, stored>>
          /\ \/ /\ DigestMatches(p, known[c][p])
                /\ Hold(c, [NoCall EXCEPT !.pc = "patch", !.id = gwCalls + 1, !.path = p,
                                          !.base = tree[p]])
             \/ \E o \in {"patch_rejected", "io_error", "digest_mismatch"} :
                  Answer(c, gwCalls + 1, "fs.apply_patch", o, {}, {})
    BY <1>b DEF PatchReads
  <2>2. Around(c)
    BY <1>5, <2>1
  <2>3. CASE /\ DigestMatches(p, known[c][p])
             /\ Hold(c, [NoCall EXCEPT !.pc = "patch", !.id = gwCalls + 1, !.path = p,
                                       !.base = tree[p]])
    <3> DEFINE r == [NoCall EXCEPT !.pc = "patch", !.id = gwCalls + 1, !.path = p,
                                   !.base = tree[p]]
    <3>0. \A n \in Nat : [NoCall EXCEPT !.pc = "patch", !.id = n, !.path = p,
                                        !.base = tree[p]] \in GwCall
      BY <1>1, <1>2 DEF GwCall, GwPcs
    <3>1. /\ r \in GwCall /\ r.pc = "patch" /\ r.path = p /\ r.id = gwCalls + 1
          /\ r.base = tree[p]
      <4>1. r \in GwCall
        BY <1>8, <3>0
      <4> QED BY <1>1, <1>2, <4>1 DEF GwCall
    <3>2. r.base = known'[c][p]
      BY <2>1, <2>3, <3>1 DEF DigestMatches
    <3>3. Hold(c, r)
      BY <2>3
    <3> HIDE DEF r
    <3> QED BY <2>1, <2>2, <3>1, <3>2, <3>3, HoldStep DEF Arrives
  <2>4. CASE \E o \in {"patch_rejected", "io_error", "digest_mismatch"} :
               Answer(c, gwCalls + 1, "fs.apply_patch", o, {}, {})
    <3>1. PICK o \in {"patch_rejected", "io_error", "digest_mismatch"} :
            Answer(c, gwCalls + 1, "fs.apply_patch", o, {}, {})
      BY <2>4
    <3>2. Answers(c, gwCalls + 1, "fs.apply_patch", o, {}, {}) /\ o # "written"
      BY <2>1, <3>1 DEF Answers, Audited, PrErrors
    <3> QED BY <2>1, <2>2, <3>2, ArrivalAnswers DEF Arrives
  <2> QED BY <2>1, <2>3, <2>4
<1>c. ASSUME NEW c \in GwClients, PatchWrites(c) PROVE GatewayInv'
  <2> DEFINE r == gw[c]  patched == r.base \cup {r.id}
  <2>1. /\ r.pc = "patch" /\ tree' = [tree EXCEPT ![r.path] = patched]
        /\ known' = [known EXCEPT ![c][r.path] = patched]
        /\ Answer(c, r.id, "fs.apply_patch", "written", patched, known[c][r.path])
        /\ UNCHANGED <<wired, log, stored, gwCalls>>
    BY <1>c DEF PatchWrites
  <2>2. r \in GwCall /\ r.path \in Files /\ patched \in SUBSET Nat
    BY <1>1, <1>3, <2>1 DEF GwCall, GwCalling
  <2>3. patched = known[c][r.path] \cup {gw[c].id}
    BY <1>3, <2>1 DEF PatchOnReading
  <2>4. Answers(c, gw[c].id, "fs.apply_patch", "written", patched, known[c][r.path])
    BY <2>1 DEF Answers, Audited, PrErrors
  <2> HIDE DEF r, patched
  <2>5. Around(c)
    BY <1>6, <2>1, <2>2
  <2>6. gw[c].pc # "idle"
    BY <2>1 DEF r
  <2> QED BY <2>1, <2>3, <2>4, <2>5, <2>6, WaitingAnswers
<1>d. ASSUME NEW c \in GwClients, CreateChecks(c) PROVE GatewayInv'
  <2>1. PICK p \in Files :
          /\ Arrives(c, "fs") /\ UNCHANGED <<wired, tree, known, log, stored>>
          /\ \/ Answer(c, gwCalls + 1, "fs.create", "already_exists", {}, {})
             \/ Hold(c, [NoCall EXCEPT !.pc = "create", !.id = gwCalls + 1, !.path = p])
    BY <1>d DEF CreateChecks
  <2>2. Around(c)
    BY <1>5, <2>1
  <2>3. CASE Answer(c, gwCalls + 1, "fs.create", "already_exists", {}, {})
    <3>1. Answers(c, gwCalls + 1, "fs.create", "already_exists", {}, {})
      BY <2>1, <2>3 DEF Answers, Audited, PrErrors
    <3> QED BY <2>1, <2>2, <3>1, ArrivalAnswers DEF Arrives
  <2>4. CASE Hold(c, [NoCall EXCEPT !.pc = "create", !.id = gwCalls + 1, !.path = p])
    <3> DEFINE r == [NoCall EXCEPT !.pc = "create", !.id = gwCalls + 1, !.path = p]
    <3>0. \A n \in Nat : [NoCall EXCEPT !.pc = "create", !.id = n, !.path = p] \in GwCall
      BY <1>1, <1>2 DEF GwCall, GwPcs
    <3>1. r \in GwCall /\ r.pc = "create" /\ r.path = p /\ r.id = gwCalls + 1
      <4>1. r \in GwCall
        BY <1>8, <3>0
      <4> QED BY <1>1, <1>2, <4>1 DEF GwCall
    <3>2. Hold(c, r)
      BY <2>4
    <3> HIDE DEF r
    <3> QED BY <2>1, <2>2, <3>1, <3>2, HoldStep DEF Arrives
  <2> QED BY <2>1, <2>3, <2>4
<1>e. ASSUME NEW c \in GwClients, CreateWrites(c) PROVE GatewayInv'
  <2> DEFINE r == gw[c]
  <2>1. /\ r.pc = "create" /\ tree' = [tree EXCEPT ![r.path] = {r.id}]
        /\ known' = [known EXCEPT ![c][r.path] = {r.id}]
        /\ Answer(c, r.id, "fs.create", "created", {r.id}, {})
        /\ UNCHANGED <<wired, log, stored, gwCalls>>
    BY <1>e DEF CreateWrites
  <2>2. r \in GwCall /\ r.path \in Files /\ {r.id} \in SUBSET Nat
    BY <1>1, <1>3, <2>1 DEF GwCall, GwCalling
  <2>3. Answers(c, gw[c].id, "fs.create", "created", {r.id}, {})
    BY <2>1 DEF Answers, Audited, PrErrors
  <2>4. gw[c].pc # "idle"
    BY <2>1
  <2> HIDE DEF r
  <2>5. Around(c)
    BY <1>6, <2>1, <2>2
  <2> QED BY <2>1, <2>3, <2>4, <2>5, WaitingAnswers
<1>f. ASSUME NEW c \in GwClients, Rename(c) PROVE GatewayInv'
  <2>1. PICK p \in Files, q \in Files :
          /\ Arrives(c, "fs") /\ UNCHANGED <<wired, known, log, stored>>
          /\ tree' = IF tree[p] = Absent THEN tree
                     ELSE [tree EXCEPT ![q] = tree[p], ![p] = Absent]
          /\ Answer(c, gwCalls + 1, "fs.rename",
                    IF tree[p] = Absent THEN "io_error" ELSE "renamed", {}, {})
    BY <1>f DEF Rename
  <2>2. tree' \in [Files -> SUBSET Nat]
    BY <1>1, <1>2, <2>1
  <2>3. Around(c)
    BY <1>1, <1>4, <2>1, <2>2 DEF Around
  <2>4. PICK o \in {"io_error", "renamed"} : Answer(c, gwCalls + 1, "fs.rename", o, {}, {})
    BY <2>1
  <2>5. Answers(c, gwCalls + 1, "fs.rename", o, {}, {}) /\ o # "written"
    BY <2>1, <2>4 DEF Answers, Audited, PrErrors
  <2> QED BY <2>1, <2>3, <2>5, ArrivalAnswers DEF Arrives
<1>g. ASSUME NEW c \in GwClients, RemoveFile(c) PROVE GatewayInv'
  <2>1. PICK p \in Files :
          /\ Arrives(c, "fs") /\ UNCHANGED <<wired, known, log, stored>>
          /\ tree' = [tree EXCEPT ![p] = Absent]
          /\ Answer(c, gwCalls + 1, "fs.remove",
                    IF tree[p] = Absent THEN "io_error" ELSE "removed", {}, {})
    BY <1>g DEF RemoveFile
  <2>2. tree' \in [Files -> SUBSET Nat]
    BY <1>1, <1>2, <2>1
  <2>3. Around(c)
    BY <1>1, <1>4, <2>1, <2>2 DEF Around
  <2>4. PICK o \in {"io_error", "removed"} : Answer(c, gwCalls + 1, "fs.remove", o, {}, {})
    BY <2>1
  <2>5. Answers(c, gwCalls + 1, "fs.remove", o, {}, {}) /\ o # "written"
    BY <2>1, <2>4 DEF Answers, Audited, PrErrors
  <2> QED BY <2>1, <2>3, <2>5, ArrivalAnswers DEF Arrives
<1>h. ASSUME NEW c \in GwClients, Workflow(c) PROVE GatewayInv'
  <2>1. /\ Arrives(c, "workflow") /\ UNCHANGED <<wired, tree, known, log, stored>>
        /\ Answer(c, gwCalls + 1, "workflow", "arbitraitor_inspection_required", {}, {})
    BY <1>h DEF Workflow
  <2>2. Around(c)
    BY <1>5, <2>1
  <2>3. Answers(c, gwCalls + 1, "workflow", "arbitraitor_inspection_required", {}, {})
    BY <2>1 DEF Answers, Audited, PrErrors
  <2> QED BY <2>1, <2>2, <2>3, ArrivalAnswers DEF Arrives
(* A read whose outcome is to be recorded, on its way. *)
<1>7. ASSUME NEW c \in GwClients, NEW t \in ToolNames, NEW o \in Waiting, NEW u, Arrives(c, u),
             UNCHANGED <<wired, tree, known, log, stored>>,
             Hold(c, [NoCall EXCEPT !.pc = "record", !.tool = t, !.id = gwCalls + 1, !.outcome = o])
      PROVE  GatewayInv'
  <2> DEFINE r == [NoCall EXCEPT !.pc = "record", !.tool = t, !.id = gwCalls + 1, !.outcome = o]
  <2>0. \A n \in Nat :
          [NoCall EXCEPT !.pc = "record", !.tool = t, !.id = n, !.outcome = o] \in GwCall
    BY <1>1, <1>2 DEF GwCall, GwPcs
  <2>1. r \in GwCall /\ r.pc = "record" /\ r.id = gwCalls + 1 /\ r.outcome = o
    <3>1. r \in GwCall
      BY <1>8, <2>0
    <3> QED BY <1>1, <1>2, <3>1 DEF GwCall
  <2>2. Hold(c, r)
    BY <1>7
  <2>3. Around(c)
    BY <1>5, <1>7
  <2> HIDE DEF r
  <2> QED BY <1>7, <2>1, <2>2, <2>3, HoldStep DEF Arrives
<1>i. ASSUME NEW c \in GwClients, QueryRuns(c) PROVE GatewayInv'
  <2>1. Arrives(c, "board.query") /\ UNCHANGED <<wired, tree, known, log, stored>>
    BY <1>i DEF QueryRuns
  <2>2. CASE Hold(c, [NoCall EXCEPT !.pc = "record", !.tool = "board.query", !.id = gwCalls + 1,
                                    !.outcome = "result"])
    BY <1>7, <2>1, <2>2 DEF ToolNames, Waiting
  <2>3. CASE Answer(c, gwCalls + 1, "board.query", "board_query_failed", {}, {})
    <3>1. Answers(c, gwCalls + 1, "board.query", "board_query_failed", {}, {})
      BY <2>1, <2>3 DEF Answers, Audited, PrErrors
    <3>2. Around(c)
      BY <1>5, <2>1
    <3> QED BY <2>1, <3>1, <3>2, ArrivalAnswers DEF Arrives
  <2> QED BY <1>i, <2>2, <2>3 DEF QueryRuns
<1>j. ASSUME NEW c \in GwClients, PrOutOfScope(c) PROVE GatewayInv'
  <2>1. Arrives(c, "pr.status") /\ UNCHANGED <<wired, tree, known, stored>>
    BY <1>j DEF PrOutOfScope
  <2>2. Around(c)
    BY <1>5, <2>1
  <2>3. CASE UNCHANGED log /\ Answer(c, gwCalls + 1, "pr.status", "out_of_scope", {}, {})
    <3>1. Answers(c, gwCalls + 1, "pr.status", "out_of_scope", {}, {})
      BY <2>3 DEF Answers, Audited, PrErrors
    <3> QED BY <2>1, <2>2, <3>1, ArrivalAnswers DEF Arrives
  <2>4. CASE /\ Recorded(gwCalls + 1, "out_of_scope")
             /\ Answer(c, gwCalls + 1, "pr.status", "out_of_scope_audited", {}, {})
    <3>1. /\ "out_of_scope" \in Words /\ "out_of_scope_audited" \in Audited
          /\ Told("out_of_scope_audited") = "out_of_scope"
      BY DEF Words, Audited, Told
    <3>2. Answers(c, gwCalls + 1, "pr.status", "out_of_scope_audited", {}, {})
      BY <2>4, <3>1 DEF Answers
    <3> QED BY <2>1, <2>2, <3>2, ArrivalAnswers DEF Arrives
  <2> QED BY <1>j, <2>3, <2>4 DEF PrOutOfScope, Recorded
<1>k. ASSUME NEW c \in GwClients, PrAggregates(c) PROVE GatewayInv'
  <2>1. /\ Arrives(c, "pr.status") /\ UNCHANGED <<wired, tree, known, log, stored>>
        /\ \E o \in Waiting :
             Hold(c, [NoCall EXCEPT !.pc = "record", !.tool = "pr.status", !.id = gwCalls + 1,
                                    !.outcome = o])
    BY <1>k DEF PrAggregates, Waiting
  <2> QED BY <1>7, <2>1 DEF ToolNames
<1>l. ASSUME NEW c \in GwClients, RecordsAndAnswers(c) PROVE GatewayInv'
  <2>1. gw[c].pc = "record" /\ UNCHANGED <<wired, tree, known, stored, gwCalls>>
    BY <1>l DEF RecordsAndAnswers
  <2>2. Around(c) /\ gw[c].pc # "idle"
    BY <1>5, <2>1
  <2>3. gw[c].outcome \in Waiting
    BY <1>3, <2>1 DEF GwCalling
  <2>4. CASE /\ Recorded(gw[c].id, gw[c].outcome)
             /\ Answer(c, gw[c].id, gw[c].tool, gw[c].outcome, {}, {})
    <3>1. /\ gw[c].outcome \in Words /\ gw[c].outcome \in Audited /\ gw[c].outcome # "written"
          /\ Told(gw[c].outcome) = gw[c].outcome
      BY <2>3 DEF Waiting, Words, Audited, Told, PrErrors
    <3>2. Answers(c, gw[c].id, gw[c].tool, gw[c].outcome, {}, {})
      BY <2>4, <3>1 DEF Answers
    <3> QED BY <2>1, <2>2, <3>1, <3>2, WaitingAnswers
  <2>5. CASE UNCHANGED log /\ Answer(c, gw[c].id, gw[c].tool, Unrecorded(gw[c]), {}, {})
    <3>1. Unrecorded(gw[c]) \notin Audited /\ Unrecorded(gw[c]) # "written"
      BY DEF Unrecorded, Audited, PrErrors
    <3>2. Answers(c, gw[c].id, gw[c].tool, Unrecorded(gw[c]), {}, {})
      BY <2>5, <3>1 DEF Answers
    <3> QED BY <2>1, <2>2, <3>1, <3>2, WaitingAnswers
  <2> QED BY <1>l, <2>4, <2>5 DEF RecordsAndAnswers
<1>m. ASSUME NEW c \in GwClients, DecisionRecord(c) PROVE GatewayInv'
  <2>1. PICK i \in DecisionInputs :
          /\ Arrives(c, "decision.record") /\ UNCHANGED <<wired, tree, known>>
          /\ \/ stored' = stored
             \/ /\ ValidateDecision(i) = "ok"
                /\ stored' = Append(stored, [call |-> gwCalls + 1, input |-> i])
          /\ \/ /\ UNCHANGED log
                /\ Answer(c, gwCalls + 1, "decision.record", "decision_record_failed", {}, {})
             \/ /\ Recorded(gwCalls + 1, "decided")
                /\ Answer(c, gwCalls + 1, "decision.record", "decided", {}, {})
    BY <1>m DEF DecisionRecord, DecisionEvent
  <2>2. StoredReplayable'
    <3>1. CASE stored' = stored
      BY <1>4, <3>1
    <3>2. CASE /\ ValidateDecision(i) = "ok"
               /\ stored' = Append(stored, [call |-> gwCalls + 1, input |-> i])
      <4>1. Replayable(i)
        BY <3>2, ValidReplayable
      <4> DEFINE R == [call |-> gwCalls + 1, input |-> i]
      <4>2. R \in [call : Nat, input : DecisionInputs] /\ R.input = i
        BY <1>1
      <4>3. stored \in Seq([call : Nat, input : DecisionInputs]) /\ stored' = Append(stored, R)
        BY <1>3, <3>2 DEF StoredReplayable
      <4> HIDE DEF R
      <4>4. /\ stored' \in Seq([call : Nat, input : DecisionInputs])
            /\ Len(stored') = Len(stored) + 1 /\ Len(stored) \in Nat
            /\ stored'[Len(stored) + 1] = R
            /\ \A k \in 1 .. Len(stored) : stored'[k] = stored[k]
        BY <4>2, <4>3
      <4>5. \A k \in 1 .. Len(stored') : Replayable(stored'[k].input)
        <5>1. \A k \in 1 .. Len(stored') : k \in 1 .. Len(stored) \/ k = Len(stored) + 1
          BY <4>4
        <5> QED BY <1>3, <4>1, <4>2, <4>4, <5>1 DEF StoredReplayable
      <4> QED BY <4>4, <4>5 DEF StoredReplayable, Replayable
    <3> QED BY <2>1, <3>1, <3>2
  <2>3. Around(c)
    BY <1>1, <2>1, <2>2 DEF Around
  <2>4. CASE /\ UNCHANGED log
             /\ Answer(c, gwCalls + 1, "decision.record", "decision_record_failed", {}, {})
    <3>1. Answers(c, gwCalls + 1, "decision.record", "decision_record_failed", {}, {})
      BY <2>4 DEF Answers, Audited, PrErrors
    <3> QED BY <2>1, <2>3, <3>1, ArrivalAnswers DEF Arrives
  <2>5. CASE /\ Recorded(gwCalls + 1, "decided")
             /\ Answer(c, gwCalls + 1, "decision.record", "decided", {}, {})
    <3>1. "decided" \in Words /\ "decided" \in Audited /\ Told("decided") = "decided"
      BY DEF Words, Audited, Told
    <3>2. Answers(c, gwCalls + 1, "decision.record", "decided", {}, {})
      BY <2>5, <3>1 DEF Answers
    <3> QED BY <2>1, <2>3, <3>2, ArrivalAnswers DEF Arrives
  <2> QED BY <2>1, <2>4, <2>5
<1>n. CASE UNCHANGED gatewayVars
  <2> USE <1>n DEF gatewayVars, GatewayInv
  <2>1. GwTypes'
    BY DEF GwTypes, GwCalling
  <2>2. NumbersOwn'
    BY DEF NumbersOwn, OwnNumber
  <2>3. PatchOnReading' /\ ChainUnbroken' /\ WrittenOnReading' /\ StoredReplayable'
    BY DEF PatchOnReading, ChainUnbroken, WrittenOnReading, StoredReplayable
  <2>4. AnswersLogged'
    BY DEF AnswersLogged, AnswerLogged, Mine
  <2> QED BY <2>1, <2>2, <2>3, <2>4
<1> QED BY <1>a, <1>b, <1>c, <1>d, <1>e, <1>f, <1>g, <1>h, <1>i, <1>j, <1>k, <1>l, <1>m, <1>n
           DEF GatewayNext

(* What a client of the gateway may conclude from an answer, for every     *)
(* number of clients, files, calls and faults and whatever the scope was   *)
(* wired with: an audited answer has exactly one event of its own in an    *)
(* unbroken chain and any other answer none, a written patch was made on   *)
(* its author's last reading, and every stored decision can be replayed.   *)
THEOREM AnswersAreHonest == GatewaySpec => []AnswersHonest
<1>1. GatewayInit => GatewayInv
  <2> SUFFICES ASSUME GatewayInit PROVE GatewayInv
    OBVIOUS
  <2>1. NoCall \in GwCall /\ NoCall.pc = "idle" /\ Absent \in SUBSET Nat
    BY DEF NoCall, GwCall, GwPcs, Absent
  <2>2. log = <<>> /\ stored = <<>> /\ answers = {} /\ gwCalls = 0
    BY DEF GatewayInit
  <2>3. gw \in [GwClients -> GwCall] /\ \A c \in GwClients : gw[c].pc = "idle"
    BY <2>1 DEF GatewayInit
  <2>4. tree \in [Files -> SUBSET Nat] /\ known \in [GwClients -> [Files -> SUBSET Nat]]
    BY <2>1 DEF GatewayInit
  <2>5. GwTypes
    BY <2>2, <2>3, <2>4 DEF GwTypes, GwCalling
  <2>6. NumbersOwn /\ PatchOnReading /\ ChainUnbroken /\ AnswersLogged /\ WrittenOnReading
    BY <2>2, <2>3 DEF NumbersOwn, OwnNumber, PatchOnReading, ChainUnbroken, AnswersLogged,
                      WrittenOnReading
  <2>7. StoredReplayable
    BY <2>2 DEF StoredReplayable
  <2> QED BY <2>5, <2>6, <2>7 DEF GatewayInv
<1>2. GatewayInv /\ [GatewayNext]_gatewayVars => GatewayInv'
  BY GatewayInvStep
<1>3. GatewayInv => AnswersHonest
  BY DEF GatewayInv, AnswersHonest, ChainUnbroken, AnswersLogged, AnswerLogged, WrittenOnReading,
         StoredReplayable, Replayable
<1> QED
  BY <1>1, <1>2, <1>3, PTL DEF GatewaySpec

-----------------------------------------------------------------------------
(***************************************************************************)
(* The simplify pass.                                                      *)
(***************************************************************************)

PassSteps == {"start", "fmt", "fmtApply", "rumdl", "rumdlApply", "clippy", "clippyFix",
              "clippyVerify", "machete", "report", "done"}

PassTypes ==
  /\ step \in PassSteps /\ args \in Simplify!SimplifyArgs
  /\ child \in [leader : BOOLEAN, helper : BOOLEAN, stray : BOOLEAN]
  /\ simplifyTree \subseteq Universe /\ simplifyFound \subseteq Universe
  /\ result \in [state : {"none", "ok", "fail", "unavailable"},
                 out : SUBSET Universe, tree : SUBSET Universe]

(* A process is there only while an invocation is under way, and after its *)
(* deadline nothing of its group.                                          *)
GroupEnds ==
  /\ step \in {"start", "report", "done"} => child = Simplify!NoChild /\ result = Simplify!NoResult
  /\ result.state = "unavailable" => ~child.helper

(* What an invocation printed is about its own rules, and all there was if *)
(* it succeeded, which for a formatter is nothing.                         *)
ResultTrue ==
  /\ \A f \in result.out : Simplify!Own(step, f)
  /\ result.state = "ok" =>
       /\ \A f \in result.tree : Simplify!Own(step, f) => f \in result.out
       /\ step \in {"fmtApply", "rumdlApply"} => result.out = {}

(* A step that writes is one the command line and the configuration ask for. *)
WritesAsked ==
  /\ step \in {"fmtApply", "rumdlApply"} => Simplify!ApplyFormat
  /\ step = "clippyFix" => Simplify!ApplySafe
  /\ (args.staged \/ args.fix = "none") => rewrote = {}
  /\ (args.fix = "format" \/ ~args.autoSafe) => "clippyFix" \notin rewrote

(* A finding is found by the check of its rule, once. *)
FoundBefore(s) == \A f \in simplifyFound : ~Simplify!Own(s, f)
FoundOnce ==
  /\ step \in {"start", "fmt"} => FoundBefore("fmt")
  /\ step \in {"start", "fmt", "fmtApply", "rumdl"} => FoundBefore("rumdl")
  /\ step \in {"start", "fmt", "fmtApply", "rumdl", "rumdlApply", "clippy"} => FoundBefore("clippy")
  /\ step \notin {"report", "done"} => FoundBefore("machete")

(* Findings that are the same to the code are seen to be gone together. *)
GoneTogether ==
  /\ applied \subseteq gone /\ gone \subseteq simplifyFound
  /\ \A f \in gone, g \in simplifyFound : Simplify!Same(f, g) => g \in gone

LetThrough ==
  /\ exit = "ok" => step = "done"
  /\ (exit = "ok" /\ args.pedanticCheck) =>
       \A f \in simplifyFound : (f.class # "Format" /\ Simplify!InScope(f)) => f \in gone

PassInv == PassTypes /\ GroupEnds /\ ResultTrue /\ WritesAsked /\ FoundOnce /\ GoneTogether /\ LetThrough

(* Whose a finding is depends on its rule alone. *)
LEMMA OwnByRule ==
  ASSUME NEW s, NEW f, NEW g, f.rule = g.rule, Simplify!Own(s, f)
  PROVE  Simplify!Own(s, g)
BY DEF Simplify!Own

(* The verification of clippy is about clippy's rules, and the safe fixes are its own. *)
LEMMA SafeFixIsClippys ==
  ASSUME NEW f \in Universe, f.class = "SafeFix"
  PROVE  Simplify!Own("clippyVerify", f)
<1>1. f.rule \notin {"rustfmt", "rumdl", "unused-dependency"}
  BY ToolsAssumption DEF ToolsAssumption
<1> QED
  BY <1>1 DEF Simplify!Own

(* A nonempty set of natural numbers has a least member. *)
LEMMA LeastOf ==
  ASSUME NEW S, S \subseteq Nat, S # {}
  PROVE  \E m \in S : \A n \in S : m <= n
<1>1. IsWellFoundedOn(OpToRel(<, Nat), Nat)
  BY NatLessThanWellFounded
<1>2. PICK m \in S : \A n \in S : ~(<<n, m>> \in OpToRel(<, Nat))
  BY <1>1, WFMin
<1>3. \A n \in S : ~(n < m)
  BY <1>2 DEF OpToRel
<1> QED
  BY <1>3

(* What a step of the pass marks was seen to be gone. *)
LEMMA MarkedGone ==
  ASSUME PassInv
  PROVE  Simplify!Marked \subseteq
           {f \in simplifyFound : /\ result.state = "ok" /\ Simplify!Own(step, f)
                                  /\ \A g \in result.tree : ~Simplify!Same(f, g)}
<1> USE DEF PassInv
<1>1. SUFFICES ASSUME NEW f \in Simplify!Marked
               PROVE  /\ f \in simplifyFound /\ result.state = "ok" /\ Simplify!Own(step, f)
                      /\ \A g \in result.tree : ~Simplify!Same(f, g)
  OBVIOUS
<1>2. CASE step \in {"fmtApply", "rumdlApply"} /\ result.state = "ok"
  <2>1. f \in simplifyFound /\ Simplify!Own(step, f)
    BY <1>2 DEF Simplify!Marked
  <2>2. ASSUME NEW g \in result.tree, Simplify!Same(f, g)
        PROVE  FALSE
    <3>1. Simplify!Own(step, g)
      BY <2>1, <2>2, OwnByRule DEF Simplify!Same
    <3> QED
      BY <1>2, <3>1, <2>2 DEF ResultTrue
  <2> QED
    BY <1>2, <2>1, <2>2
<1>3. CASE step = "clippyVerify" /\ result.state = "ok"
  <2>1. f \in simplifyFound /\ f.class = "SafeFix" /\ \A g \in result.out : ~Simplify!Same(f, g)
    BY <1>3 DEF Simplify!Marked
  <2>2. Simplify!Own(step, f)
    BY <1>3, <2>1, SafeFixIsClippys DEF PassTypes
  <2>3. ASSUME NEW g \in result.tree, Simplify!Same(f, g)
        PROVE  FALSE
    <3>1. Simplify!Own(step, g)
      BY <2>2, <2>3, OwnByRule DEF Simplify!Same
    <3> QED
      BY <1>3, <2>1, <2>3, <3>1 DEF ResultTrue
  <2> QED
    BY <1>3, <2>1, <2>2, <2>3
<1>4. CASE ~((step \in {"fmtApply", "rumdlApply"} \/ step = "clippyVerify") /\ result.state = "ok")
  BY <1>1, <1>4 DEF Simplify!Marked
<1> QED
  BY <1>2, <1>3, <1>4

(* The end of an invocation: what was found, marked and seen to be gone. *)
LEMMA ConcludeStep ==
  ASSUME PassInv, Simplify!Conclude
  PROVE  PassInv'
<1>0. PassTypes /\ GroupEnds /\ ResultTrue /\ WritesAsked /\ FoundOnce /\ GoneTogether /\ LetThrough
  BY DEF PassInv
<1>1. /\ child = Simplify!NoChild /\ child' = child /\ result' = Simplify!NoResult
      /\ args' = args /\ simplifyTree' = simplifyTree /\ available' = available
      /\ exit' = exit /\ rewrote' = rewrote /\ step' = Simplify!AfterStep
      /\ result # Simplify!NoResult
  BY DEF Simplify!Conclude
<1>2. step \notin {"start", "report", "done"} /\ step \in PassSteps
  BY <1>0, <1>1 DEF GroupEnds, PassTypes
<1>3. /\ step = "fmt" => step' \in {"fmtApply", "rumdl"}
      /\ step = "fmtApply" => step' = "rumdl"
      /\ step = "rumdl" => step' \in {"rumdlApply", "clippy"}
      /\ step = "rumdlApply" => step' = "clippy"
      /\ step = "clippy" => step' \in {"clippyFix", "machete"}
      /\ step = "clippyFix" => step' \in {"clippyVerify", "machete"}
      /\ step = "clippyVerify" => step' = "machete"
      /\ step = "machete" => step' = "report"
      /\ step' \in {"fmtApply", "rumdlApply"} => Simplify!ApplyFormat
      /\ step' = "clippyFix" => Simplify!ApplySafe
  BY <1>1, <1>2 DEF Simplify!AfterStep, PassSteps
<1>4. step' \in PassSteps
  BY <1>2, <1>3 DEF PassSteps
<1>5. /\ simplifyFound' = IF step \in Simplify!Probed THEN simplifyFound \cup result.out ELSE simplifyFound
      /\ applied' = applied \cup Simplify!Marked
      /\ gone' = IF result.state = "ok"
                 THEN gone \cup {f \in simplifyFound : /\ Simplify!Own(step, f)
                                                       /\ \A g \in result.tree : ~Simplify!Same(f, g)}
                 ELSE gone
  BY DEF Simplify!Conclude
<1>6. PassTypes'
  BY <1>0, <1>1, <1>4, <1>5 DEF PassTypes, Simplify!NoResult
<1>7. GroupEnds' /\ ResultTrue'
  BY <1>1 DEF GroupEnds, ResultTrue, Simplify!NoResult, Simplify!NoChild
<1>8. WritesAsked'
  BY <1>0, <1>1, <1>3 DEF WritesAsked, Simplify!ApplyFormat, Simplify!ApplySafe, Simplify!Fix
<1>9. FoundOnce'
  <2>1. \A f \in result.out : Simplify!Own(step, f)
    BY <1>0 DEF ResultTrue
  <2>2. CASE step = "fmt"
    <3>1. \A f \in result.out : f.rule = "rustfmt"
      BY <2>1, <2>2 DEF Simplify!Own
    <3> QED
      BY <1>0, <1>3, <1>5, <2>2, <3>1 DEF FoundOnce, FoundBefore, Simplify!Own
  <2>3. CASE step = "rumdl"
    <3>1. \A f \in result.out : f.rule = "rumdl"
      BY <2>1, <2>3 DEF Simplify!Own
    <3> QED
      BY <1>0, <1>3, <1>5, <2>3, <3>1 DEF FoundOnce, FoundBefore, Simplify!Own
  <2>4. CASE step = "clippy"
    <3>1. \A f \in result.out : f.rule \notin {"rustfmt", "rumdl", "unused-dependency"}
      BY <2>1, <2>4 DEF Simplify!Own
    <3> QED
      BY <1>0, <1>3, <1>5, <2>4, <3>1 DEF FoundOnce, FoundBefore, Simplify!Own
  <2>5. CASE step = "machete"
    BY <1>3, <2>5 DEF FoundOnce
  <2>6. CASE step \notin Simplify!Probed
    BY <1>0, <1>2, <1>3, <1>5, <2>6 DEF FoundOnce, FoundBefore, PassSteps, Simplify!Probed
  <2> QED
    BY <2>2, <2>3, <2>4, <2>5, <2>6 DEF Simplify!Probed
<1>10. applied' \subseteq gone' /\ gone' \subseteq simplifyFound'
  <2>1. Simplify!Marked \subseteq
          {f \in simplifyFound : /\ result.state = "ok" /\ Simplify!Own(step, f)
                                 /\ \A g \in result.tree : ~Simplify!Same(f, g)}
    BY MarkedGone
  <2> QED
    BY <1>0, <1>5, <2>1 DEF GoneTogether
<1>11. ASSUME NEW f \in gone', NEW g \in simplifyFound', Simplify!Same(f, g)
       PROVE  g \in gone'
  <2>1. f.rule = g.rule /\ f.class = g.class /\ f.path = g.path
    BY <1>11 DEF Simplify!Same
  <2>2. CASE step \in Simplify!Probed
    <3>1. FoundBefore(step)
      BY <1>0, <2>2 DEF FoundOnce, Simplify!Probed
    <3>2. f \in gone /\ f \in simplifyFound
      BY <1>0, <1>5, <1>11, <3>1 DEF GoneTogether, FoundBefore
    <3>3. g \notin result.out
      BY <1>0, <2>1, <3>1, <3>2, OwnByRule DEF ResultTrue, FoundBefore
    <3> QED
      BY <1>0, <1>5, <1>11, <3>2, <3>3 DEF GoneTogether
  <2>3. CASE step \notin Simplify!Probed
    <3>1. g \in simplifyFound
      BY <1>5, <1>11, <2>3
    <3>2. CASE f \in gone
      BY <1>0, <1>5, <1>11, <3>1, <3>2 DEF GoneTogether
    <3>3. CASE f \notin gone
      <4>1. /\ result.state = "ok" /\ Simplify!Own(step, f)
            /\ \A h \in result.tree : ~Simplify!Same(f, h)
        BY <1>5, <1>11, <3>3
      <4>2. Simplify!Own(step, g)
        BY <2>1, <4>1, OwnByRule
      <4>3. \A h \in result.tree : ~Simplify!Same(g, h)
        BY <2>1, <4>1 DEF Simplify!Same
      <4> QED
        BY <1>5, <3>1, <4>1, <4>2, <4>3
    <3> QED
      BY <3>2, <3>3
  <2> QED
    BY <2>2, <2>3
<1>12. GoneTogether'
  BY <1>10, <1>11 DEF GoneTogether, Simplify!Same
<1>13. LetThrough'
  BY <1>0, <1>1, <1>2 DEF LetThrough
<1> QED
  BY <1>6, <1>7, <1>8, <1>9, <1>12, <1>13 DEF PassInv

(* The report: a finding in scope that is not reported has the key of one  *)
(* that is, and is gone with it.                                           *)
LEMMA ReportStep ==
  ASSUME PassInv, Simplify!Report
  PROVE  PassInv'
<1>0. PassTypes /\ GroupEnds /\ ResultTrue /\ WritesAsked /\ FoundOnce /\ GoneTogether /\ LetThrough
  BY DEF PassInv
<1>1. /\ step = "report" /\ step' = "done"
      /\ args' = args /\ simplifyTree' = simplifyTree /\ available' = available /\ child' = child
      /\ result' = result /\ simplifyFound' = simplifyFound /\ applied' = applied /\ gone' = gone
      /\ rewrote' = rewrote
  BY DEF Simplify!Report
<1>2. PassTypes' /\ GroupEnds' /\ GoneTogether'
  BY <1>0, <1>1 DEF PassTypes, GroupEnds, GoneTogether, PassSteps, Simplify!Same
<1>3. ResultTrue' /\ FoundOnce'
  BY <1>0, <1>1 DEF ResultTrue, FoundOnce, GroupEnds, Simplify!NoResult
<1>4. WritesAsked'
  BY <1>0, <1>1 DEF WritesAsked
<1>5. ASSUME exit' = "ok", args.pedanticCheck, NEW f \in simplifyFound,
             f.class # "Format", Simplify!InScope(f)
      PROVE  f \in gone
  <2>1. Simplify!Unaddressed("SafeFix") = {} /\ Simplify!Unaddressed("Semantic") = {}
    BY <1>5 DEF Simplify!Report
  <2> DEFINE twins == {g \in simplifyFound : Simplify!Key(g) = Simplify!Key(f)}
             whats == {g.what : g \in twins}
  <2>2. whats \subseteq Nat /\ whats # {}
    BY <1>0, ToolsAssumption DEF ToolsAssumption, PassTypes
  <2>3. PICK m \in whats : \A n \in whats : m <= n
    BY <2>2, LeastOf
  <2>4. PICK g \in twins : g.what = m
    OBVIOUS
  <2>5. g \in simplifyFound /\ g.class = f.class /\ g.path = f.path /\ g.rule = f.rule
    BY <2>4 DEF Simplify!Key
  <2>6. Simplify!InScope(g)
    BY <1>5, <2>5 DEF Simplify!InScope
  <2>7. ASSUME NEW h \in simplifyFound, Simplify!Key(h) = Simplify!Key(g)
        PROVE  h.what >= g.what
    <3>1. h.what \in whats /\ h.what \in Nat /\ g.what \in Nat
      BY <2>2, <2>4, <2>7
    <3> QED
      BY <2>3, <2>4, <3>1
  <2>8. g \in Simplify!Reported
    BY <2>5, <2>6, <2>7 DEF Simplify!Reported
  <2>9. g.class \in {"SafeFix", "Semantic"}
    BY <1>0, <1>5, <2>5, ToolsAssumption DEF ToolsAssumption, PassTypes
  <2>10. g \in applied
    BY <2>1, <2>8, <2>9 DEF Simplify!Unaddressed
  <2> QED
    BY <1>0, <2>5, <2>10 DEF GoneTogether, Simplify!Same
<1>6. LetThrough'
  BY <1>1, <1>5 DEF LetThrough, Simplify!InScope, Simplify!StagedScope
<1> QED
  BY <1>2, <1>3, <1>4, <1>6 DEF PassInv

(* Every step of the pass. *)
LEMMA PassStep ==
  ASSUME PassInv, [Simplify!SimplifyNext]_Simplify!simplifyVars
  PROVE  PassInv'
<1>0. PassTypes /\ GroupEnds /\ ResultTrue /\ WritesAsked /\ FoundOnce /\ GoneTogether /\ LetThrough
  BY DEF PassInv
<1>1. ASSUME args' = args, step' = step, simplifyFound' = simplifyFound, applied' = applied,
             exit' = exit, gone' = gone
      PROVE  FoundOnce' /\ GoneTogether' /\ LetThrough'
  <2>1. FoundOnce'
    BY <1>0, <1>1 DEF FoundOnce, FoundBefore
  <2>2. GoneTogether'
    BY <1>0, <1>1 DEF GoneTogether, Simplify!Same
  <2>3. LetThrough'
    BY <1>0, <1>1 DEF LetThrough, Simplify!InScope, Simplify!StagedScope
  <2> QED
    BY <2>1, <2>2, <2>3
<1>2. ASSUME args' = args, step' = step, rewrote' = rewrote
      PROVE  WritesAsked'
  BY <1>0, <1>2 DEF WritesAsked, Simplify!ApplyFormat, Simplify!ApplySafe, Simplify!Fix
<1>3. CASE Simplify!Start
  <2>1. /\ step = "start" /\ step' \in {"fmt", "done"} /\ exit' # "ok"
        /\ args' = args /\ simplifyTree' = simplifyTree /\ child' = child /\ result' = result
        /\ simplifyFound' = simplifyFound /\ applied' = applied /\ gone' = gone /\ rewrote' = rewrote
    BY <1>0, <1>3 DEF Simplify!Start, LetThrough
  <2>2. PassTypes' /\ GroupEnds' /\ ResultTrue'
    BY <1>0, <2>1 DEF PassTypes, GroupEnds, ResultTrue, PassSteps, Simplify!NoResult
  <2>3. WritesAsked'
    BY <1>0, <2>1 DEF WritesAsked
  <2>4. FoundOnce'
    BY <1>0, <2>1 DEF FoundOnce, FoundBefore
  <2>5. GoneTogether' /\ LetThrough'
    BY <1>0, <2>1 DEF GoneTogether, LetThrough, Simplify!Same
  <2> QED
    BY <2>2, <2>3, <2>4, <2>5 DEF PassInv
<1>4. CASE Simplify!NotRun
  <2>1. /\ step' = step /\ child' = Simplify!NoChild /\ result' = Simplify!Unavailable
        /\ step \notin {"start", "report", "done"}
        /\ args' = args /\ simplifyTree' = simplifyTree /\ exit' = exit
        /\ simplifyFound' = simplifyFound /\ applied' = applied /\ gone' = gone /\ rewrote' = rewrote
    BY <1>4 DEF Simplify!NotRun, Simplify!Idle
  <2>2. PassTypes' /\ GroupEnds' /\ ResultTrue'
    BY <1>0, <2>1 DEF PassTypes, GroupEnds, ResultTrue, Simplify!Unavailable, Simplify!NoChild
  <2> QED
    BY <1>1, <1>2, <2>1, <2>2 DEF PassInv
<1>5. CASE Simplify!Spawn
  <2>1. PICK h, s \in BOOLEAN : child' = [leader |-> TRUE, helper |-> h, stray |-> s]
    BY <1>5 DEF Simplify!Spawn
  <2>2. /\ step' = step /\ result' = Simplify!NoResult /\ step \notin {"start", "report", "done"}
        /\ args' = args /\ simplifyTree' = simplifyTree /\ exit' = exit
        /\ simplifyFound' = simplifyFound /\ applied' = applied /\ gone' = gone /\ rewrote' = rewrote
    BY <1>5 DEF Simplify!Spawn, Simplify!Idle
  <2>3. PassTypes' /\ GroupEnds' /\ ResultTrue'
    BY <1>0, <2>1, <2>2 DEF PassTypes, GroupEnds, ResultTrue, Simplify!NoResult
  <2> QED
    BY <1>1, <1>2, <2>2, <2>3 DEF PassInv
<1>6. CASE Simplify!Rewrite
  <2>1. /\ step \in Simplify!Writing /\ rewrote' = rewrote \cup {step}
        /\ step' = step /\ result' = result /\ child' = child /\ args' = args /\ exit' = exit
        /\ simplifyFound' = simplifyFound /\ applied' = applied /\ gone' = gone
    BY <1>6 DEF Simplify!Rewrite
  <2>2. simplifyTree' \subseteq Universe
    BY <1>0, <1>6 DEF Simplify!Rewrite, PassTypes
  <2>3. PassTypes' /\ GroupEnds' /\ ResultTrue'
    BY <1>0, <2>1, <2>2 DEF PassTypes, GroupEnds, ResultTrue
  <2>4. WritesAsked'
    BY <1>0, <2>1 DEF WritesAsked, Simplify!ApplyFormat, Simplify!ApplySafe, Simplify!Fix, Simplify!Writing
  <2> QED
    BY <1>1, <2>1, <2>3, <2>4 DEF PassInv
<1>7. CASE Simplify!Ends
  <2> DEFINE own == {f \in simplifyTree : Simplify!Own(step, f)}
  <2>1. /\ child.leader /\ child' = [child EXCEPT !.leader = FALSE]
        /\ step' = step /\ args' = args /\ exit' = exit /\ simplifyTree' = simplifyTree
        /\ simplifyFound' = simplifyFound /\ applied' = applied /\ gone' = gone /\ rewrote' = rewrote
    BY <1>7 DEF Simplify!Ends
  <2>2. \/ /\ step \in {"fmtApply", "rumdlApply"} => own = {}
           /\ result' = [state |-> "ok", out |-> own, tree |-> simplifyTree]
        \/ \E out \in SUBSET own : result' = [state |-> "fail", out |-> out, tree |-> simplifyTree]
    BY <1>7 DEF Simplify!Ends
  <2>3. step \notin {"start", "report", "done"}
    BY <1>0, <2>1 DEF GroupEnds, Simplify!NoChild
  <2>4. /\ child' \in [leader : BOOLEAN, helper : BOOLEAN, stray : BOOLEAN]
        /\ result' \in [state : {"none", "ok", "fail", "unavailable"},
                        out : SUBSET Universe, tree : SUBSET Universe]
        /\ result'.state \in {"ok", "fail"}
    <3>1. child' \in [leader : BOOLEAN, helper : BOOLEAN, stray : BOOLEAN]
      BY <1>0, <2>1 DEF PassTypes
    <3>2. own \in SUBSET Universe /\ simplifyTree \in SUBSET Universe
      BY <1>0 DEF PassTypes
    <3>3. PICK out \in SUBSET Universe, s \in {"ok", "fail"} :
            result' = [state |-> s, out |-> out, tree |-> simplifyTree]
      BY <2>2, <3>2
    <3> QED
      BY <3>1, <3>2, <3>3
  <2>5. PassTypes' /\ GroupEnds'
    BY <1>0, <2>1, <2>3, <2>4 DEF PassTypes, GroupEnds
  <2>6. ResultTrue'
    BY <2>1, <2>2 DEF ResultTrue
  <2> QED
    BY <1>1, <1>2, <2>1, <2>5, <2>6 DEF PassInv
<1>8. CASE Simplify!TimesOut
  <2>1. /\ child.leader /\ child' = [child EXCEPT !.leader = FALSE, !.helper = FALSE]
        /\ result' = Simplify!Unavailable
        /\ step' = step /\ args' = args /\ exit' = exit /\ simplifyTree' = simplifyTree
        /\ simplifyFound' = simplifyFound /\ applied' = applied /\ gone' = gone /\ rewrote' = rewrote
    BY <1>8 DEF Simplify!TimesOut, Simplify!TerminateTree
  <2>2. step \notin {"start", "report", "done"}
    BY <1>0, <2>1 DEF GroupEnds, Simplify!NoChild
  <2>3. PassTypes' /\ GroupEnds' /\ ResultTrue'
    BY <1>0, <2>1, <2>2 DEF PassTypes, GroupEnds, ResultTrue, Simplify!Unavailable
  <2> QED
    BY <1>1, <1>2, <2>1, <2>3 DEF PassInv
<1>9. CASE Simplify!DescendantEnds
  <2>1. /\ \/ child.helper /\ child' = [child EXCEPT !.helper = FALSE]
           \/ child.stray /\ child' = [child EXCEPT !.stray = FALSE]
        /\ result' = result
        /\ step' = step /\ args' = args /\ exit' = exit /\ simplifyTree' = simplifyTree
        /\ simplifyFound' = simplifyFound /\ applied' = applied /\ gone' = gone /\ rewrote' = rewrote
    BY <1>9 DEF Simplify!DescendantEnds
  <2>2. step \notin {"start", "report", "done"}
    BY <1>0, <2>1 DEF GroupEnds, Simplify!NoChild
  <2>3. PassTypes' /\ GroupEnds' /\ ResultTrue'
    BY <1>0, <2>1, <2>2 DEF PassTypes, GroupEnds, ResultTrue
  <2> QED
    BY <1>1, <1>2, <2>1, <2>3 DEF PassInv
<1>10. CASE Simplify!DeveloperEdits
  <2>1. /\ child' = child /\ result' = result
        /\ step' = step /\ args' = args /\ exit' = exit
        /\ simplifyFound' = simplifyFound /\ applied' = applied /\ gone' = gone /\ rewrote' = rewrote
    BY <1>10 DEF Simplify!DeveloperEdits
  <2>2. simplifyTree' \subseteq Universe
    BY <1>0, <1>10 DEF Simplify!DeveloperEdits, PassTypes
  <2>3. PassTypes' /\ GroupEnds' /\ ResultTrue'
    BY <1>0, <2>1, <2>2 DEF PassTypes, GroupEnds, ResultTrue
  <2> QED
    BY <1>1, <1>2, <2>1, <2>3 DEF PassInv
<1>11. CASE UNCHANGED Simplify!simplifyVars
  <2>1. /\ child' = child /\ result' = result /\ simplifyTree' = simplifyTree
        /\ step' = step /\ args' = args /\ exit' = exit
        /\ simplifyFound' = simplifyFound /\ applied' = applied /\ gone' = gone /\ rewrote' = rewrote
    BY <1>11 DEF Simplify!simplifyVars
  <2>2. PassTypes' /\ GroupEnds' /\ ResultTrue'
    BY <1>0, <2>1 DEF PassTypes, GroupEnds, ResultTrue
  <2> QED
    BY <1>1, <1>2, <2>1, <2>2 DEF PassInv
<1> QED
  BY <1>3, <1>4, <1>5, <1>6, <1>7, <1>8, <1>9, <1>10, <1>11, ConcludeStep, ReportStep
     DEF Simplify!SimplifyNext

LEMMA PassInitially ==
  ASSUME Simplify!SimplifyInit
  PROVE  PassInv
<1> USE DEF Simplify!SimplifyInit
<1>1. PassTypes /\ GroupEnds /\ ResultTrue
  BY DEF PassTypes, GroupEnds, ResultTrue, PassSteps, Simplify!NoResult, Simplify!NoChild
<1>2. WritesAsked /\ FoundOnce /\ GoneTogether /\ LetThrough
  BY DEF WritesAsked, FoundOnce, FoundBefore, GoneTogether, LetThrough
<1> QED
  BY <1>1, <1>2 DEF PassInv

LEMMA PassIsHonest ==
  ASSUME PassInv
  PROVE  Simplify!PassHonest
<1>0. PassTypes /\ GroupEnds /\ WritesAsked /\ GoneTogether /\ LetThrough
  BY DEF PassInv
<1>1. (result.state = "unavailable" \/ step \in {"report", "done"}) => ~child.helper
  BY <1>0 DEF GroupEnds, Simplify!NoChild
<1> QED
  BY <1>0, <1>1 DEF Simplify!PassHonest, WritesAsked, GoneTogether, LetThrough

-----------------------------------------------------------------------------
(***************************************************************************)
(* The client of the platform's board.                                     *)
(***************************************************************************)

ProjectIds == [gen : Nat, options : SUBSET Statuses]
Refusals == {"noOption", "truncated", "ambiguous", "notOnBoard", "notFound"}
ClientPcs == {"idle", "resolve", "store", "start", "page", "find", "write", "read-back", "done"}
ClientOutcomes == Refusals \cup {"none", "failed", "moved", "unverified", "listed"}
Goals == Statuses \cup {"none"}
RepoSets == SUBSET Repos
Shapes == {"open", "draft", "foreign", "fields", "labels", "broken", "closed"}
Marks == SUBSET (Nat \X Shapes)
Counts == Nat \ {0}
Caller ==
  [pc : ClientPcs, op : {"none", "facts", "move"}, ids : ProjectIds, to : Goals,
   left : RepoSets, matches : RepoSets, seen : BOOLEAN, at : Counts, facts : Marks,
   warned : Marks, wrote : RepoSets, confirmed : BOOLEAN, outcome : ClientOutcomes]
Issue == [exists : BOOLEAN, member : BOOLEAN, whole : BOOLEAN, status : Goals]

(* A call that wrote, or is about to, looked everywhere and found one item; *)
(* nothing is written before that, and nothing is offered as a fact that    *)
(* was not read whole.  Of the pages it has been through, a listing has     *)
(* warned of those that were cut.                                           *)
Warned(ps, at, warned) ==
  \A n \in 1 .. Len(ps) : n < at /\ ps[n] \in Client!Cut => <<n, ps[n]>> \in warned

CallerOk(r) ==
  /\ Warned(pages, r.at, r.warned) /\ (r.outcome = "listed" => r.at > Len(pages))
  /\ r.pc # "done" => r.outcome = "none"
  /\ r.pc \notin {"read-back", "done"} => r.wrote = {}
  /\ r.pc \in {"write", "read-back"} \/ r.wrote # {} => Client!Cardinality(r.matches) = 1 /\ r.left = {}
  /\ r.pc = "read-back" => r.wrote # {}
  /\ r.outcome = "moved" => r.confirmed
  /\ r.outcome \in Refusals => r.wrote = {}
  /\ \A f \in r.facts : Client!FactOf(f[2]) = "fact"

ClientTypes ==
  /\ gen \in Nat /\ options \subseteq Statuses /\ idFile \in ProjectIds
  /\ issue \in [Repos -> Issue]
  /\ pages \in Seq(Shapes) /\ caller \in [Callers -> Caller]

ClientInv == ClientTypes /\ \A c \in Callers : CallerOk(caller[c])

(* Counting is the same in all components. *)
LEMMA ClientCounts == \A S : Client!Cardinality(S) = Cardinality(S)
BY DEF Client!Cardinality, Cardinality

(* A step of one call that leaves a sound record behind. *)
LEMMA CallerMoves ==
  ASSUME ClientInv, NEW c \in Callers, NEW r \in Caller, CallerOk(r), Client!Becomes(c, r), pages' = pages
  PROVE  caller' \in [Callers -> Caller] /\ \A d \in Callers : CallerOk(caller[d])'
<1>1. caller \in [Callers -> Caller] /\ \A d \in Callers : CallerOk(caller[d])
  BY DEF ClientInv, ClientTypes
<1>2. caller' = [caller EXCEPT ![c] = r]
  BY DEF Client!Becomes
<1>3. \A d \in Callers : caller'[d] \in Caller /\ CallerOk(caller'[d])
  BY <1>1, <1>2
<1>4. \A d \in Callers : CallerOk(caller'[d]) => CallerOk(caller[d])'
  BY DEF CallerOk
<1> QED
  BY <1>1, <1>2, <1>3, <1>4

LEMMA IdleCaller == Client!Idle \in Caller /\ CallerOk(Client!Idle)
<1>1. /\ Client!NoIds \in ProjectIds /\ "idle" \in ClientPcs /\ "none" \in Goals /\ {} \in RepoSets
      /\ 1 \in Counts /\ {} \in Marks /\ "none" \in ClientOutcomes
  BY DEF ProjectIds, Client!NoIds, ClientPcs, Goals, RepoSets, Counts, Marks, ClientOutcomes
<1>2. Client!Idle \in Caller
  BY <1>1 DEF Client!Idle, Caller
<1>3. Warned(pages, 1, {})
  BY DEF Warned
<1> QED
  BY <1>2, <1>3 DEF Client!Idle, CallerOk, Refusals

LEMMA ClientStep ==
  ASSUME ClientInv, [Client!ClientNext]_Client!clientVars
  PROVE  ClientInv'
<1>0. ClientTypes /\ \A c \in Callers : caller[c] \in Caller /\ CallerOk(caller[c])
  BY DEF ClientInv, ClientTypes
<1>1. ASSUME NEW c \in Callers, NEW r \in Caller, CallerOk(r), Client!Becomes(c, r),
             gen' = gen, options' = options, pages' = pages, idFile' \in ProjectIds,
             issue' \in [Repos -> Issue]
      PROVE  ClientInv'
  BY <1>0, <1>1, CallerMoves DEF ClientInv, ClientTypes
<1>2. ASSUME NEW c \in Callers, NEW o \in Refusals \cup {"failed", "listed"}, Client!Ends(c, o),
             caller[c].pc \in {"resolve", "start", "page", "find", "write", "read-back"},
             o \in Refusals => caller[c].pc # "read-back",
             o = "listed" => caller[c].at > Len(pages),
             gen' = gen, options' = options, pages' = pages, idFile' = idFile, issue' = issue
      PROVE  ClientInv'
  <2>1. PICK r : r = [caller[c] EXCEPT !.pc = "done", !.outcome = o]
    OBVIOUS
  <2>2. r \in Caller
    <3>1. o \in ClientOutcomes /\ "done" \in ClientPcs
      BY DEF ClientOutcomes, ClientPcs
    <3> QED
      BY <1>0, <2>1, <3>1 DEF Caller
  <2>3. CallerOk(r)
    BY <1>0, <1>2, <2>1 DEF Caller, CallerOk, Refusals
  <2> QED
    BY <1>0, <1>1, <1>2, <2>1, <2>2, <2>3 DEF Client!Ends, ClientTypes
<1>3. ASSUME NEW c \in Callers, Client!ExecuteFails(c)
      PROVE  ClientInv'
  BY <1>2, <1>3 DEF Client!ExecuteFails, Client!World, Refusals
<1>4. ASSUME NEW c \in Callers, Client!Begin(c)
      PROVE  ClientInv'
  <2>1. PICK to \in Statuses \cup {"none"} :
          Client!Becomes(c, [Client!Idle EXCEPT !.op = IF to = "none" THEN "facts" ELSE "move",
                               !.to = to, !.left = Repos, !.ids = idFile,
                               !.pc = IF Client!Hit THEN "start" ELSE "resolve"])
    BY <1>4 DEF Client!Begin
  <2>2. PICK r : r = [Client!Idle EXCEPT !.op = IF to = "none" THEN "facts" ELSE "move",
                               !.to = to, !.left = Repos, !.ids = idFile,
                               !.pc = IF Client!Hit THEN "start" ELSE "resolve"]
    OBVIOUS
  <2>3. r \in Caller
    <3>1. /\ (IF to = "none" THEN "facts" ELSE "move") \in {"none", "facts", "move"} /\ to \in Goals
          /\ Repos \in RepoSets /\ idFile \in ProjectIds
          /\ (IF Client!Hit THEN "start" ELSE "resolve") \in ClientPcs
      BY <1>0 DEF Goals, RepoSets, ClientTypes, ClientPcs
    <3> QED
      BY <2>2, <3>1, IdleCaller DEF Caller
  <2>4. CallerOk(r)
    <3>1. Warned(pages, 1, {})
      BY DEF Warned
    <3> QED
      BY <2>2, <3>1 DEF CallerOk, Client!Idle, Refusals
  <2> QED
    BY <1>0, <1>1, <1>4, <2>1, <2>2, <2>3, <2>4 DEF Client!Begin, Client!World, ClientTypes
<1>5. ASSUME NEW c \in Callers, Client!ResolveProject(c)
      PROVE  ClientInv'
  <2>1. PICK r : r = [caller[c] EXCEPT !.ids = [gen |-> gen, options |-> options], !.pc = "store"]
    OBVIOUS
  <2>2. caller[c].pc = "resolve" /\ Client!Becomes(c, r) /\ idFile' = Client!NoIds
    BY <1>5, <2>1 DEF Client!ResolveProject
  <2>3. r \in Caller /\ idFile' \in ProjectIds
    <3>1. /\ [gen |-> gen, options |-> options] \in ProjectIds /\ Client!NoIds \in ProjectIds
          /\ "store" \in ClientPcs
      BY <1>0 DEF ClientTypes, ProjectIds, Client!NoIds, ClientPcs
    <3> QED
      BY <1>0, <2>1, <2>2, <3>1 DEF Caller
  <2>4. CallerOk(r)
    BY <1>0, <2>1, <2>2 DEF CallerOk, Caller
  <2> QED
    BY <1>0, <1>1, <1>5, <2>2, <2>3, <2>4 DEF Client!ResolveProject, Client!World, ClientTypes
<1>6. ASSUME NEW c \in Callers, Client!StoreIds(c)
      PROVE  ClientInv'
  <2>1. PICK r : r = [caller[c] EXCEPT !.pc = "start"]
    OBVIOUS
  <2>2. caller[c].pc = "store" /\ Client!Becomes(c, r) /\ idFile' = caller[c].ids
    BY <1>6, <2>1 DEF Client!StoreIds
  <2>3. r \in Caller /\ idFile' \in ProjectIds
    BY <1>0, <2>1, <2>2 DEF Caller, ClientPcs
  <2>4. CallerOk(r)
    BY <1>0, <2>1, <2>2 DEF CallerOk, Caller
  <2> QED
    BY <1>0, <1>1, <1>6, <2>2, <2>3, <2>4 DEF Client!StoreIds, Client!World, ClientTypes
<1>7. ASSUME NEW c \in Callers, Client!Start(c)
      PROVE  ClientInv'
  <2>1. ASSUME NEW p \in {"page", "find"}, Client!Becomes(c, [caller[c] EXCEPT !.pc = p])
        PROVE  ClientInv'
    <3>1. PICK r : r = [caller[c] EXCEPT !.pc = p]
      OBVIOUS
    <3>2. caller[c].pc = "start"
      BY <1>7 DEF Client!Start
    <3>3. r \in Caller
      BY <1>0, <3>1 DEF Caller, ClientPcs
    <3>4. CallerOk(r)
      BY <1>0, <3>1, <3>2 DEF CallerOk, Caller
    <3> QED
      BY <1>0, <1>1, <1>7, <2>1, <3>1, <3>3, <3>4 DEF Client!Start, Client!World, ClientTypes
  <2>2. CASE Client!Ends(c, "noOption")
    BY <1>2, <1>7, <2>2 DEF Client!Start, Client!World, Refusals
  <2> QED
    BY <1>7, <2>1, <2>2 DEF Client!Start
<1>8. ASSUME NEW c \in Callers, NEW q \in Repos, Client!FindIn(c, q)
      PROVE  ClientInv'
  <2>1. CASE Client!Ends(c, "truncated")
    BY <1>2, <1>8, <2>1 DEF Client!FindIn, Client!World, Refusals
  <2>2. CASE ~(issue[q].exists /\ ~issue[q].whole)
    <3>1. PICK r : r = [caller[c] EXCEPT !.left = @ \ {q}, !.seen = @ \/ issue[q].exists,
                          !.matches = IF issue[q].member THEN @ \union {q} ELSE @]
      OBVIOUS
    <3>2. caller[c].pc = "find" /\ Client!Becomes(c, r)
      BY <1>8, <2>2, <3>1 DEF Client!FindIn
    <3>3. r \in Caller
      <4>1. PICK L, M, e : /\ L = caller[c].left \ {q} /\ e = (caller[c].seen \/ issue[q].exists)
                           /\ M = IF issue[q].member THEN caller[c].matches \union {q}
                                  ELSE caller[c].matches
        OBVIOUS
      <4>2. L \in RepoSets /\ M \in RepoSets /\ e \in BOOLEAN
        BY <1>0, <4>1 DEF Caller, RepoSets
      <4>3. r = [caller[c] EXCEPT !.left = L, !.seen = e, !.matches = M]
        BY <3>1, <4>1
      <4> QED
        BY <1>0, <4>2, <4>3 DEF Caller
    <3>4. CallerOk(r)
      BY <1>0, <3>1, <3>2 DEF CallerOk, Caller
    <3> QED
      BY <1>0, <1>1, <1>8, <3>2, <3>3, <3>4 DEF Client!FindIn, Client!World, ClientTypes
  <2> QED
    BY <1>8, <2>1, <2>2 DEF Client!FindIn
<1>9. ASSUME NEW c \in Callers, Client!Found(c)
      PROVE  ClientInv'
  <2>1. CASE Client!Unique(c)
    <3>1. PICK r : r = [caller[c] EXCEPT !.pc = "write"]
      OBVIOUS
    <3>2. /\ caller[c].pc = "find" /\ Client!Becomes(c, r) /\ caller[c].left = {}
          /\ Client!Cardinality(caller[c].matches) = 1
      BY <1>9, <2>1, <3>1 DEF Client!Found, Client!Unique
    <3>3. r \in Caller
      BY <1>0, <3>1 DEF Caller, ClientPcs
    <3>4. CallerOk(r)
      BY <1>0, <3>1, <3>2 DEF CallerOk, Caller
    <3> QED
      BY <1>0, <1>1, <1>9, <3>2, <3>3, <3>4 DEF Client!Found, Client!World, ClientTypes
  <2>2. CASE ~Client!Unique(c)
    <3>1. PICK o \in {"ambiguous", "notOnBoard", "notFound"} : Client!Ends(c, o)
      BY <1>9, <2>2 DEF Client!Found
    <3> QED
      BY <1>2, <1>9, <3>1 DEF Client!Found, Client!World, Refusals
  <2> QED
    BY <2>1, <2>2
<1>10. ASSUME NEW c \in Callers, Client!Write(c)
       PROVE  ClientInv'
  <2>1. /\ caller[c].pc = "write" /\ gen' = gen /\ options' = options /\ pages' = pages
        /\ idFile' = idFile
    BY <1>10 DEF Client!Write
  <2>2. PICK q : q = CHOOSE m \in caller[c].matches : TRUE
    OBVIOUS
  <2>3. Client!Cardinality(caller[c].matches) = 1 /\ caller[c].left = {}
    BY <1>0, <2>1 DEF CallerOk
  <2>4. caller[c].matches # {}
    BY <2>3, ClientCounts, FS_EmptySet
  <2>5. q \in Repos
    BY <1>0, <2>2, <2>4 DEF Caller, RepoSets
  <2>6. CASE Client!Ends(c, "failed") /\ issue' = issue
    BY <1>2, <2>1, <2>6
  <2>7. ASSUME NEW r, \/ r = [caller[c] EXCEPT !.pc = "read-back", !.wrote = {q}]
                      \/ r = [caller[c] EXCEPT !.pc = "done", !.outcome = "failed", !.wrote = {q}],
               Client!Becomes(c, r), issue' = [issue EXCEPT ![q].status = caller[c].to]
        PROVE  ClientInv'
    <3>0. {q} \in RepoSets /\ {"read-back", "done"} \subseteq ClientPcs /\ "failed" \in ClientOutcomes
      BY <2>5 DEF RepoSets, ClientPcs, ClientOutcomes
    <3>1. r \in Caller
      BY <1>0, <2>7, <3>0 DEF Caller
    <3>2. CallerOk(r)
      <4>1. /\ r.wrote = {q} /\ r.matches = caller[c].matches /\ r.left = caller[c].left
            /\ r.facts = caller[c].facts /\ r.pc \in {"read-back", "done"}
            /\ r.at = caller[c].at /\ r.warned = caller[c].warned
            /\ (r.pc = "read-back" /\ r.outcome = caller[c].outcome) \/ (r.pc = "done" /\ r.outcome = "failed")
        BY <1>0, <2>7 DEF Caller
      <4>2. /\ caller[c].outcome = "none" /\ \A f \in caller[c].facts : Client!FactOf(f[2]) = "fact"
            /\ Warned(pages, caller[c].at, caller[c].warned)
        BY <1>0, <2>1 DEF CallerOk
      <4> QED
        BY <2>3, <4>1, <4>2 DEF CallerOk, Refusals
    <3>3. issue' \in [Repos -> Issue]
      <4>1. caller[c].to \in Goals /\ issue \in [Repos -> Issue]
        BY <1>0 DEF Caller, ClientTypes
      <4> QED
        BY <2>5, <2>7, <4>1 DEF Issue
    <3> QED
      BY <1>0, <1>1, <2>1, <2>7, <3>1, <3>2, <3>3 DEF ClientTypes
  <2> QED
    BY <1>10, <2>2, <2>6, <2>7 DEF Client!Write
<1>11. ASSUME NEW c \in Callers, Client!ReadBack(c)
       PROVE  ClientInv'
  <2>1. PICK observed : observed = issue[CHOOSE m \in caller[c].wrote : TRUE].status
    OBVIOUS
  <2>2. PICK same \in BOOLEAN : same = (observed = caller[c].to)
    OBVIOUS
  <2>3. PICK r : r = [caller[c] EXCEPT !.pc = "done", !.confirmed = same,
                        !.outcome = IF same THEN "moved" ELSE "unverified"]
    OBVIOUS
  <2>4. caller[c].pc = "read-back" /\ Client!Becomes(c, r)
    BY <1>11, <2>1, <2>2, <2>3 DEF Client!ReadBack, Client!Verified
  <2>5. r \in Caller
    <3>1. /\ "done" \in ClientPcs /\ (IF same THEN "moved" ELSE "unverified") \in ClientOutcomes
      BY DEF ClientPcs, ClientOutcomes
    <3> QED
      BY <1>0, <2>2, <2>3, <3>1 DEF Caller
  <2>6. CallerOk(r)
    BY <1>0, <2>2, <2>3, <2>4 DEF CallerOk, Caller, Refusals
  <2> QED
    BY <1>0, <1>1, <1>11, <2>4, <2>5, <2>6 DEF Client!ReadBack, Client!World, ClientTypes
<1>12. ASSUME NEW c \in Callers, Client!Page(c)
       PROVE  ClientInv'
  <2>1. PICK n, s : n = caller[c].at /\ s = pages[n]
    OBVIOUS
  <2>2. caller[c].pc = "page" /\ n <= Len(pages)
    BY <1>12, <2>1 DEF Client!Page
  <2>3. n \in Nat \ {0} /\ n + 1 \in Nat \ {0} /\ s \in Shapes /\ <<n, s>> \in Nat \X Shapes
    BY <1>0, <2>1, <2>2 DEF Caller, ClientTypes, Counts
  <2>4. PICK F, W : /\ F = IF Client!FactOf(s) = "fact" THEN caller[c].facts \cup {<<n, s>>} ELSE caller[c].facts
                    /\ W = IF Client!FactOf(s) = "warning" THEN caller[c].warned \cup {<<n, s>>}
                           ELSE caller[c].warned
    OBVIOUS
  <2>5. F \in Marks /\ W \in Marks /\ n + 1 \in Counts
    BY <1>0, <2>3, <2>4 DEF Caller, Marks, Counts
  <2>6. \A f \in F : Client!FactOf(f[2]) = "fact"
    BY <1>0, <2>4 DEF CallerOk
  <2>7. PICK r : r = [caller[c] EXCEPT !.at = n + 1, !.facts = F, !.warned = W]
    OBVIOUS
  <2>8. Client!Becomes(c, r)
    BY <1>12, <2>1, <2>4, <2>7 DEF Client!Page
  <2>9. r \in Caller
    <3>1. PICK m : m = n + 1
      OBVIOUS
    <3> QED
      BY <1>0, <2>5, <2>7, <3>1 DEF Caller
  <2>a. Warned(pages, n + 1, W)
    <3>1. Warned(pages, n, caller[c].warned) /\ Len(pages) \in Nat
      BY <1>0, <2>1 DEF CallerOk, ClientTypes
    <3>2. s \in Client!Cut => Client!FactOf(s) = "warning"
      BY DEF Client!Cut, Client!FactOf
    <3>3. \A k \in 1 .. Len(pages) : k < n + 1 => k < n \/ k = n
      BY <2>3, <3>1
    <3> QED
      BY <2>1, <2>4, <3>1, <3>2, <3>3 DEF Warned
  <2>b. r.at = n + 1 /\ r.warned = W /\ r.outcome = caller[c].outcome /\ caller[c].outcome = "none"
    BY <1>0, <2>2, <2>7 DEF Caller, CallerOk
  <2>10. CallerOk(r)
    BY <1>0, <2>2, <2>6, <2>7, <2>a, <2>b DEF CallerOk, Caller
  <2> QED
    BY <1>0, <1>1, <1>12, <2>8, <2>9, <2>10 DEF Client!Page, Client!World, ClientTypes
<1>13. ASSUME NEW c \in Callers, Client!LastPage(c)
       PROVE  ClientInv'
  BY <1>2, <1>13 DEF Client!LastPage, Client!World, Refusals
<1>14. CASE Client!People
  <2>1. idFile' = idFile /\ caller' = caller
    BY <1>14 DEF Client!People
  <2>2. gen' \in Nat /\ options' \subseteq Statuses
    BY <1>0, <1>14 DEF Client!People, ClientTypes
  <2>3. pages' \in Seq(Shapes)
    <3>1. ASSUME NEW n \in DOMAIN pages, pages' = [pages EXCEPT ![n] = "closed"]
          PROVE  pages' \in Seq(Shapes)
      <4>3. "closed" \in Shapes
        BY DEF Shapes
      <4>0. pages \in Seq(Shapes)
        BY <1>0 DEF ClientTypes
      <4>1. n \in 1 .. Len(pages)
        BY <3>1, <4>0
      <4>2. \A X, s, k, x : s \in Seq(X) /\ k \in 1 .. Len(s) /\ x \in X => [s EXCEPT ![k] = x] \in Seq(X)
        OBVIOUS
      <4> QED
        BY <3>1, <4>0, <4>1, <4>2, <4>3
    <3> QED
      BY <1>0, <1>14, <3>1 DEF Client!People, ClientTypes
  <2>4. issue' \in [Repos -> Issue]
    <3>1. ASSUME NEW q \in Repos, NEW s \in Statuses, issue' = [issue EXCEPT ![q].status = s]
          PROVE  issue' \in [Repos -> Issue]
      BY <1>0, <3>1 DEF ClientTypes, Issue, Goals
    <3>2. ASSUME NEW q \in Repos, issue' = [issue EXCEPT ![q].member = ~@]
          PROVE  issue' \in [Repos -> Issue]
      BY <1>0, <3>2 DEF ClientTypes, Issue
    <3> QED
      BY <1>0, <1>14, <3>1, <3>2 DEF Client!People, ClientTypes
  <2>5. ASSUME NEW at, NEW W, Warned(pages, at, W) PROVE Warned(pages', at, W) /\ Len(pages') = Len(pages)
    <3>1. CASE pages' = pages
      BY <2>5, <3>1
    <3>2. ASSUME NEW n \in DOMAIN pages, pages' = [pages EXCEPT ![n] = "closed"]
          PROVE  Warned(pages', at, W) /\ Len(pages') = Len(pages)
      <4>1. pages \in Seq(Shapes)
        BY <1>0 DEF ClientTypes
      <4>2. /\ Len(pages') = Len(pages)
            /\ \A k \in 1 .. Len(pages) : pages'[k] = pages[k] \/ pages'[k] = "closed"
        BY <3>2, <4>1
      <4> QED
        BY <2>5, <4>2 DEF Warned, Client!Cut
    <3> QED
      BY <1>14, <3>1, <3>2 DEF Client!People
  <2>6. \A c \in Callers : CallerOk(caller[c])'
    BY <1>0, <2>1, <2>5 DEF CallerOk
  <2> QED
    BY <1>0, <2>1, <2>2, <2>3, <2>4, <2>6 DEF ClientInv, ClientTypes
<1>15. CASE UNCHANGED Client!clientVars
  BY <1>0, <1>15 DEF ClientInv, ClientTypes, Client!clientVars, CallerOk
<1> QED
  BY <1>3, <1>4, <1>5, <1>6, <1>7, <1>8, <1>9, <1>10, <1>11, <1>12, <1>13, <1>14, <1>15
     DEF Client!ClientNext

LEMMA ClientInitially ==
  ASSUME Client!ClientInit
  PROVE  ClientInv
<1> USE DEF Client!ClientInit
<1>1. Client!Idle \in Caller /\ CallerOk(Client!Idle)
  BY IdleCaller
<1>2. gen \in Nat /\ options \subseteq Statuses /\ pages \in Seq(Shapes)
  BY ToolsAssumption DEF ToolsAssumption, Shapes
<1>3. idFile \in ProjectIds
  BY <1>2 DEF ProjectIds, Client!NoIds
<1>4. issue \in [Repos -> Issue]
  BY DEF Issue, Goals
<1> QED
  BY <1>1, <1>2, <1>3, <1>4 DEF ClientInv, ClientTypes

LEMMA ClientIsHonest ==
  ASSUME ClientInv
  PROVE  Client!ClientHonest
<1>1. SUFFICES ASSUME NEW c \in Callers
      PROVE  /\ caller[c].outcome = "moved" => caller[c].confirmed
             /\ caller[c].outcome \in Refusals => caller[c].wrote = {}
             /\ caller[c].wrote # {} =>
                  Client!Cardinality(caller[c].matches) = 1 /\ caller[c].left = {}
             /\ \A f \in caller[c].facts : f[2] \notin Client!Cut \cup {"draft", "foreign"}
             /\ caller[c].outcome = "listed" =>
                  \A n \in 1 .. Len(pages) : pages[n] \in Client!Cut => <<n, pages[n]>> \in caller[c].warned
  BY DEF Client!ClientHonest, Refusals
<1>2. CallerOk(caller[c])
  BY DEF ClientInv
<1>3. \A s \in Client!Cut \cup {"draft", "foreign"} : Client!FactOf(s) # "fact"
  BY DEF Client!FactOf, Client!Cut
<1>4. ASSUME caller[c].outcome = "listed", NEW n \in 1 .. Len(pages), pages[n] \in Client!Cut
      PROVE  <<n, pages[n]>> \in caller[c].warned
  <2>1. caller[c].at \in Nat /\ Len(pages) \in Nat
    BY DEF ClientInv, ClientTypes, Caller, Counts
  <2>2. n < caller[c].at
    BY <1>2, <1>4, <2>1 DEF CallerOk
  <2> QED
    BY <1>2, <1>4, <2>2 DEF CallerOk, Warned
<1> QED
  BY <1>2, <1>3, <1>4 DEF CallerOk

-----------------------------------------------------------------------------
(***************************************************************************)
(* The write-through cache.                                                *)
(***************************************************************************)

BoardWords == Contents \cup KnownStatuses \cup {"none", "absent"}
Copies == [status : BoardWords, title : BoardWords, body : BoardWords, field : BoardWords]
Parts == {"status", "field", "title", "body"}
PartSets == SUBSET Parts
Writable == {"none", "status", "field", "body"}
CacheUser ==
  [pc : {"idle", "fetch", "insert", "compare", "record"}, item : Client!ItemIds \cup {1},
   part : Writable, value : BoardWords, observed : BOOLEAN, read : Copies, bad : PartSets,
   result : {"none", "ok", "noItem", "noStatus", "wrongKind", "duplicate", "noRefresh"}]

CacheTypes ==
  /\ items \in [Client!ItemIds -> Copies] /\ cache \in [Client!ItemIds -> Copies]
  /\ cacheEdges \subseteq Client!ItemIds \X Client!ItemIds
  /\ user \in [Users -> CacheUser]

(* A call under way knows its item, and what it wrote before it compares. *)
UserOk(w) ==
  /\ w.pc # "record" => w.bad = {}
  /\ w.pc # "idle" => w.item \in Client!ItemIds
  /\ w.pc \in {"fetch", "compare"} => w.part # "none"

(* What is kept, or was read and is to be kept, the platform has had. *)
HadOnce(i, copy) == <<i, copy>> \in past
CopiesHad ==
  /\ \A i \in Client!ItemIds : Client!Exists(i) => HadOnce(i, items[i])
  /\ \A i \in Client!ItemIds : cache[i] # Client!Absent => HadOnce(i, cache[i])
  /\ \A u \in Users : user[u].pc = "fetch" => HadOnce(user[u].item, items[user[u].item])
  /\ \A u \in Users : user[u].pc \in {"insert", "compare", "record"} => HadOnce(user[u].item, user[u].read)
  /\ \A e \in cacheEdges : Client!Exists(e[1]) /\ Client!Exists(e[2])

(* The contradictions still to be reported, and the account of all of them: *)
(* an event's number is below that of the next one.                         *)
OpenOf(us) == {q \in Users \X Parts : q[2] \in us[q[1]].bad}
Accounted ==
  /\ IsFiniteSet(pending) /\ drained \in Nat
  /\ \A e \in pending : e.n \in Nat /\ e.n < drained + Cardinality(pending)
  /\ mismatches = drained + Cardinality(pending) + Cardinality(OpenOf(user))

CacheInv == CacheTypes /\ (\A u \in Users : UserOk(user[u])) /\ CopiesHad /\ Accounted

LEMMA PartsFinite == IsFiniteSet(Parts)
<1>1. IsFiniteSet({"status"} \cup {"field"})
  BY FS_Singleton, FS_AddElement
<1>2. IsFiniteSet({"title"} \cup {"body"})
  BY FS_Singleton, FS_AddElement
<1>3. Parts = ({"status"} \cup {"field"}) \cup ({"title"} \cup {"body"})
  BY DEF Parts
<1> QED
  BY <1>1, <1>2, <1>3, FS_Union

LEMMA OpenFinite ==
  ASSUME NEW us
  PROVE  IsFiniteSet(OpenOf(us)) /\ Cardinality(OpenOf(us)) \in Nat
<1>1. IsFiniteSet(Parts)
  BY PartsFinite
<1>2. IsFiniteSet(Users \X Parts)
  BY <1>1, ToolsAssumption, FS_Product DEF ToolsAssumption
<1>3. OpenOf(us) \in SUBSET (Users \X Parts)
  BY DEF OpenOf
<1>4. IsFiniteSet(OpenOf(us))
  BY <1>2, <1>3, FS_Subset
<1> QED
  BY <1>4, FS_CardinalityType

(* A step of one user that reports nothing and contradicts nothing. *)
LEMMA OpenKept ==
  ASSUME user \in [Users -> CacheUser], NEW u \in Users, NEW r, user' = [user EXCEPT ![u] = r],
         r.bad = user[u].bad
  PROVE  OpenOf(user') = OpenOf(user)
<1>1. \A v \in Users : user'[v].bad = user[v].bad
  OBVIOUS
<1>2. \A q \in Users \X Parts : q[1] \in Users
  OBVIOUS
<1> QED
  BY <1>1, <1>2 DEF OpenOf

(* A read-back that contradicts its write opens as many contradictions as *)
(* parts disagree.                                                        *)
LEMMA OpenGrows ==
  ASSUME user \in [Users -> CacheUser], NEW u \in Users, NEW r, user' = [user EXCEPT ![u] = r],
         user[u].bad = {}, r.bad \in PartSets
  PROVE  Cardinality(OpenOf(user')) = Cardinality(OpenOf(user)) + Cardinality(r.bad)
<1>1. PICK B : B = r.bad
  OBVIOUS
<1>2. PICK N : N = {u} \X B
  OBVIOUS
<1>3. B \subseteq Parts
  BY <1>1 DEF PartSets
<1>4. \A v \in Users : user'[v].bad = IF v = u THEN B ELSE user[v].bad
  BY <1>1
<1>5. OpenOf(user') = OpenOf(user) \cup N
  <2>1. ASSUME NEW q \in Users \X Parts
        PROVE  q[2] \in user'[q[1]].bad <=> q[2] \in user[q[1]].bad \/ q \in N
    <3>1. q[1] \in Users /\ q = <<q[1], q[2]>>
      OBVIOUS
    <3>2. q \in N <=> q[1] = u /\ q[2] \in B
      BY <1>2, <3>1
    <3> QED
      BY <1>4, <3>1, <3>2
  <2>2. N \subseteq Users \X Parts
    BY <1>2, <1>3
  <2> QED
    BY <2>1, <2>2 DEF OpenOf
<1>6. OpenOf(user) \cap N = {}
  BY <1>2 DEF OpenOf
<1>7. IsFiniteSet(OpenOf(user)) /\ IsFiniteSet(OpenOf(user')) /\ Cardinality(OpenOf(user)) \in Nat
  BY OpenFinite
<1>8. IsFiniteSet(N)
  <2>1. N \in SUBSET OpenOf(user')
    BY <1>5
  <2> QED
    BY <1>7, <2>1, FS_Subset
<1>9. Cardinality(N) = Cardinality(B)
  <2>1. IsFiniteSet(B) /\ Cardinality(B) \in Nat
    BY <1>3, PartsFinite, FS_Subset, FS_CardinalityType
  <2>2. IsFiniteSet({u}) /\ Cardinality({u}) = 1
    BY FS_Singleton
  <2>3. Cardinality(N) = Cardinality({u}) * Cardinality(B)
    BY <1>2, <2>1, <2>2, FS_Product
  <2> QED
    BY <2>1, <2>2, <2>3
<1>10. Cardinality(N) \in Nat /\ Cardinality(OpenOf(user) \cap N) = 0
  BY <1>6, <1>8, FS_CardinalityType, FS_EmptySet
<1>11. Cardinality(OpenOf(user) \cup N)
         = Cardinality(OpenOf(user)) + Cardinality(N) - Cardinality(OpenOf(user) \cap N)
  BY <1>7, <1>8, FS_Union
<1>12. Cardinality(OpenOf(user) \cup N) = Cardinality(OpenOf(user)) + Cardinality(N)
  <2> HIDE DEF OpenOf
  <2> QED
    BY <1>7, <1>10, <1>11
<1> QED
  BY <1>1, <1>5, <1>9, <1>12, Zenon

(* A report closes one. *)
LEMMA OpenShrinks ==
  ASSUME user \in [Users -> CacheUser], NEW u \in Users, NEW r, user' = [user EXCEPT ![u] = r],
         NEW p \in user[u].bad, r.bad = user[u].bad \ {p}
  PROVE  Cardinality(OpenOf(user')) = Cardinality(OpenOf(user)) - 1
<1>1. p \in Parts
  BY DEF CacheUser, PartSets
<1>2. \A v \in Users : user'[v].bad = IF v = u THEN user[u].bad \ {p} ELSE user[v].bad
  OBVIOUS
<1>3. <<u, p>> \in OpenOf(user)
  BY <1>1 DEF OpenOf
<1>4. OpenOf(user') = OpenOf(user) \ {<<u, p>>}
  <2>1. ASSUME NEW q \in Users \X Parts
        PROVE  q[2] \in user'[q[1]].bad <=> q[2] \in user[q[1]].bad /\ q # <<u, p>>
    <3>1. q[1] \in Users /\ q = <<q[1], q[2]>>
      OBVIOUS
    <3>2. q = <<u, p>> <=> q[1] = u /\ q[2] = p
      BY <3>1
    <3> QED
      BY <1>2, <3>1, <3>2
  <2> QED
    BY <2>1 DEF OpenOf
<1> QED
  BY <1>3, <1>4, OpenFinite, FS_RemoveElement

(* What the platform has had only grows, and an item that is there stays. *)
LEMMA PutsKeeps ==
  ASSUME CacheInv, NEW i \in Client!ItemIds, NEW copy \in Copies, copy # Client!Absent,
         Client!Puts(i, copy)
  PROVE  /\ items' \in [Client!ItemIds -> Copies] /\ past \subseteq past'
         /\ \A j \in Client!ItemIds : Client!Exists(j) => Client!Exists(j)'
         /\ \A j \in Client!ItemIds : HadOnce(j, items[j]) => HadOnce(j, items[j])'
         /\ \A j \in Client!ItemIds : Client!Exists(j)' => HadOnce(j, items[j])'
         /\ HadOnce(i, items[i])'
<1>1. items' = [items EXCEPT ![i] = copy] /\ past' = past \cup {<<i, copy>>}
  BY DEF Client!Puts
<1>2. items \in [Client!ItemIds -> Copies]
  BY DEF CacheInv, CacheTypes
<1>3. items' \in [Client!ItemIds -> Copies]
  BY <1>1, <1>2
<1>4. \A j \in Client!ItemIds : items'[j] = IF j = i THEN copy ELSE items[j]
  BY <1>1, <1>2
<1>5. \A j \in Client!ItemIds : Client!Exists(j) => HadOnce(j, items[j])
  BY DEF CacheInv, CopiesHad
<1> QED
  BY <1>1, <1>3, <1>4, <1>5 DEF Client!Exists, HadOnce

(* A write of a word the board holds leaves an item, not nothing. *)
LEMMA WrittenIs ==
  ASSUME NEW copy \in Copies, copy # Client!Absent, NEW p \in {"status", "field", "body"},
         NEW v \in Contents \cup KnownStatuses
  PROVE  Client!Written(copy, p, v) \in Copies /\ Client!Written(copy, p, v) # Client!Absent
<1>1. v # "absent" /\ v \in BoardWords
  BY ToolsAssumption DEF ToolsAssumption, BoardWords
<1>2. Client!Absent = [status |-> "absent", title |-> "absent", body |-> "absent", field |-> "absent"]
  BY DEF Client!Absent, Client!Copy
<1>3. CASE p = "status"
  <2>1. Client!Written(copy, p, v) = [copy EXCEPT !.status = v]
    BY <1>3 DEF Client!Written
  <2> QED
    BY <1>1, <1>2, <2>1 DEF Copies
<1>4. CASE p = "field"
  <2>1. Client!Written(copy, p, v) = [copy EXCEPT !.field = v]
    BY <1>4 DEF Client!Written
  <2> QED
    BY <1>1, <1>2, <2>1 DEF Copies
<1>5. CASE p = "body"
  <2>1. Client!Written(copy, p, v) = [copy EXCEPT !.title = v, !.body = v]
    BY <1>5 DEF Client!Written
  <2>2. PICK w : w = [copy EXCEPT !.title = v, !.body = v]
    OBVIOUS
  <2>3. w \in Copies /\ w.title = v
    BY <1>1, <2>2 DEF Copies
  <2>4. Client!Absent.title = "absent"
    BY <1>2
  <2>5. w # Client!Absent
    BY <1>1, <2>3, <2>4
  <2> QED
    BY <2>1, <2>2, <2>3, <2>5, Zenon
<1> QED
  BY <1>3, <1>4, <1>5

LEMMA QuietUser == Client!Quiet \in CacheUser /\ UserOk(Client!Quiet)
<1>1. /\ 1 \in Client!ItemIds \cup {1} /\ "none" \in Writable /\ "none" \in BoardWords
      /\ Client!Absent \in Copies /\ {} \in PartSets
  BY DEF Writable, BoardWords, Client!Absent, Client!Copy, Copies, PartSets
<1>2. Client!Quiet \in CacheUser
  BY <1>1 DEF Client!Quiet, CacheUser
<1> QED
  BY <1>2 DEF Client!Quiet, UserOk

(* A step of one user leaves the others alone. *)
LEMMA UserMoves ==
  ASSUME CacheInv, NEW u \in Users, NEW r \in CacheUser, UserOk(r), Client!Goes(u, r)
  PROVE  /\ user' \in [Users -> CacheUser] /\ user' = [user EXCEPT ![u] = r]
         /\ \A v \in Users : UserOk(user[v])'
         /\ \A v \in Users : user'[v] = IF v = u THEN r ELSE user[v]
<1>1. user \in [Users -> CacheUser] /\ \A v \in Users : UserOk(user[v])
  BY DEF CacheInv, CacheTypes
<1>2. user' = [user EXCEPT ![u] = r]
  BY DEF Client!Goes
<1>3. \A v \in Users : user'[v] = IF v = u THEN r ELSE user[v]
  BY <1>1, <1>2
<1>4. \A v \in Users : UserOk(user'[v])
  BY <1>1, <1>3
<1> QED
  BY <1>1, <1>2, <1>3, <1>4

(* A step that moves one user, whose open reports stay, and touches neither *)
(* the board nor the events.                                                *)
LEMMA QuietStep ==
  ASSUME CacheInv, NEW u \in Users, NEW r \in CacheUser, UserOk(r), Client!Goes(u, r),
         r.bad = user[u].bad, items' = items, past' = past, cacheEdges' = cacheEdges,
         pending' = pending, drained' = drained, mismatches' = mismatches,
         r.pc = "fetch" => HadOnce(r.item, items[r.item]),
         r.pc \in {"insert", "compare", "record"} => HadOnce(r.item, r.read),
         cache' \in [Client!ItemIds -> Copies],
         \A i \in Client!ItemIds : cache'[i] # Client!Absent => HadOnce(i, cache'[i])
  PROVE  CacheInv'
<1>0. CacheTypes /\ CopiesHad /\ Accounted
  BY DEF CacheInv
<1>1. /\ user' \in [Users -> CacheUser] /\ user' = [user EXCEPT ![u] = r]
      /\ \A v \in Users : UserOk(user[v])'
      /\ \A v \in Users : user'[v] = IF v = u THEN r ELSE user[v]
  BY UserMoves
<1>2. CacheTypes'
  BY <1>0, <1>1 DEF CacheTypes
<1>3. CopiesHad'
  BY <1>0, <1>1 DEF CopiesHad, HadOnce, Client!Exists
<1>4. OpenOf(user') = OpenOf(user)
  BY <1>0, <1>1, OpenKept DEF CacheTypes
<1>5. Accounted'
  BY <1>0, <1>4 DEF Accounted
<1> QED
  BY <1>1, <1>2, <1>3, <1>5 DEF CacheInv

(* A step that changes the board, and perhaps one user, who has nothing to report. *)
LEMMA BoardStep ==
  ASSUME CacheInv, NEW i \in Client!ItemIds, NEW copy \in Copies, copy # Client!Absent,
         Client!Puts(i, copy), cacheEdges' = cacheEdges, cache' = cache,
         pending' = pending, drained' = drained, mismatches' = mismatches,
         \/ user' = user
         \/ \E u \in Users, r \in CacheUser :
              /\ UserOk(r) /\ Client!Goes(u, r) /\ user[u].bad = {} /\ r.pc = "fetch" /\ r.item = i
  PROVE  CacheInv'
<1>0. CacheTypes /\ CopiesHad /\ Accounted /\ \A v \in Users : UserOk(user[v])
  BY DEF CacheInv
<1>1. /\ items' \in [Client!ItemIds -> Copies] /\ past \subseteq past'
      /\ \A j \in Client!ItemIds : Client!Exists(j) => Client!Exists(j)'
      /\ \A j \in Client!ItemIds : HadOnce(j, items[j]) => HadOnce(j, items[j])'
      /\ \A j \in Client!ItemIds : Client!Exists(j)' => HadOnce(j, items[j])'
      /\ HadOnce(i, items[i])'
  BY PutsKeeps
<1>2. \A e \in cacheEdges' : Client!Exists(e[1])' /\ Client!Exists(e[2])'
  BY <1>0, <1>1 DEF CacheTypes, CopiesHad
<1>3. \A j \in Client!ItemIds : cache'[j] # Client!Absent => HadOnce(j, cache[j])'
  BY <1>0, <1>1 DEF CopiesHad, HadOnce
<1>4. ASSUME NEW v \in Users, user'[v] = user[v]
      PROVE  /\ user'[v].pc = "fetch" => HadOnce(user[v].item, items[user[v].item])'
             /\ user'[v].pc \in {"insert", "compare", "record"} => HadOnce(user[v].item, user[v].read)'
  BY <1>0, <1>1, <1>4 DEF CopiesHad, HadOnce, UserOk
<1>5. CASE user' = user
  <2>1. CacheTypes'
    BY <1>0, <1>1, <1>5 DEF CacheTypes
  <2>2. CopiesHad'
    BY <1>1, <1>2, <1>3, <1>4, <1>5 DEF CopiesHad
  <2>3. Accounted'
    BY <1>0, <1>5 DEF Accounted
  <2> QED
    BY <1>0, <1>5, <2>1, <2>2, <2>3 DEF CacheInv
<1>6. CASE \E u \in Users, r \in CacheUser :
             /\ UserOk(r) /\ Client!Goes(u, r) /\ user[u].bad = {} /\ r.pc = "fetch" /\ r.item = i
  <2>1. PICK u \in Users, r \in CacheUser :
          /\ UserOk(r) /\ Client!Goes(u, r) /\ user[u].bad = {} /\ r.pc = "fetch" /\ r.item = i
    BY <1>6
  <2>2. /\ user' \in [Users -> CacheUser] /\ user' = [user EXCEPT ![u] = r]
        /\ \A v \in Users : UserOk(user[v])'
        /\ \A v \in Users : user'[v] = IF v = u THEN r ELSE user[v]
    BY <2>1, UserMoves
  <2>3. CacheTypes'
    BY <1>0, <1>1, <2>2 DEF CacheTypes
  <2>4. \A v \in Users :
          /\ user'[v].pc = "fetch" => HadOnce(user[v].item, items[user[v].item])'
          /\ user'[v].pc \in {"insert", "compare", "record"} => HadOnce(user[v].item, user[v].read)'
    BY <1>1, <1>4, <2>1, <2>2
  <2>5. CopiesHad'
    BY <1>1, <1>2, <1>3, <2>4 DEF CopiesHad
  <2>6. r.bad = user[u].bad
    BY <2>1 DEF UserOk
  <2>7. OpenOf(user') = OpenOf(user)
    BY <1>0, <2>2, <2>6, OpenKept DEF CacheTypes
  <2>8. Accounted'
    BY <1>0, <2>7 DEF Accounted
  <2> QED
    BY <2>2, <2>3, <2>5, <2>8 DEF CacheInv
<1> QED
  BY <1>5, <1>6

(* A step that leaves all but the edges as they are; the edges join items that are there. *)
LEMMA EdgeStep ==
  ASSUME CacheInv, items' = items, past' = past, cache' = cache, pending' = pending,
         drained' = drained, mismatches' = mismatches,
         \A e \in cacheEdges' : e \in cacheEdges \/ (/\ e \in Client!ItemIds \X Client!ItemIds
                                                     /\ Client!Exists(e[1]) /\ Client!Exists(e[2])),
         \/ user' = user
         \/ \E u \in Users, r \in CacheUser :
              UserOk(r) /\ Client!Goes(u, r) /\ user[u].bad = {} /\ r.pc = "idle"
  PROVE  CacheInv'
<1>0. CacheTypes /\ CopiesHad /\ Accounted /\ \A v \in Users : UserOk(user[v])
  BY DEF CacheInv
<1>1. cacheEdges' \subseteq Client!ItemIds \X Client!ItemIds
  BY <1>0 DEF CacheTypes
<1>2. \A e \in cacheEdges' : Client!Exists(e[1])' /\ Client!Exists(e[2])'
  BY <1>0 DEF CopiesHad, Client!Exists
<1>3. CASE user' = user
  <2>1. CacheTypes'
    BY <1>0, <1>1, <1>3 DEF CacheTypes
  <2>2. CopiesHad'
    BY <1>0, <1>2, <1>3 DEF CopiesHad, HadOnce, Client!Exists
  <2>3. Accounted'
    BY <1>0, <1>3 DEF Accounted
  <2> QED
    BY <1>0, <1>3, <2>1, <2>2, <2>3 DEF CacheInv
<1>4. CASE \E u \in Users, r \in CacheUser :
             UserOk(r) /\ Client!Goes(u, r) /\ user[u].bad = {} /\ r.pc = "idle"
  <2>1. PICK u \in Users, r \in CacheUser :
          UserOk(r) /\ Client!Goes(u, r) /\ user[u].bad = {} /\ r.pc = "idle"
    BY <1>4
  <2>2. /\ user' \in [Users -> CacheUser] /\ user' = [user EXCEPT ![u] = r]
        /\ \A v \in Users : UserOk(user[v])'
        /\ \A v \in Users : user'[v] = IF v = u THEN r ELSE user[v]
    BY <2>1, UserMoves
  <2>3. CacheTypes'
    BY <1>0, <1>1, <2>2 DEF CacheTypes
  <2>4. CopiesHad'
    BY <1>0, <1>2, <2>1, <2>2 DEF CopiesHad, HadOnce, Client!Exists
  <2>5. r.bad = user[u].bad
    BY <2>1 DEF UserOk
  <2>6. OpenOf(user') = OpenOf(user)
    BY <1>0, <2>2, <2>5, OpenKept DEF CacheTypes
  <2>7. Accounted'
    BY <1>0, <2>6 DEF Accounted
  <2> QED
    BY <2>2, <2>3, <2>4, <2>7 DEF CacheInv
<1> QED
  BY <1>3, <1>4

LEMMA CompareStep ==
  ASSUME CacheInv, NEW u \in Users, Client!Compare(u)
  PROVE  CacheInv'
<1>0. CacheTypes /\ CopiesHad /\ Accounted /\ \A v \in Users : UserOk(user[v]) /\ user[v] \in CacheUser
  BY DEF CacheInv, CacheTypes
<1>1. PICK B : B = Client!Contradicted(u)
  OBVIOUS
<1>2. /\ user[u].pc = "compare" /\ items' = items /\ past' = past /\ cacheEdges' = cacheEdges
      /\ cache' = cache /\ pending' = pending /\ drained' = drained
      /\ mismatches' = mismatches + Client!Cardinality(B)
  BY <1>1 DEF Client!Compare, Client!provider
<1>3. user[u].part \in {"status", "field", "body"} /\ user[u].bad = {} /\ user[u].item \in Client!ItemIds
  BY <1>0, <1>2 DEF UserOk, CacheUser, Writable
<1>4. B \in PartSets
  BY <1>1, <1>3 DEF Client!Contradicted, PartSets, Parts
<1>5. PICK r : r = [user[u] EXCEPT !.bad = B, !.pc = IF B = {} THEN "idle" ELSE "record", !.result = "ok"]
  OBVIOUS
<1>6. Client!Goes(u, r)
  BY <1>1, <1>5 DEF Client!Compare
<1>7. r \in CacheUser
  BY <1>0, <1>4, <1>5 DEF CacheUser
<1>8. /\ r.bad = B /\ r.pc \in {"idle", "record"} /\ (r.pc = "idle" => B = {})
      /\ r.item = user[u].item /\ r.read = user[u].read
  BY <1>0, <1>5 DEF CacheUser
<1>9. UserOk(r)
  BY <1>3, <1>8 DEF UserOk
<1>10. /\ user' \in [Users -> CacheUser] /\ user' = [user EXCEPT ![u] = r]
       /\ \A v \in Users : UserOk(user[v])'
       /\ \A v \in Users : user'[v] = IF v = u THEN r ELSE user[v]
  BY <1>6, <1>7, <1>9, UserMoves
<1>11. CacheTypes'
  BY <1>0, <1>2, <1>10 DEF CacheTypes
<1>12. CopiesHad'
  BY <1>0, <1>2, <1>8, <1>10 DEF CopiesHad, HadOnce, Client!Exists
<1>13. Cardinality(OpenOf(user')) = Cardinality(OpenOf(user)) + Cardinality(B)
  BY <1>0, <1>3, <1>4, <1>8, <1>10, OpenGrows DEF CacheTypes
<1>14. Cardinality(B) \in Nat /\ Cardinality(OpenOf(user)) \in Nat /\ Cardinality(pending) \in Nat
  BY <1>0, <1>4, PartsFinite, FS_Subset, FS_CardinalityType, OpenFinite DEF PartSets, Accounted
<1>15. Accounted'
  <2>1. Client!Cardinality(B) = Cardinality(B)
    BY ClientCounts
  <2>2. mismatches' = drained + Cardinality(pending) + Cardinality(OpenOf(user')) /\ drained \in Nat
    BY <1>0, <1>2, <1>13, <1>14, <2>1 DEF Accounted
  <2> QED
    BY <1>0, <1>2, <2>2 DEF Accounted
<1> QED
  BY <1>10, <1>11, <1>12, <1>15 DEF CacheInv

LEMMA DivergenceStep ==
  ASSUME CacheInv, NEW u \in Users, Client!RecordDivergence(u)
  PROVE  CacheInv'
<1>0. CacheTypes /\ CopiesHad /\ Accounted /\ \A v \in Users : UserOk(user[v]) /\ user[v] \in CacheUser
  BY DEF CacheInv, CacheTypes
<1>1. /\ user[u].pc = "record" /\ items' = items /\ past' = past /\ cacheEdges' = cacheEdges
      /\ cache' = [cache EXCEPT ![user[u].item] = user[u].read] /\ drained' = drained
      /\ mismatches' = mismatches
  BY DEF Client!RecordDivergence, Client!provider
<1>2. PICK p \in user[u].bad :
        /\ pending' = Client!Push([item |-> user[u].item, part |-> p,
                                   n |-> drained + Client!Cardinality(pending)])
        /\ Client!Goes(u, [user[u] EXCEPT !.bad = @ \ {p},
                                          !.pc = IF user[u].bad = {p} THEN "idle" ELSE @])
  BY DEF Client!RecordDivergence
<1>3. PICK e : e = [item |-> user[u].item, part |-> p, n |-> drained + Cardinality(pending)]
  OBVIOUS
<1>4. PICK B : B = user[u].bad \ {p}
  OBVIOUS
<1>5. PICK r : r = [user[u] EXCEPT !.bad = B, !.pc = IF B = {} THEN "idle" ELSE "record"]
  OBVIOUS
<1>6. Client!Goes(u, r)
  <2>1. user[u].bad = {p} <=> B = {}
    BY <1>4
  <2>2. r = [user[u] EXCEPT !.bad = @ \ {p}, !.pc = IF user[u].bad = {p} THEN "idle" ELSE @]
    BY <1>0, <1>1, <1>4, <1>5, <2>1 DEF CacheUser
  <2> QED
    BY <1>2, <2>2
<1>7. B \in PartSets /\ user[u].item \in Client!ItemIds /\ user[u].read \in Copies
  BY <1>0, <1>1, <1>4 DEF CacheUser, PartSets, UserOk
<1>8. r \in CacheUser
  BY <1>0, <1>5, <1>7 DEF CacheUser
<1>9. /\ r.bad = B /\ r.pc \in {"idle", "record"} /\ (r.pc = "idle" => B = {})
      /\ r.item = user[u].item /\ r.read = user[u].read
  BY <1>0, <1>5 DEF CacheUser
<1>10. UserOk(r)
  BY <1>7, <1>9 DEF UserOk
<1>11. /\ user' \in [Users -> CacheUser] /\ user' = [user EXCEPT ![u] = r]
       /\ \A v \in Users : UserOk(user[v])'
       /\ \A v \in Users : user'[v] = IF v = u THEN r ELSE user[v]
  BY <1>6, <1>8, <1>10, UserMoves
<1>12. HadOnce(user[u].item, user[u].read)
  BY <1>0, <1>1 DEF CopiesHad
<1>13. CacheTypes'
  BY <1>0, <1>1, <1>7, <1>11 DEF CacheTypes
<1>14. CopiesHad'
  <2>1. \A i \in Client!ItemIds : cache'[i] = IF i = user[u].item THEN user[u].read ELSE cache[i]
    BY <1>0, <1>1 DEF CacheTypes
  <2> QED
    BY <1>0, <1>1, <1>9, <1>11, <1>12, <2>1 DEF CopiesHad, HadOnce, Client!Exists
<1>15. Cardinality(OpenOf(user')) = Cardinality(OpenOf(user)) - 1
  BY <1>0, <1>4, <1>9, <1>11, OpenShrinks DEF CacheTypes
<1>16. Cardinality(OpenOf(user)) \in Nat /\ Cardinality(pending) \in Nat /\ drained \in Nat
  BY <1>0, OpenFinite, FS_CardinalityType DEF Accounted
<1>17. pending' = pending \cup {e}
  BY <1>2, <1>3, ClientCounts DEF Client!Push
<1>18. e.n = drained + Cardinality(pending) /\ e \notin pending
  BY <1>0, <1>3, <1>16 DEF Accounted
<1>19. IsFiniteSet(pending') /\ Cardinality(pending') = Cardinality(pending) + 1
  BY <1>0, <1>17, <1>18, FS_AddElement DEF Accounted
<1>20. Accounted'
  <2>1. \A x \in pending' : x.n \in Nat /\ x.n < drained + Cardinality(pending')
    BY <1>0, <1>16, <1>17, <1>18, <1>19 DEF Accounted
  <2>2. mismatches = drained + Cardinality(pending') + Cardinality(OpenOf(user'))
    BY <1>0, <1>15, <1>16, <1>19 DEF Accounted
  <2> QED
    BY <1>1, <1>16, <1>19, <2>1, <2>2 DEF Accounted
<1> QED
  BY <1>11, <1>13, <1>14, <1>20 DEF CacheInv

(* The calls an idle user makes. *)
CacheReplies == {"none", "ok", "noItem", "noStatus", "wrongKind", "duplicate", "noRefresh"}
Writing(i, p, v, seen) ==
  [Client!Quiet EXCEPT !.pc = "fetch", !.item = i, !.part = p, !.value = v, !.observed = seen]
Reading(i, copy) == [Client!Quiet EXCEPT !.pc = "insert", !.item = i, !.read = copy]

LEMMA RefusedCall ==
  ASSUME NEW i \in Client!ItemIds \cup {1}, NEW said \in CacheReplies, NEW r,
         r = [Client!Quiet EXCEPT !.item = i, !.result = said]
  PROVE  r \in CacheUser /\ UserOk(r) /\ r.bad = {} /\ r.pc = "idle"
<1>1. PICK q : q = Client!Quiet
  OBVIOUS
<1>2. q \in CacheUser /\ q.pc = "idle" /\ q.bad = {}
  BY <1>1, QuietUser DEF Client!Quiet
<1>3. r = [q EXCEPT !.item = i, !.result = said]
  BY <1>1
<1>4. r \in CacheUser /\ r.bad = {} /\ r.pc = "idle"
  BY <1>2, <1>3 DEF CacheUser, CacheReplies
<1> QED
  BY <1>4 DEF UserOk

LEMMA WritingCall ==
  ASSUME NEW i \in Client!ItemIds, NEW p \in {"status", "field", "body"},
         NEW v \in Contents \cup KnownStatuses, NEW seen \in BOOLEAN, NEW r,
         r = Writing(i, p, v, seen)
  PROVE  r \in CacheUser /\ UserOk(r) /\ r.pc = "fetch" /\ r.item = i
<1>1. PICK q : q = Client!Quiet
  OBVIOUS
<1>2. q \in CacheUser /\ q.pc = "idle" /\ q.bad = {}
  BY <1>1, QuietUser DEF Client!Quiet
<1>3. r = [q EXCEPT !.pc = "fetch", !.item = i, !.part = p, !.value = v, !.observed = seen]
  BY <1>1 DEF Writing
<1>4. i \in Client!ItemIds \cup {1} /\ p \in Writable /\ p # "none" /\ v \in BoardWords
  BY DEF Writable, BoardWords
<1>5. r \in CacheUser /\ r.bad = {} /\ r.pc = "fetch" /\ r.item = i /\ r.part = p
  BY <1>2, <1>3, <1>4 DEF CacheUser
<1> QED
  BY <1>4, <1>5 DEF UserOk

LEMMA ReadingCall ==
  ASSUME NEW i \in Client!ItemIds, NEW copy \in Copies, NEW r, r = Reading(i, copy)
  PROVE  /\ r \in CacheUser /\ UserOk(r) /\ r.bad = {} /\ r.pc = "insert" /\ r.item = i
         /\ r.read = copy
<1>1. PICK q : q = Client!Quiet
  OBVIOUS
<1>2. q \in CacheUser /\ q.pc = "idle" /\ q.bad = {}
  BY <1>1, QuietUser DEF Client!Quiet
<1>3. r = [q EXCEPT !.pc = "insert", !.item = i, !.read = copy]
  BY <1>1 DEF Reading
<1>4. r \in CacheUser /\ r.bad = {} /\ r.pc = "insert" /\ r.item = i /\ r.read = copy
  BY <1>2, <1>3 DEF CacheUser
<1> QED
  BY <1>4 DEF UserOk

LEMMA CacheStep ==
  ASSUME CacheInv, [Client!CacheNext]_Client!cacheVars
  PROVE  CacheInv'
<1>0. CacheTypes /\ CopiesHad /\ Accounted /\ \A v \in Users : UserOk(user[v]) /\ user[v] \in CacheUser
  BY DEF CacheInv, CacheTypes
<1>b. Client!Blank \in Copies /\ Client!Blank # Client!Absent
  <2>1. Client!Blank.status = "none" /\ Client!Absent.status = "absent"
    BY DEF Client!Blank, Client!Absent, Client!Copy
  <2>2. Client!Blank \in Copies
    BY DEF Client!Blank, Client!Copy, Copies, BoardWords
  <2> QED
    BY <2>1, <2>2
<1>i. \A u \in Users : user[u].pc = "idle" => user[u].bad = {}
  BY <1>0 DEF UserOk
<1>c. /\ cache \in [Client!ItemIds -> Copies]
      /\ \A i \in Client!ItemIds : cache[i] # Client!Absent => HadOnce(i, cache[i])
      /\ \A i \in Client!ItemIds : items[i] \in Copies /\ (Client!Exists(i) => HadOnce(i, items[i]))
  BY <1>0 DEF CacheTypes, CopiesHad
<1>1. ASSUME NEW u \in Users, Client!CreateItem(u) PROVE CacheInv'
  <2>1. PICK i \in Client!ItemIds : Client!Puts(i, Client!Blank)
    BY <1>1 DEF Client!CreateItem
  <2>2. /\ cacheEdges' = cacheEdges /\ cache' = cache /\ pending' = pending /\ drained' = drained
        /\ mismatches' = mismatches /\ user' = user
    BY <1>1 DEF Client!CreateItem
  <2> QED
    BY <1>b, <2>1, <2>2, BoardStep
<1>2. ASSUME NEW u \in Users, Client!WriteThrough(u) PROVE CacheInv'
  <2>0. /\ user[u].pc = "idle" /\ cacheEdges' = cacheEdges /\ cache' = cache /\ pending' = pending
        /\ drained' = drained /\ mismatches' = mismatches
    BY <1>2 DEF Client!WriteThrough
  <2>1. PICK i \in Client!ItemIds, p \in {"status", "field", "body"}, v \in Contents \cup KnownStatuses :
          IF Client!Refused(i, p, v) # "none"
          THEN /\ Client!Goes(u, [Client!Quiet EXCEPT !.item = i, !.result = Client!Refused(i, p, v)])
               /\ items' = items /\ past' = past
          ELSE /\ Client!Puts(i, Client!Written(items[i], p, v))
               /\ Client!Goes(u, [Client!Quiet EXCEPT !.pc = "fetch", !.item = i, !.part = p, !.value = v,
                                                      !.observed = cache[i] # Client!Absent])
    BY <1>2 DEF Client!WriteThrough
  <2>2. PICK said : said = Client!Refused(i, p, v)
    OBVIOUS
  <2>3. said \in CacheReplies
    BY <2>2 DEF Client!Refused, CacheReplies
  <2>4. PICK seen : seen = (cache[i] # Client!Absent)
    OBVIOUS
  <2>5. seen \in BOOLEAN
    BY <2>4
  <2>6. CASE said # "none"
    <3>1. PICK r : r = [Client!Quiet EXCEPT !.item = i, !.result = said]
      OBVIOUS
    <3>2. r \in CacheUser /\ UserOk(r) /\ r.bad = {} /\ r.pc = "idle"
      BY <2>3, <3>1, RefusedCall
    <3>3. Client!Goes(u, r) /\ items' = items /\ past' = past
      BY <2>1, <2>2, <2>6, <3>1
    <3> QED
      BY <1>c, <1>i, <2>0, <3>2, <3>3, QuietStep
  <2>7. CASE said = "none"
    <3>1. PICK r : r = Writing(i, p, v, seen)
      OBVIOUS
    <3>2. r \in CacheUser /\ UserOk(r) /\ r.pc = "fetch" /\ r.item = i
      BY <2>5, <3>1, WritingCall
    <3>3. Client!Goes(u, r) /\ Client!Puts(i, Client!Written(items[i], p, v))
      BY <2>1, <2>2, <2>4, <2>7, <3>1, Zenon DEF Writing
    <3>4. items[i] \in Copies /\ items[i] # Client!Absent
      BY <1>c, <2>2, <2>7 DEF Client!Refused, Client!Exists
    <3>5. Client!Written(items[i], p, v) \in Copies /\ Client!Written(items[i], p, v) # Client!Absent
      BY <3>4, WrittenIs
    <3> QED
      BY <1>i, <2>0, <3>2, <3>3, <3>5, BoardStep
  <2> QED
    BY <2>6, <2>7
<1>3. ASSUME NEW u \in Users, Client!CachedItem(u) PROVE CacheInv'
  <2>1. /\ user[u].pc = "idle" /\ items' = items /\ past' = past /\ cacheEdges' = cacheEdges
        /\ cache' = cache /\ pending' = pending /\ drained' = drained /\ mismatches' = mismatches
    BY <1>3 DEF Client!CachedItem, Client!provider
  <2>2. PICK i \in Client!ItemIds :
          /\ Client!Exists(i)
          /\ Client!Goes(u, [Client!Quiet EXCEPT !.pc = "insert", !.item = i, !.read = items[i]])
    BY <1>3 DEF Client!CachedItem
  <2>3. PICK copy : copy = items[i]
    OBVIOUS
  <2>4. PICK r : r = Reading(i, copy)
    OBVIOUS
  <2>5. copy \in Copies /\ HadOnce(i, copy) /\ Client!Goes(u, r)
    BY <1>c, <2>2, <2>3, <2>4 DEF Reading
  <2>6. /\ r \in CacheUser /\ UserOk(r) /\ r.bad = {} /\ r.pc = "insert" /\ r.item = i
        /\ r.read = copy
    BY <2>4, <2>5, ReadingCall
  <2> QED
    BY <1>c, <1>i, <2>1, <2>5, <2>6, QuietStep
<1>4. ASSUME NEW u \in Users, Client!Fetch(u) PROVE CacheInv'
  <2>1. /\ user[u].pc = "fetch" /\ items' = items /\ past' = past /\ cacheEdges' = cacheEdges
        /\ cache' = cache /\ pending' = pending /\ drained' = drained /\ mismatches' = mismatches
    BY <1>4 DEF Client!Fetch, Client!provider
  <2>2. user[u].item \in Client!ItemIds /\ HadOnce(user[u].item, items[user[u].item]) /\ user[u].bad = {}
    BY <1>0, <2>1 DEF UserOk, CopiesHad
  <2>3. PICK copy : copy = items[user[u].item]
    OBVIOUS
  <2>4. PICK r : r = [user[u] EXCEPT !.pc = "insert", !.read = copy]
    OBVIOUS
  <2>5. copy \in Copies /\ HadOnce(user[u].item, copy)
    BY <1>c, <2>2, <2>3
  <2>6. /\ r \in CacheUser /\ r.bad = user[u].bad /\ r.pc = "insert" /\ r.item = user[u].item
        /\ r.read = copy
    BY <1>0, <2>4, <2>5 DEF CacheUser
  <2>7. UserOk(r)
    BY <2>2, <2>6 DEF UserOk
  <2>8. CASE Client!Goes(u, r)
    BY <1>c, <2>1, <2>2, <2>5, <2>6, <2>7, <2>8, QuietStep
  <2>9. PICK i : i = user[u].item
    OBVIOUS
  <2>10. PICK e : e = [Client!Quiet EXCEPT !.item = i, !.result = "noRefresh"]
    OBVIOUS
  <2>11. e \in CacheUser /\ UserOk(e) /\ e.bad = {} /\ e.pc = "idle"
    <3>1. "noRefresh" \in CacheReplies /\ i \in Client!ItemIds \cup {1}
      BY <2>2, <2>9 DEF CacheReplies
    <3> QED
      BY <2>10, <3>1, RefusedCall
  <2>12. CASE Client!Goes(u, e)
    BY <1>c, <2>1, <2>2, <2>11, <2>12, QuietStep
  <2>13. Client!Goes(u, r) \/ Client!Goes(u, e)
    BY <1>4, <2>3, <2>4, <2>9, <2>10 DEF Client!Fetch
  <2> QED
    BY <2>8, <2>12, <2>13
<1>5. ASSUME NEW u \in Users, Client!Insert(u) PROVE CacheInv'
  <2>1. /\ user[u].pc = "insert" /\ items' = items /\ past' = past /\ cacheEdges' = cacheEdges
        /\ cache' = [cache EXCEPT ![user[u].item] = user[u].read]
        /\ pending' = pending /\ drained' = drained /\ mismatches' = mismatches
    BY <1>5 DEF Client!Insert, Client!provider
  <2>2. /\ user[u].item \in Client!ItemIds /\ HadOnce(user[u].item, user[u].read) /\ user[u].bad = {}
        /\ user[u].read \in Copies
    BY <1>0, <2>1 DEF UserOk, CopiesHad, CacheUser
  <2>3. cache' \in [Client!ItemIds -> Copies]
    BY <1>c, <2>1, <2>2
  <2>4. \A i \in Client!ItemIds : cache'[i] = IF i = user[u].item THEN user[u].read ELSE cache[i]
    BY <1>c, <2>1, <2>2
  <2>5. \A i \in Client!ItemIds : cache'[i] # Client!Absent => HadOnce(i, cache'[i])
    BY <1>c, <2>2, <2>4
  <2>6. PICK r : r = IF user[u].part = "none" THEN [user[u] EXCEPT !.pc = "idle", !.result = "ok"]
                     ELSE [user[u] EXCEPT !.pc = "compare"]
    OBVIOUS
  <2>7. Client!Goes(u, r)
    BY <1>5, <2>6 DEF Client!Insert
  <2>8. /\ r \in CacheUser /\ r.bad = user[u].bad /\ r.item = user[u].item /\ r.read = user[u].read
        /\ r.pc \in {"idle", "compare"} /\ (r.pc = "compare" => r.part # "none")
    BY <1>0, <2>6 DEF CacheUser
  <2>9. UserOk(r)
    BY <2>2, <2>8 DEF UserOk
  <2> QED
    BY <2>1, <2>2, <2>3, <2>5, <2>7, <2>8, <2>9, QuietStep
<1>6. ASSUME NEW u \in Users, Client!AddEdge(u) PROVE CacheInv'
  <2>1. /\ user[u].pc = "idle" /\ items' = items /\ past' = past
        /\ cache' = cache /\ pending' = pending /\ drained' = drained /\ mismatches' = mismatches
    BY <1>6 DEF Client!AddEdge
  <2> DEFINE Said(b, k) == IF ~Client!Exists(b) \/ ~Client!Exists(k) THEN "noItem"
                           ELSE IF <<b, k>> \in cacheEdges THEN "duplicate" ELSE "ok"
  <2>2. PICK b \in Client!ItemIds, k \in Client!ItemIds :
          /\ Client!Goes(u, [Client!Quiet EXCEPT !.result = Said(b, k)])
          /\ cacheEdges' = IF Said(b, k) = "ok" THEN cacheEdges \cup {<<b, k>>} ELSE cacheEdges
    BY <1>6 DEF Client!AddEdge
  <2>3. PICK said : said = Said(b, k)
    OBVIOUS
  <2>a. said \in CacheReplies
    BY <2>3 DEF CacheReplies
  <2> HIDE DEF Said
  <2>4. PICK r : r = [Client!Quiet EXCEPT !.result = said]
    OBVIOUS
  <2>5. r \in CacheUser /\ UserOk(r) /\ user[u].bad = {} /\ r.pc = "idle"
    <3>1. PICK q : q = Client!Quiet
      OBVIOUS
    <3>2. q \in CacheUser /\ q.item = 1
      BY <3>1, QuietUser DEF Client!Quiet
    <3>3. [q EXCEPT !.result = said] = [q EXCEPT !.item = 1, !.result = said]
      BY <3>2 DEF CacheUser
    <3>4. r = [Client!Quiet EXCEPT !.item = 1, !.result = said]
      BY <2>4, <3>1, <3>3
    <3> QED
      BY <1>i, <2>1, <2>a, <3>4, RefusedCall
  <2>6. \A e \in cacheEdges' : e \in cacheEdges \/ (/\ e \in Client!ItemIds \X Client!ItemIds
                                                    /\ Client!Exists(e[1]) /\ Client!Exists(e[2]))
    BY <2>2 DEF Said
  <2>7. Client!Goes(u, r)
    BY <2>2, <2>3, <2>4
  <2> QED
    BY <2>1, <2>5, <2>6, <2>7, EdgeStep
<1>7. ASSUME NEW u \in Users, Client!RemoveEdge(u) \/ Client!AddReference(u) PROVE CacheInv'
  <2>1. /\ items' = items /\ past' = past /\ cache' = cache /\ pending' = pending
        /\ drained' = drained /\ mismatches' = mismatches /\ user' = user
        /\ cacheEdges' \subseteq cacheEdges
    BY <1>7 DEF Client!RemoveEdge, Client!AddReference
  <2> QED
    BY <2>1, EdgeStep
<1>8. ASSUME Client!DrainEvents PROVE CacheInv'
  <2>1. /\ items' = items /\ past' = past /\ cache' = cache /\ cacheEdges' = cacheEdges
        /\ mismatches' = mismatches /\ user' = user /\ pending' = {}
        /\ drained' = drained + Cardinality(pending)
    BY <1>8, ClientCounts DEF Client!DrainEvents, Client!provider
  <2>2. CacheTypes' /\ CopiesHad' /\ \A v \in Users : UserOk(user[v])'
    BY <1>0, <2>1 DEF CacheTypes, CopiesHad, HadOnce, Client!Exists
  <2>3. IsFiniteSet({}) /\ Cardinality({}) = 0
    BY FS_EmptySet
  <2>4. Cardinality(pending) \in Nat /\ Cardinality(OpenOf(user)) \in Nat /\ drained \in Nat
    BY <1>0, FS_CardinalityType, OpenFinite DEF Accounted
  <2>5. Accounted'
    BY <1>0, <2>1, <2>3, <2>4 DEF Accounted
  <2> QED
    BY <2>2, <2>5 DEF CacheInv
<1>9. ASSUME Client!BoardEdit PROVE CacheInv'
  <2>1. /\ cacheEdges' = cacheEdges /\ cache' = cache /\ pending' = pending /\ drained' = drained
        /\ mismatches' = mismatches /\ user' = user
    BY <1>9 DEF Client!BoardEdit
  <2>2. PICK i \in Client!ItemIds, p \in {"status", "field", "body"}, v \in Contents :
          Client!Exists(i) /\ Client!Puts(i, Client!Written(items[i], p, v))
    BY <1>9 DEF Client!BoardEdit
  <2>3. items[i] \in Copies /\ items[i] # Client!Absent
    BY <1>c, <2>2 DEF Client!Exists
  <2>4. Client!Written(items[i], p, v) \in Copies /\ Client!Written(items[i], p, v) # Client!Absent
    BY <2>3, WrittenIs
  <2> QED
    BY <2>1, <2>2, <2>4, BoardStep
<1>10. ASSUME UNCHANGED Client!cacheVars PROVE CacheInv'
  BY <1>10, EdgeStep DEF Client!cacheVars
<1> QED
  BY <1>1, <1>2, <1>3, <1>4, <1>5, <1>6, <1>7, <1>8, <1>9, <1>10, CompareStep, DivergenceStep
     DEF Client!CacheNext

LEMMA CacheInitially ==
  ASSUME Client!CacheInit
  PROVE  CacheInv
<1>1. /\ items = [i \in Client!ItemIds |-> IF i = 1 THEN Client!Blank ELSE Client!Absent]
      /\ cacheEdges = {} /\ cache = [i \in Client!ItemIds |-> Client!Absent] /\ pending = {}
      /\ drained = 0 /\ user = [u \in Users |-> Client!Quiet]
      /\ past = {<<1, Client!Blank>>} /\ mismatches = 0
  BY DEF Client!CacheInit
<1>2. Client!Blank \in Copies /\ Client!Absent \in Copies
  BY DEF Client!Blank, Client!Absent, Client!Copy, Copies, BoardWords
<1>3. CacheTypes
  BY <1>1, <1>2, QuietUser DEF CacheTypes
<1>4. \A u \in Users : user[u] = Client!Quiet /\ user[u].pc = "idle" /\ user[u].bad = {}
  BY <1>1 DEF Client!Quiet
<1>5. CopiesHad
  BY <1>1, <1>4 DEF CopiesHad, HadOnce, Client!Exists
<1>6. OpenOf(user) = {}
  BY <1>4 DEF OpenOf
<1>7. Accounted
  BY <1>1, <1>6, FS_EmptySet DEF Accounted
<1> QED
  BY <1>3, <1>4, <1>5, <1>7, QuietUser DEF CacheInv

LEMMA CacheIsHonest ==
  ASSUME CacheInv
  PROVE  Client!DivergenceReported
<1>1. \A u \in Users : user[u].pc \in {"idle", "fetch", "insert", "compare"} => user[u].bad = {}
  BY DEF CacheInv, UserOk
<1>2. mismatches = drained + Client!Cardinality(pending)
        + Client!Cardinality({q \in Users \X {"status", "field", "title", "body"} : q[2] \in user[q[1]].bad})
  <2>1. OpenOf(user) = {q \in Users \X {"status", "field", "title", "body"} : q[2] \in user[q[1]].bad}
    BY DEF OpenOf, Parts
  <2>2. mismatches = drained + Cardinality(pending) + Cardinality(OpenOf(user))
    BY DEF CacheInv, Accounted
  <2>3. Client!Cardinality(pending) = Cardinality(pending)
    BY ClientCounts
  <2>4. Client!Cardinality(OpenOf(user)) = Cardinality(OpenOf(user))
    BY ClientCounts
  <2> QED
    BY <2>1, <2>2, <2>3, <2>4
<1>3. \A i \in Client!ItemIds : cache[i] # Client!Absent => <<i, cache[i]>> \in past
  BY DEF CacheInv, CopiesHad, HadOnce
<1>4. \A e \in cacheEdges : Client!Exists(e[1]) /\ Client!Exists(e[2])
  BY DEF CacheInv, CopiesHad
<1> QED
  BY <1>1, <1>2, <1>3, <1>4 DEF Client!DivergenceReported

-----------------------------------------------------------------------------
(***************************************************************************)
(* The provider proxy.                                                     *)
(***************************************************************************)

StreamEvent == [kind : {"text", "call", "usage", "completed"}, at : Nat, garbled : BOOLEAN]
StreamTexts == {"text", "wide"}

(* The events given out for the places lo .. hi of a stream: in order, each *)
(* of the place it names, and garbled only in the middle of a character.    *)
StreamFits(ev, s, lo, hi) ==
  /\ ev \in Seq(StreamEvent)
  /\ \A i \in 1 .. Len(ev) :
       /\ ev[i].at \in lo .. hi
       /\ ev[i].kind = "text" => s[ev[i].at] \in StreamTexts
       /\ ev[i].kind = "text" /\ ev[i].garbled => s[ev[i].at] = "wide"
  /\ \A i, j \in 1 .. Len(ev) : i < j => ev[i].at < ev[j].at

(* No text at these places is missing. *)
StreamCovers(ev, s, lo, hi) ==
  \A t \in lo .. hi : s[t] \in StreamTexts => \E i \in 1 .. Len(ev) : ev[i].kind = "text" /\ ev[i].at = t

LEMMA FitsTogether ==
  ASSUME NEW a, NEW b, NEW s, NEW lo \in Nat, NEW mid \in Nat, NEW hi \in Nat, lo <= mid + 1, mid <= hi,
         StreamFits(a, s, lo, mid), StreamFits(b, s, mid + 1, hi)
  PROVE  StreamFits(a \o b, s, lo, hi)
<1>0. a \in Seq(StreamEvent) /\ b \in Seq(StreamEvent)
  BY DEF StreamFits
<1>1. PICK c : c = a \o b
  OBVIOUS
<1>2. /\ c \in Seq(StreamEvent) /\ Len(c) = Len(a) + Len(b) /\ Len(a) \in Nat /\ Len(b) \in Nat
      /\ \A i \in 1 .. Len(c) : c[i] = IF i <= Len(a) THEN a[i] ELSE b[i - Len(a)]
  BY <1>0, <1>1
<1>3. ASSUME NEW i \in 1 .. Len(c), i <= Len(a)
      PROVE  c[i] = a[i] /\ i \in 1 .. Len(a) /\ c[i].at \in lo .. mid
  BY <1>2, <1>3 DEF StreamFits
<1>4. ASSUME NEW i \in 1 .. Len(c), ~(i <= Len(a))
      PROVE  c[i] = b[i - Len(a)] /\ i - Len(a) \in 1 .. Len(b) /\ c[i].at \in mid + 1 .. hi
  <2>1. i - Len(a) \in 1 .. Len(b) /\ c[i] = b[i - Len(a)]
    BY <1>2, <1>4
  <2>2. \A k \in 1 .. Len(b) : b[k].at \in mid + 1 .. hi
    BY DEF StreamFits
  <2> QED
    BY <2>1, <2>2
<1>5. \A i \in 1 .. Len(c) : c[i].at \in lo .. hi
  BY <1>3, <1>4
<1>6. ASSUME NEW i \in 1 .. Len(c)
      PROVE  /\ c[i].kind = "text" => s[c[i].at] \in StreamTexts
             /\ c[i].kind = "text" /\ c[i].garbled => s[c[i].at] = "wide"
  <2>1. CASE i <= Len(a)
    BY <1>3, <2>1 DEF StreamFits
  <2>2. CASE ~(i <= Len(a))
    <3>1. PICK k \in 1 .. Len(b) : c[i] = b[k]
      BY <1>4, <2>2
    <3> QED
      BY <3>1 DEF StreamFits
  <2> QED
    BY <2>1, <2>2
<1>7. ASSUME NEW i \in 1 .. Len(c), NEW j \in 1 .. Len(c), i < j
      PROVE  c[i].at < c[j].at
  <2>0. /\ \A k, l \in 1 .. Len(a) : k < l => a[k].at < a[l].at
        /\ \A k, l \in 1 .. Len(b) : k < l => b[k].at < b[l].at
    BY DEF StreamFits
  <2>1. CASE j <= Len(a)
    <3>1. i <= Len(a)
      BY <1>2, <1>7, <2>1
    <3> QED
      BY <1>3, <1>7, <2>0, <2>1, <3>1
  <2>2. CASE ~(j <= Len(a)) /\ i <= Len(a)
    <3>1. c[i].at \in lo .. mid /\ c[j].at \in mid + 1 .. hi
      BY <1>3, <1>4, <2>2
    <3> QED
      BY <3>1
  <2>3. CASE ~(j <= Len(a)) /\ ~(i <= Len(a))
    <3>1. /\ c[i] = b[i - Len(a)] /\ i - Len(a) \in 1 .. Len(b)
          /\ c[j] = b[j - Len(a)] /\ j - Len(a) \in 1 .. Len(b)
      BY <1>4, <2>3
    <3>2. i - Len(a) < j - Len(a)
      BY <1>2, <1>7
    <3> QED
      BY <2>0, <3>1, <3>2
  <2> QED
    BY <2>1, <2>2, <2>3
<1> QED
  BY <1>1, <1>2, <1>5, <1>6, <1>7 DEF StreamFits

LEMMA CoversTogether ==
  ASSUME NEW a \in Seq(StreamEvent), NEW b \in Seq(StreamEvent), NEW s, NEW lo \in Nat, NEW mid \in Nat, NEW hi \in Nat,
         StreamCovers(a, s, lo, mid), StreamCovers(b, s, mid + 1, hi)
  PROVE  StreamCovers(a \o b, s, lo, hi)
<1>1. PICK c : c = a \o b
  OBVIOUS
<1>2. /\ Len(c) = Len(a) + Len(b) /\ Len(a) \in Nat /\ Len(b) \in Nat
      /\ \A i \in 1 .. Len(c) : c[i] = IF i <= Len(a) THEN a[i] ELSE b[i - Len(a)]
  BY <1>1
<1>3. SUFFICES ASSUME NEW t \in lo .. hi, s[t] \in StreamTexts
               PROVE  \E i \in 1 .. Len(c) : c[i].kind = "text" /\ c[i].at = t
  BY <1>1 DEF StreamCovers
<1>4. CASE t <= mid
  <2>1. PICK i \in 1 .. Len(a) : a[i].kind = "text" /\ a[i].at = t
    BY <1>3, <1>4 DEF StreamCovers
  <2>2. i \in 1 .. Len(c) /\ c[i] = a[i]
    BY <1>2
  <2> QED
    BY <2>1, <2>2
<1>5. CASE ~(t <= mid)
  <2>1. t \in mid + 1 .. hi
    BY <1>5
  <2>2. PICK i \in 1 .. Len(b) : b[i].kind = "text" /\ b[i].at = t
    BY <1>3, <2>1 DEF StreamCovers
  <2>3. PICK k : k = i + Len(a)
    OBVIOUS
  <2>4. k \in 1 .. Len(c) /\ c[k] = b[i]
    BY <1>2, <2>3
  <2> QED
    BY <2>2, <2>4
<1> QED
  BY <1>4, <1>5

(* What came before stays what it was when the stream goes on. *)
LEMMA StreamGoesOn ==
  ASSUME NEW ev, NEW s, NEW r, NEW hi \in Nat, \A t \in 1 .. hi : r[t] = s[t]
  PROVE  /\ StreamFits(ev, s, 1, hi) => StreamFits(ev, r, 1, hi)
         /\ \A d \in 1 .. hi : StreamCovers(ev, s, 1, d) => StreamCovers(ev, r, 1, d)
         /\ StreamCovers(ev, s, 1, hi) => StreamCovers(ev, r, 1, hi)
<1>1. StreamFits(ev, s, 1, hi) => StreamFits(ev, r, 1, hi)
  BY DEF StreamFits
<1>2. ASSUME NEW d \in 0 .. hi, StreamCovers(ev, s, 1, d) PROVE StreamCovers(ev, r, 1, d)
  BY <1>2 DEF StreamCovers
<1> QED
  BY <1>1, <1>2

(* One place of the stream, or none. *)
LEMMA GivenFits ==
  ASSUME NEW s \in Seq(Proxy!Kinds), NEW to \in Nat, NEW i \in Nat, 1 <= i, to <= Len(s),
         NEW lo \in Nat, NEW hi \in Nat,
         (i <= to /\ lo = i /\ hi = i) \/ (i > to /\ lo = hi + 1),
         i <= to => ((i = Len(sent) /\ part.cut # "none" /\ part.garbled) => s[i] = "wide")
  PROVE  StreamFits(Proxy!Given(s, to, i), s, lo, hi) /\ StreamCovers(Proxy!Given(s, to, i), s, lo, hi)
<1>1. CASE i > to
  <2>1. Proxy!Given(s, to, i) = <<>>
    BY <1>1 DEF Proxy!Given
  <2>2. <<>> \in Seq(StreamEvent) /\ Len(<<>>) = 0
    OBVIOUS
  <2>3. lo .. hi = {}
    BY <1>1
  <2> QED
    BY <2>1, <2>2, <2>3 DEF StreamFits, StreamCovers
<1>2. CASE i <= to
  <2>0. lo = i /\ hi = i /\ i \in 1 .. Len(s) /\ s[i] \in Proxy!Kinds
    BY <1>2
  <2>1. PICK g : g = (i = Len(sent) /\ part.cut # "none" /\ part.garbled)
    OBVIOUS
  <2>2. g \in BOOLEAN /\ (g => s[i] = "wide")
    BY <1>2, <2>1
  <2>3. Proxy!Given(s, to, i) = Proxy!Decoded(s[i], i, g)
    <3>1. ~(i > to)
      BY <1>2
    <3> QED
      BY <2>1, <3>1, Zenon DEF Proxy!Given
  <2>4. ASSUME NEW e \in StreamEvent, e.at = i, e.kind = "text" => s[i] \in StreamTexts,
               e.kind = "text" /\ e.garbled => s[i] = "wide", s[i] \in StreamTexts => e.kind = "text"
        PROVE  StreamFits(<<e>>, s, i, i) /\ StreamCovers(<<e>>, s, i, i)
    <3>1. <<e>> \in Seq(StreamEvent) /\ Len(<<e>>) = 1 /\ <<e>>[1] = e
      OBVIOUS
    <3> QED
      BY <2>4, <3>1 DEF StreamFits, StreamCovers
  <2>5. CASE s[i] \in {"text", "wide"}
    <3>1. PICK e : e = Proxy!Event("text", i, g)
      OBVIOUS
    <3>2. e \in StreamEvent /\ e.at = i /\ e.kind = "text" /\ e.garbled = g
      BY <2>2, <3>1 DEF Proxy!Event, StreamEvent
    <3>3. Proxy!Given(s, to, i) = <<e>>
      BY <2>3, <2>5, <3>1 DEF Proxy!Decoded
    <3> QED
      BY <2>0, <2>2, <2>4, <2>5, <3>2, <3>3 DEF StreamTexts
  <2>6. CASE s[i] \in {"call", "callHead", "usage", "done"}
    <3>1. PICK k \in {"call", "usage", "completed"}, b \in BOOLEAN :
            Proxy!Given(s, to, i) = <<Proxy!Event(k, i, b)>>
      BY <2>3, <2>6 DEF Proxy!Decoded
    <3>2. PICK e : e = Proxy!Event(k, i, b)
      OBVIOUS
    <3>3. e \in StreamEvent /\ e.at = i /\ e.kind # "text"
      BY <3>2 DEF Proxy!Event, StreamEvent
    <3>4. s[i] \notin StreamTexts
      BY <2>6 DEF StreamTexts
    <3> QED
      BY <2>0, <2>4, <3>1, <3>2, <3>3, <3>4
  <2>7. CASE s[i] \in {"callRest", "junk", "comment"}
    <3>1. Proxy!Given(s, to, i) = <<>>
      BY <2>3, <2>7 DEF Proxy!Decoded
    <3>2. <<>> \in Seq(StreamEvent) /\ Len(<<>>) = 0 /\ s[i] \notin StreamTexts
      BY <2>7 DEF StreamTexts
    <3> QED
      BY <2>0, <3>1, <3>2 DEF StreamFits, StreamCovers
  <2> QED
    BY <2>0, <2>5, <2>6, <2>7 DEF Proxy!Kinds
<1> QED
  BY <1>1, <1>2

LEMMA ParsedFits ==
  ASSUME NEW s \in Seq(Proxy!Kinds), NEW n \in Nat, NEW to \in Nat, n <= to, to <= n + 3, to <= Len(s),
         \A i \in n + 1 .. to : (i = Len(sent) /\ part.cut # "none" /\ part.garbled) => s[i] = "wide"
  PROVE  /\ StreamFits(Proxy!Parsed(s, n + 1, to), s, n + 1, to)
         /\ StreamCovers(Proxy!Parsed(s, n + 1, to), s, n + 1, to)
<1>1. PICK h : h = IF n + 1 <= to THEN n + 1 ELSE to
  OBVIOUS
<1>2. PICK g : g = IF n + 2 <= to THEN n + 2 ELSE to
  OBVIOUS
<1>3. h \in Nat /\ g \in Nat /\ n + 1 <= h + 1 /\ h <= g /\ g <= to /\ n + 1 \in Nat /\ n + 2 \in Nat /\ n + 3 \in Nat
  BY <1>1, <1>2
<1> DEFINE A == Proxy!Given(s, to, n + 1)
           B == Proxy!Given(s, to, n + 2)
           C == Proxy!Given(s, to, n + 3)
<1>4. StreamFits(A, s, n + 1, h) /\ StreamCovers(A, s, n + 1, h)
  <2>1. PICK i \in Nat : i = n + 1
    BY <1>3
  <2>2. (i <= to /\ i = i /\ h = i) \/ (i > to /\ i = h + 1)
    BY <1>1, <2>1
  <2>3. 1 <= i /\ (i <= to => i \in n + 1 .. to)
    BY <2>1
  <2> QED
    BY <1>3, <2>1, <2>2, <2>3, GivenFits
<1>5. StreamFits(B, s, h + 1, g) /\ StreamCovers(B, s, h + 1, g)
  <2>1. PICK i \in Nat, lo \in Nat : i = n + 2 /\ lo = h + 1
    BY <1>3
  <2>2. (i <= to /\ lo = i /\ g = i) \/ (i > to /\ lo = g + 1)
    BY <1>1, <1>2, <2>1
  <2>3. 1 <= i /\ (i <= to => i \in n + 1 .. to)
    BY <2>1
  <2> QED
    BY <1>3, <2>1, <2>2, <2>3, GivenFits
<1>6. StreamFits(C, s, g + 1, to) /\ StreamCovers(C, s, g + 1, to)
  <2>1. PICK i \in Nat, lo \in Nat : i = n + 3 /\ lo = g + 1
    BY <1>3
  <2>2. (i <= to /\ lo = i /\ to = i) \/ (i > to /\ lo = to + 1)
    BY <1>2, <2>1
  <2>3. 1 <= i /\ (i <= to => i \in n + 1 .. to)
    BY <2>1
  <2> QED
    BY <1>3, <2>1, <2>2, <2>3, GivenFits
<1>7. A \in Seq(StreamEvent) /\ B \in Seq(StreamEvent) /\ C \in Seq(StreamEvent)
  BY <1>4, <1>5, <1>6 DEF StreamFits
<1>8. Proxy!Parsed(s, n + 1, to) = (A \o B) \o C
  <2>1. (n + 1) + 1 = n + 2 /\ (n + 1) + 2 = n + 3
    OBVIOUS
  <2> QED
    BY <2>1 DEF Proxy!Parsed
<1> HIDE DEF A, B, C
<1>9. StreamFits(A \o B, s, n + 1, g) /\ StreamCovers(A \o B, s, n + 1, g)
  BY <1>3, <1>4, <1>5, <1>7, FitsTogether, CoversTogether
<1>10. A \o B \in Seq(StreamEvent)
  BY <1>7
<1>11. n + 1 <= g + 1
  BY <1>3
<1> QED
  BY <1>3, <1>6, <1>7, <1>8, <1>9, <1>10, <1>11, FitsTogether, CoversTogether

StreamParts == [cut : {"none", "prefix", "cut", "undelimited"}, garbled : BOOLEAN]
StreamWhole(s, p) == IF p.cut = "none" THEN Len(s) ELSE Len(s) - 1
PartKnows(s, p) ==
  /\ p.cut # "none" => Len(s) >= 1
  /\ p.garbled => p.cut # "none" /\ s[Len(s)] = "wide"

ProxyTypes ==
  /\ sent \in Seq(Proxy!Kinds) /\ part \in StreamParts /\ PartKnows(sent, part)
  /\ parser.done \in BOOLEAN
  /\ pc \in {"idle", "sent", "streaming", "collected"}

(* Before the stream begins nothing has been sent or parsed. *)
ProxyRests == pc \in {"idle", "sent"} => sent = <<>> /\ part = Proxy!NoPart /\ parser = Proxy!Fresh

(* The parser has given out what is whole, at least up to the end. *)
UpToEnd(ev, s, n) == \E d \in 1 .. n : s[d] = "done" /\ StreamCovers(ev, s, 1, d)
ParserKeepsUp ==
  pc = "streaming" =>
    LET whole == StreamWhole(sent, part)
    IN  /\ StreamFits(parser.events, sent, 1, whole)
        /\ ~parser.done => StreamCovers(parser.events, sent, 1, whole)
        /\ parser.done => UpToEnd(parser.events, sent, whole)
(* Only the event of which no more than a part of its prefix came is lost. *)
Shown(s, p) == IF p.cut = "prefix" THEN Len(s) - 1 ELSE Len(s)
StreamCollected ==
  pc = "collected" =>
    /\ StreamFits(parser.events, sent, 1, Len(sent))
    /\ \/ StreamCovers(parser.events, sent, 1, Shown(sent, part))
       \/ UpToEnd(parser.events, sent, Len(sent))

ProxyAnswersListed == \E S : proxyAnswers \in Seq(S)
ProxyInv ==
  /\ ProxyTypes /\ ProxyRests /\ ParserKeepsUp /\ StreamCollected
  /\ ProxyAnswersListed /\ Proxy!ProxyHonest

(* What Proxy!ProxyHonest says of the answer a with the number n. *)
AnswerHonest(a, n) ==
  LET text == a.output.text
  IN  /\ \A i \in DOMAIN text :
           /\ text[i].at \in Proxy!Texts(a.sent)
           /\ \A j \in DOMAIN text : j < i => text[j].at < text[i].at
           /\ text[i].garbled => a.sent[text[i].at] = "wide"
      /\ (a.status = 200 /\ a.sent # <<>>) =>
           /\ \A i \in Proxy!Texts(a.sent) \cap Proxy!BeforeEnd(a.sent) :
                i < Len(a.sent) \/ a.cut # "prefix" => \E j \in DOMAIN text : text[j].at = i
           /\ {e \in ledger : e[1] = n} = {<<n, a.output.usage>>}
      /\ (a.status # 200 \/ a.sent = <<>>) => a.output = Proxy!NoOutput

LEMMA HonestByAnswer ==
  Proxy!ProxyHonest <=>
    /\ \A n \in 1 .. Len(proxyAnswers) : AnswerHonest(proxyAnswers[n], n)
    /\ \A e \in ledger : e[1] \in 1 .. Len(proxyAnswers) /\ proxyAnswers[e[1]].status = 200
BY Zenon DEF Proxy!ProxyHonest, AnswerHonest

(* Where nothing is answered or charged, what was answered stays honest. *)
LEMMA AnswersKept ==
  ASSUME ProxyAnswersListed, Proxy!ProxyHonest, proxyAnswers' = proxyAnswers, ledger' = ledger
  PROVE  ProxyAnswersListed' /\ Proxy!ProxyHonest'
<1>1. ProxyAnswersListed'
  BY DEF ProxyAnswersListed
<1>2. /\ \A k \in 1 .. Len(proxyAnswers) : AnswerHonest(proxyAnswers[k], k)
      /\ \A e \in ledger : e[1] \in 1 .. Len(proxyAnswers) /\ proxyAnswers[e[1]].status = 200
  BY HonestByAnswer
<1>3. ASSUME NEW k \in 1 .. Len(proxyAnswers') PROVE AnswerHonest(proxyAnswers[k], k)'
  <2>1. PICK b : b = proxyAnswers[k]
    OBVIOUS
  <2>2. AnswerHonest(b, k)
    BY <1>2, <2>1
  <2>3. AnswerHonest(b, k)'
    BY <2>2 DEF AnswerHonest
  <2> QED
    BY <2>1, <2>3, Zenon
<1>4. \A k \in 1 .. Len(proxyAnswers') : AnswerHonest(proxyAnswers[k], k)'
  BY <1>3, Zenon
<1>5. \A e \in ledger' : e[1] \in 1 .. Len(proxyAnswers') /\ proxyAnswers'[e[1]].status = 200
  BY <1>2
<1>6. Proxy!ProxyHonest'
  BY <1>4, <1>5, Zenon DEF Proxy!ProxyHonest, AnswerHonest
<1> QED
  BY <1>1, <1>6

(* An answer that is honest itself keeps all of them so. *)
LEMMA AnsweredStep ==
  ASSUME ProxyInv, NEW status, NEW output, Proxy!Answer(status, output),
         NEW n, n = Len(proxyAnswers) + 1, NEW a, a = [status |-> status, output |-> output, sent |-> sent, cut |-> part.cut],
         AnswerHonest(a, n)',
         \/ ledger' = ledger
         \/ status = 200 /\ \E u : ledger' = ledger \cup {<<n, u>>}
  PROVE  ProxyInv'
<1>1. PICK S : proxyAnswers \in Seq(S)
  BY DEF ProxyInv, ProxyAnswersListed
<1>2. /\ proxyAnswers' = Append(proxyAnswers, a)
      /\ pc' = "idle" /\ sent' = <<>> /\ part' = Proxy!NoPart /\ parser' = Proxy!Fresh
  BY DEF Proxy!Answer
<1>3. PICK T : T = S \cup {a}
  OBVIOUS
<1>4. proxyAnswers \in Seq(T) /\ a \in T
  <2>1. \A i \in 1 .. Len(proxyAnswers) : proxyAnswers[i] \in T
    BY <1>1, <1>3
  <2>2. proxyAnswers = [i \in 1 .. Len(proxyAnswers) |-> proxyAnswers[i]] /\ Len(proxyAnswers) \in Nat
    BY <1>1
  <2>3. proxyAnswers \in [1 .. Len(proxyAnswers) -> T]
    BY <2>1, <2>2
  <2> QED
    BY <1>3, <2>2, <2>3
<1>5. /\ proxyAnswers' \in Seq(T) /\ Len(proxyAnswers) \in Nat /\ Len(proxyAnswers') = n
      /\ \A i \in 1 .. Len(proxyAnswers) : proxyAnswers'[i] = proxyAnswers[i]
      /\ proxyAnswers'[n] = a
  BY <1>2, <1>4
<1>6. /\ \A k \in 1 .. Len(proxyAnswers) : AnswerHonest(proxyAnswers[k], k)
      /\ \A e \in ledger : e[1] \in 1 .. Len(proxyAnswers) /\ proxyAnswers[e[1]].status = 200
  BY HonestByAnswer DEF ProxyInv
<1>7. a.status = status
  OBVIOUS
<1>8. \A e \in ledger' : e[1] \in 1 .. n /\ proxyAnswers'[e[1]].status = 200
  BY <1>5, <1>6, <1>7
<1>9. ASSUME NEW k \in 1 .. Len(proxyAnswers)
      PROVE  AnswerHonest(proxyAnswers[k], k)'
  <2>1. {e \in ledger' : e[1] = k} = {e \in ledger : e[1] = k}
    <3>1. k # n
      BY <1>5
    <3>2. \A u : <<n, u>>[1] = n
      OBVIOUS
    <3> QED
      BY <3>1, <3>2
  <2>2. PICK b : b = proxyAnswers[k]
    OBVIOUS
  <2>3. proxyAnswers'[k] = b /\ AnswerHonest(b, k)
    BY <1>5, <1>6, <2>2
  <2>4. AnswerHonest(b, k)'
    BY <2>1, <2>3 DEF AnswerHonest
  <2> QED
    BY <2>3, <2>4, Zenon
<1>10. \A k \in 1 .. n : k \in 1 .. Len(proxyAnswers) \/ k = n
  BY <1>5
<1>11. AnswerHonest(proxyAnswers[n], n)'
  BY <1>5
<1>12. \A k \in 1 .. Len(proxyAnswers') : AnswerHonest(proxyAnswers[k], k)'
  BY <1>5, <1>9, <1>10, <1>11, Zenon
<1>13. Proxy!ProxyHonest'
  <2>1. \A e \in ledger' : e[1] \in 1 .. Len(proxyAnswers') /\ proxyAnswers'[e[1]].status = 200
    BY <1>5, <1>8
  <2> QED
    BY <1>12, <2>1, Zenon DEF Proxy!ProxyHonest, AnswerHonest
<1>14. ProxyTypes'
  BY <1>2 DEF ProxyTypes, Proxy!NoPart, Proxy!Fresh, StreamParts, PartKnows
<1>15. ProxyRests' /\ ParserKeepsUp' /\ StreamCollected'
  BY <1>2 DEF ProxyRests, ParserKeepsUp, StreamCollected
<1>16. ProxyAnswersListed'
  BY <1>5 DEF ProxyAnswersListed
<1> QED
  BY <1>13, <1>14, <1>15, <1>16 DEF ProxyInv

LEMMA EmptyOutput ==
  /\ DOMAIN Proxy!NoOutput.text = {}
  /\ Proxy!NoOutput.text = <<>> /\ Proxy!NoOutput.usage = 0
BY DEF Proxy!NoOutput

(* A refusal, or a failure of the transport, shows and charges nothing. *)
LEMMA RefusedStep ==
  ASSUME ProxyInv, NEW status, status # 200 \/ sent = <<>>,
         Proxy!Answer(status, Proxy!NoOutput), ledger' = ledger
  PROVE  ProxyInv'
<1>1. PICK n : n = Len(proxyAnswers) + 1
  OBVIOUS
<1>2. PICK output : output = Proxy!NoOutput
  OBVIOUS
<1>3. PICK a : a = [status |-> status, output |-> output, sent |-> sent, cut |-> part.cut]
  OBVIOUS
<1>4. a.status = status /\ a.output = Proxy!NoOutput /\ a.sent = sent /\ DOMAIN a.output.text = {}
  BY <1>2, <1>3, EmptyOutput
<1>5. AnswerHonest(a, n)'
  BY <1>4 DEF AnswerHonest
<1>6. Proxy!Answer(status, output)
  BY <1>2
<1> QED
  BY <1>1, <1>3, <1>5, <1>6, AnsweredStep

(* A chunk, whatever it ends, brings and cuts. *)
LEMMA FeedStep ==
  ASSUME ProxyInv, pc = "streaming", NEW s \in Seq(Proxy!Kinds), NEW p \in StreamParts,
         Len(sent) <= Len(s), Len(s) <= Len(sent) + 2, \A t \in 1 .. Len(sent) : s[t] = sent[t],
         StreamWhole(sent, part) <= StreamWhole(s, p), PartKnows(s, p), Proxy!Feed(s, p),
         pc' = pc, proxyAnswers' = proxyAnswers, ledger' = ledger
  PROVE  ProxyInv'
<1>0. /\ sent \in Seq(Proxy!Kinds) /\ part \in StreamParts /\ PartKnows(sent, part)
      /\ parser.done \in BOOLEAN
  BY DEF ProxyInv, ProxyTypes
<1>1. PICK n : n = StreamWhole(sent, part)
  OBVIOUS
<1>2. PICK m : m = StreamWhole(s, p)
  OBVIOUS
<1>3. /\ n \in Nat /\ m \in Nat /\ n <= m /\ m <= n + 3 /\ m <= Len(s) /\ n <= Len(sent)
      /\ Len(s) \in Nat /\ Len(sent) \in Nat
  BY <1>0, <1>1, <1>2 DEF StreamWhole, PartKnows
<1>4. Proxy!FirstNew = n + 1
  BY <1>0, <1>1, <1>3 DEF Proxy!FirstNew, StreamWhole
<1>5. /\ sent' = s /\ part' = p
      /\ parser' = IF parser.done THEN parser
                   ELSE [events |-> parser.events \o Proxy!Parsed(s, n + 1, m),
                         done |-> Proxy!Has(s, n + 1, m, "done")]
  BY <1>2, <1>4 DEF Proxy!Feed, StreamWhole
<1>6. /\ StreamFits(parser.events, sent, 1, n)
      /\ ~parser.done => StreamCovers(parser.events, sent, 1, n)
      /\ parser.done => UpToEnd(parser.events, sent, n)
  BY <1>1 DEF ProxyInv, ParserKeepsUp
<1>7. \A t \in 1 .. n : s[t] = sent[t]
  BY <1>3
<1>8. /\ StreamFits(parser.events, s, 1, n)
      /\ ~parser.done => StreamCovers(parser.events, s, 1, n)
      /\ parser.done => UpToEnd(parser.events, s, n)
  BY <1>3, <1>6, <1>7, StreamGoesOn DEF UpToEnd
<1>9. /\ StreamFits(parser'.events, s, 1, m)
      /\ ~parser'.done => StreamCovers(parser'.events, s, 1, m)
      /\ parser'.done => UpToEnd(parser'.events, s, m)
      /\ parser'.done \in BOOLEAN
  <2>1. CASE parser.done
    <3>1. parser' = parser
      BY <1>5, <2>1
    <3>2. StreamFits(parser.events, s, 1, m)
      BY <1>3, <1>8 DEF StreamFits
    <3>3. UpToEnd(parser.events, s, m)
      BY <1>3, <1>8, <2>1 DEF UpToEnd
    <3> QED
      BY <1>0, <2>1, <3>1, <3>2, <3>3
  <2>2. CASE ~parser.done
    <3>1. PICK new : new = Proxy!Parsed(s, n + 1, m)
      OBVIOUS
    <3>2. PICK ev : ev = parser.events \o new
      OBVIOUS
    <3>3. parser'.events = ev /\ parser'.done = Proxy!Has(s, n + 1, m, "done")
      BY <1>5, <2>2, <3>1, <3>2
    <3>4. \A i \in n + 1 .. m : (i = Len(sent) /\ part.cut # "none" /\ part.garbled) => s[i] = "wide"
      BY <1>0, <1>3 DEF PartKnows
    <3>5. StreamFits(new, s, n + 1, m) /\ StreamCovers(new, s, n + 1, m)
      BY <1>3, <3>1, <3>4, ParsedFits
    <3>6. parser.events \in Seq(StreamEvent) /\ new \in Seq(StreamEvent)
      BY <1>8, <3>5 DEF StreamFits
    <3>7. StreamFits(ev, s, 1, m) /\ StreamCovers(ev, s, 1, m)
      BY <1>3, <1>8, <2>2, <3>2, <3>5, <3>6, FitsTogether, CoversTogether
    <3>8. Proxy!Has(s, n + 1, m, "done") => UpToEnd(ev, s, m)
      <4>1. SUFFICES ASSUME NEW d \in n + 1 .. m, s[d] = "done" PROVE UpToEnd(ev, s, m)
        BY DEF Proxy!Has
      <4>2. d \in 1 .. m /\ StreamCovers(ev, s, 1, d)
        BY <1>3, <3>7 DEF StreamCovers
      <4> QED
        BY <4>1, <4>2 DEF UpToEnd
    <3>9. Proxy!Has(s, n + 1, m, "done") \in BOOLEAN
      BY DEF Proxy!Has
    <3> QED
      BY <3>3, <3>7, <3>8, <3>9
  <2> QED
    BY <1>0, <2>1, <2>2
<1>10. ParserKeepsUp'
  BY <1>2, <1>5, <1>9 DEF ParserKeepsUp
<1>11. ProxyTypes' /\ ProxyRests' /\ StreamCollected'
  BY <1>5, <1>9 DEF ProxyTypes, ProxyRests, StreamCollected
<1>12. ProxyAnswersListed' /\ Proxy!ProxyHonest'
  BY AnswersKept DEF ProxyInv
<1> QED
  BY <1>10, <1>11, <1>12 DEF ProxyInv

(* The events of one chunk, and how it cuts the last one. *)
LEMMA OneOrTwo ==
  /\ \A k \in Proxy!Kinds : <<k>> \in Seq(Proxy!Kinds) /\ Len(<<k>>) \in 1 .. 2
  /\ \A k, l \in Proxy!Kinds : <<k, l>> \in Seq(Proxy!Kinds) /\ Len(<<k, l>>) \in 1 .. 2
OBVIOUS

LEMMA CutsKnown ==
  ASSUME NEW k, NEW p, p = Proxy!NoPart \/ p \in Proxy!Cuts(k)
  PROVE  p \in StreamParts /\ (p.garbled => p.cut # "none" /\ k = "wide")
<1>1. CASE p = Proxy!NoPart
  BY <1>1 DEF Proxy!NoPart, StreamParts
<1>2. CASE p \in Proxy!Cuts(k) /\ k = "wide"
  <2>1. p \in [cut : {"prefix", "cut", "undelimited"}, garbled : BOOLEAN]
    BY <1>2, Zenon DEF Proxy!Cuts
  <2> QED
    BY <1>2, <2>1 DEF StreamParts
<1>3. CASE p \in Proxy!Cuts(k) /\ k # "wide"
  <2>1. p \in [cut : {"prefix", "cut", "undelimited"}, garbled : {FALSE}]
    BY <1>3, Zenon DEF Proxy!Cuts
  <2> QED
    BY <2>1 DEF StreamParts
<1> QED
  BY <1>1, <1>2, <1>3

LEMMA ChunkFeeds ==
  ASSUME ProxyInv, pc = "streaming", NEW more \in Seq(Proxy!Kinds), Len(more) \in 1 .. 2, NEW p,
         p = Proxy!NoPart \/ p \in Proxy!Cuts(Proxy!Last(more)),
         Proxy!Feed(sent \o more, p), pc' = pc, proxyAnswers' = proxyAnswers, ledger' = ledger
  PROVE  ProxyInv'
<1>0. sent \in Seq(Proxy!Kinds) /\ PartKnows(sent, part) /\ part \in StreamParts
  BY DEF ProxyInv, ProxyTypes
<1>1. PICK k : k = Proxy!Last(more)
  OBVIOUS
<1>2. k = more[Len(more)]
  BY <1>1 DEF Proxy!Last
<1>3. p \in StreamParts /\ (p.garbled => p.cut # "none" /\ k = "wide")
  BY <1>1, CutsKnown
<1>4. PICK s : s = sent \o more
  OBVIOUS
<1>a. /\ s \in Seq(Proxy!Kinds) /\ Len(s) = Len(sent) + Len(more) /\ Len(sent) \in Nat
      /\ \A t \in 1 .. Len(s) : s[t] = IF t <= Len(sent) THEN sent[t] ELSE more[t - Len(sent)]
  BY <1>0, <1>4
<1>5. \A t \in 1 .. Len(sent) : s[t] = sent[t]
  BY <1>a
<1>b. PICK m \in 1 .. 2 : m = Len(more) /\ Len(s) = Len(sent) + m
  BY <1>a
<1>c. s[Len(s)] = k
  <2>1. Len(s) \in 1 .. Len(s) /\ ~(Len(s) <= Len(sent)) /\ Len(s) - Len(sent) = m
    BY <1>a, <1>b
  <2> QED
    BY <1>2, <1>a, <1>b, <2>1
<1>d. PartKnows(s, p)
  BY <1>3, <1>a, <1>b, <1>c DEF PartKnows
<1>6. StreamWhole(sent, part) <= StreamWhole(s, p)
  <2>1. PICK a \in Nat, b \in Nat : a = Len(sent) /\ b = Len(s) /\ a + 1 <= b
    BY <1>a, <1>b
  <2>2. StreamWhole(sent, part) = IF part.cut = "none" THEN a ELSE a - 1
    BY <2>1 DEF StreamWhole
  <2>3. StreamWhole(s, p) = IF p.cut = "none" THEN b ELSE b - 1
    BY <2>1 DEF StreamWhole
  <2> QED
    BY <2>1, <2>2, <2>3
<1>7. Len(sent) <= Len(s) /\ Len(s) <= Len(sent) + 2
  <2>1. PICK a \in Nat, b \in Nat : a = Len(sent) /\ b = Len(s) /\ b = a + m
    BY <1>a, <1>b
  <2>2. a <= b /\ b <= a + 2
    BY <2>1
  <2> QED
    BY <2>1, <2>2
<1>8. Proxy!Feed(s, p)
  BY <1>4
<1> QED
  BY <1>3, <1>a, <1>5, <1>d, <1>6, <1>7, <1>8, FeedStep

LEMMA ChunkStep ==
  ASSUME ProxyInv, Proxy!Chunk
  PROVE  ProxyInv'
<1>0. pc = "streaming" /\ ledger' = ledger
  BY DEF Proxy!Chunk
<1>1. PICK more :
        /\ (\E k \in Proxy!Kinds : more = <<k>>) \/ (\E k, l \in Proxy!Kinds : more = <<k, l>>)
        /\ \E p \in {Proxy!NoPart} \cup Proxy!Cuts(Proxy!Last(more)) :
             \/ Proxy!Answer(502, Proxy!NoOutput)
             \/ Proxy!Feed(sent \o more, p) /\ pc' = pc /\ proxyAnswers' = proxyAnswers
  BY DEF Proxy!Chunk
<1>2. more \in Seq(Proxy!Kinds) /\ Len(more) \in 1 .. 2
  BY <1>1, OneOrTwo
<1>3. PICK p :
        /\ p = Proxy!NoPart \/ p \in Proxy!Cuts(Proxy!Last(more))
        /\ \/ Proxy!Answer(502, Proxy!NoOutput)
           \/ Proxy!Feed(sent \o more, p) /\ pc' = pc /\ proxyAnswers' = proxyAnswers
  BY <1>1
<1>4. CASE Proxy!Answer(502, Proxy!NoOutput)
  BY <1>0, <1>4, RefusedStep
<1>5. CASE Proxy!Feed(sent \o more, p) /\ pc' = pc /\ proxyAnswers' = proxyAnswers
  BY <1>0, <1>2, <1>3, <1>5, ChunkFeeds
<1> QED
  BY <1>3, <1>4, <1>5

LEMMA RestStep ==
  ASSUME ProxyInv, Proxy!Rest
  PROVE  ProxyInv'
<1>0. sent \in Seq(Proxy!Kinds) /\ pc = "streaming" /\ ledger' = ledger /\ part.cut # "none" /\ part \in StreamParts
  BY DEF ProxyInv, ProxyTypes, Proxy!Rest
<1>1. CASE Proxy!Answer(502, Proxy!NoOutput)
  BY <1>0, <1>1, RefusedStep
<1>2. CASE Proxy!Feed(sent, Proxy!NoPart) /\ UNCHANGED <<request, pc, proxyAnswers>>
  <2>1. PICK p : p = Proxy!NoPart
    OBVIOUS
  <2>2. p \in StreamParts /\ p.cut = "none" /\ ~p.garbled
    BY <2>1 DEF Proxy!NoPart, StreamParts
  <2>3. PartKnows(sent, p) /\ StreamWhole(sent, part) <= StreamWhole(sent, p) /\ Len(sent) \in Nat
    BY <1>0, <2>2 DEF PartKnows, StreamWhole
  <2> QED
    BY <1>0, <1>2, <2>1, <2>2, <2>3, FeedStep
<1> QED
  BY <1>1, <1>2 DEF Proxy!Rest

(* The end of the connection: what is left in the buffer is decoded once more. *)
LEMMA EndStep ==
  ASSUME ProxyInv, Proxy!EndOfStream
  PROVE  ProxyInv'
<1>0. /\ sent \in Seq(Proxy!Kinds) /\ pc = "streaming" /\ ledger' = ledger /\ part \in StreamParts
      /\ PartKnows(sent, part) /\ parser.done \in BOOLEAN
  BY DEF ProxyInv, ProxyTypes, Proxy!EndOfStream
<1>1. CASE Proxy!Answer(502, Proxy!NoOutput)
  BY <1>0, <1>1, RefusedStep
<1>2. CASE /\ ~(~parser.done /\ ((part.cut = "cut" /\ Proxy!Last(sent) # "comment")
                                 \/ (part.cut = "undelimited" /\ Proxy!Last(sent) = "junk")))
           /\ parser' = [events |-> parser.events \o Proxy!Leftover, done |-> TRUE]
           /\ pc' = "collected" /\ UNCHANGED <<request, sent, part, proxyAnswers>>
  <2>0. pc' = "collected" /\ sent' = sent /\ part' = part /\ proxyAnswers' = proxyAnswers
    BY <1>2
  <2>1. PICK n : n = StreamWhole(sent, part)
    OBVIOUS
  <2>2. n \in Nat /\ Len(sent) \in Nat /\ n <= Len(sent) /\ Len(sent) <= n + 1
    BY <1>0, <2>1 DEF StreamWhole, PartKnows
  <2>3. /\ StreamFits(parser.events, sent, 1, n)
        /\ ~parser.done => StreamCovers(parser.events, sent, 1, n)
        /\ parser.done => UpToEnd(parser.events, sent, n)
    BY <1>0, <2>1 DEF ProxyInv, ParserKeepsUp
  <2>4. parser'.events = parser.events \o Proxy!Leftover /\ parser'.done = TRUE
    BY <1>2
  <2>5. parser.events \in Seq(StreamEvent)
    BY <2>3 DEF StreamFits
  <2>6. ASSUME Proxy!Leftover = <<>> PROVE StreamCollected'
    <3>1. parser'.events = parser.events
      BY <2>4, <2>5, <2>6
    <3>2. StreamFits(parser.events, sent, 1, Len(sent))
      BY <2>2, <2>3 DEF StreamFits
    <3>3. parser.done => UpToEnd(parser.events, sent, Len(sent))
      BY <2>2, <2>3 DEF UpToEnd
    <3>4. ASSUME ~parser.done PROVE StreamCovers(parser.events, sent, 1, Shown(sent, part))
      <4>1. CASE part.cut \in {"none", "prefix"}
        <5>1. n = Shown(sent, part)
          BY <2>1, <4>1 DEF StreamWhole, Shown
        <5> QED
          BY <2>3, <3>4, <5>1
      <4>2. CASE part.cut \notin {"none", "prefix"}
        <5>1. Shown(sent, part) = n + 1 /\ Len(sent) = n + 1 /\ Proxy!Last(sent) = sent[n + 1]
          BY <1>0, <2>1, <2>2, <4>2 DEF StreamWhole, PartKnows, Shown, Proxy!Last
        <5>2. sent[n + 1] \notin StreamTexts
          <6>1. SUFFICES ASSUME sent[n + 1] \in StreamTexts PROVE FALSE
            OBVIOUS
          <6>2. Proxy!Last(sent) \in {"text", "wide"} /\ Proxy!Last(sent) # "comment"
            BY <5>1, <6>1 DEF StreamTexts
          <6>3. Proxy!Leftover = Proxy!Decoded(Proxy!Last(sent), Len(sent), part.garbled)
            BY <3>4, <4>2, <6>2 DEF Proxy!Leftover
          <6>4. Proxy!Leftover = <<Proxy!Event("text", Len(sent), part.garbled)>>
            BY <6>2, <6>3, Zenon DEF Proxy!Decoded
          <6> QED
            BY <2>6, <6>4
        <5> QED
          BY <2>2, <2>3, <3>4, <5>1, <5>2 DEF StreamCovers
      <4> QED
        BY <4>1, <4>2
    <3> QED
      BY <1>0, <2>0, <3>1, <3>2, <3>3, <3>4 DEF StreamCollected
  <2>7. ASSUME Proxy!Leftover # <<>> PROVE StreamCollected'
    <3>1. ~parser.done /\ part.cut # "none" /\ Proxy!Leftover = Proxy!Decoded(Proxy!Last(sent), Len(sent), part.garbled)
      BY <2>7 DEF Proxy!Leftover
    <3>2. /\ n = Len(sent) - 1 /\ Len(sent) = n + 1 /\ Len(sent) >= 1
          /\ Proxy!Last(sent) = sent[Len(sent)]
      BY <1>0, <2>1, <2>2, <3>1 DEF StreamWhole, PartKnows, Proxy!Last
    <3>3. Proxy!Given(sent, Len(sent), Len(sent)) = Proxy!Decoded(sent[Len(sent)], Len(sent), part.garbled)
      <4>1. ~(Len(sent) > Len(sent))
        BY <2>2
      <4>2. (Len(sent) = Len(sent) /\ part.cut # "none" /\ part.garbled) = part.garbled
        BY <1>0, <3>1 DEF StreamParts
      <4> QED
        BY <4>1, <4>2, Zenon DEF Proxy!Given
    <3>4. PICK new : new = Proxy!Leftover
      OBVIOUS
    <3>5. new = Proxy!Given(sent, Len(sent), Len(sent))
      BY <3>1, <3>2, <3>3, <3>4
    <3>6. part.garbled => sent[Len(sent)] = "wide"
      BY <1>0 DEF PartKnows
    <3>7. StreamFits(new, sent, n + 1, Len(sent)) /\ StreamCovers(new, sent, n + 1, Len(sent))
      <4>1. PICK k \in Nat : k = Len(sent)
        BY <2>2
      <4>2. StreamFits(Proxy!Given(sent, k, k), sent, k, k) /\ StreamCovers(Proxy!Given(sent, k, k), sent, k, k)
        BY <1>0, <3>2, <3>6, <4>1, GivenFits
      <4> QED
        BY <3>2, <3>5, <4>1, <4>2
    <3>8. PICK ev : ev = parser.events \o new
      OBVIOUS
    <3>9. new \in Seq(StreamEvent)
      BY <3>7 DEF StreamFits
    <3>10. StreamFits(ev, sent, 1, Len(sent)) /\ StreamCovers(ev, sent, 1, Len(sent))
      BY <2>2, <2>3, <2>5, <3>1, <3>7, <3>8, <3>9, FitsTogether, CoversTogether
    <3>11. Shown(sent, part) = Len(sent)
      BY <2>7 DEF Proxy!Leftover, Shown
    <3>12. parser'.events = ev
      BY <2>4, <3>4, <3>8
    <3> QED
      BY <2>0, <3>10, <3>11, <3>12 DEF StreamCollected
  <2>8. ProxyTypes' /\ ProxyRests' /\ ParserKeepsUp'
    BY <1>0, <2>0, <2>4 DEF ProxyTypes, ProxyRests, ParserKeepsUp
  <2>9. ProxyAnswersListed' /\ Proxy!ProxyHonest'
    BY <1>0, <2>0, AnswersKept DEF ProxyInv
  <2> QED
    BY <2>6, <2>7, <2>8, <2>9 DEF ProxyInv
<1> QED
  BY <1>1, <1>2 DEF Proxy!EndOfStream

(* An answer that is not streamed comes whole, its end with it. *)
LEMMA WholeStep ==
  ASSUME ProxyInv, Proxy!WholeResponse
  PROVE  ProxyInv'
<1>0. /\ pc = "sent" /\ pc' = "collected" /\ part' = part /\ proxyAnswers' = proxyAnswers /\ ledger' = ledger
  BY DEF Proxy!WholeResponse
<1>1. sent = <<>> /\ part.cut = "none" /\ ~part.garbled /\ part \in StreamParts
  <2>1. sent = <<>> /\ part = Proxy!NoPart
    BY <1>0 DEF ProxyInv, ProxyRests
  <2> QED
    BY <2>1 DEF Proxy!NoPart, StreamParts
<1>2. PICK s :
        /\ s = <<>> \/ s = <<"text">> \/ s = <<"text", "usage">> \/ s = <<"call", "usage">>
        /\ sent' = Append(s, "done")
        /\ parser' = [events |-> Proxy!Parsed(Append(s, "done"), 1, Len(Append(s, "done"))), done |-> TRUE]
  BY DEF Proxy!WholeResponse
<1>3. PICK all : all = Append(s, "done")
  OBVIOUS
<1>4. all \in Seq(Proxy!Kinds) /\ Len(all) \in 1 .. 3
  <2>1. s \in Seq(Proxy!Kinds) /\ Len(s) \in 0 .. 2
    <3>1. "text" \in Proxy!Kinds /\ "usage" \in Proxy!Kinds /\ "call" \in Proxy!Kinds
      BY DEF Proxy!Kinds
    <3>2. CASE s = <<>>
      BY <3>2
    <3>3. CASE s = <<"text">>
      BY <3>1, <3>3
    <3>4. CASE s = <<"text", "usage">>
      BY <3>1, <3>4
    <3>5. CASE s = <<"call", "usage">>
      BY <3>1, <3>5
    <3> QED
      BY <1>2, <3>2, <3>3, <3>4, <3>5
  <2>2. "done" \in Proxy!Kinds
    BY DEF Proxy!Kinds
  <2> QED
    BY <1>3, <2>1, <2>2
<1>b. PICK to : to = Len(all)
  OBVIOUS
<1>5. to \in Nat /\ to = Len(all) /\ to <= 3
  BY <1>4, <1>b
<1>6. PICK ev : ev = Proxy!Parsed(all, 1, to)
  OBVIOUS
<1>7. sent' = all /\ parser'.events = ev /\ parser'.done = TRUE
  BY <1>2, <1>3, <1>5, <1>6
<1>8. StreamFits(ev, all, 1, to) /\ StreamCovers(ev, all, 1, to)
  <2>1. 0 + 1 = 1 /\ 0 \in Nat /\ 0 <= to /\ to <= 0 + 3
    BY <1>5
  <2>2. \A i \in 0 + 1 .. to : (i = Len(sent) /\ part.cut # "none" /\ part.garbled) => all[i] = "wide"
    BY <1>1
  <2>3. StreamFits(Proxy!Parsed(all, 0 + 1, to), all, 0 + 1, to) /\ StreamCovers(Proxy!Parsed(all, 0 + 1, to), all, 0 + 1, to)
    BY <1>4, <1>5, <2>1, <2>2, ParsedFits
  <2> QED
    BY <1>6, <2>1, <2>3
<1>9. Shown(all, part) = to
  BY <1>1, <1>5 DEF Shown
<1>10. StreamCollected'
  BY <1>0, <1>5, <1>7, <1>8, <1>9 DEF StreamCollected
<1>11. ProxyTypes'
  <2>1. PartKnows(all, part)
    BY <1>1 DEF PartKnows
  <2> QED
    BY <1>0, <1>1, <1>4, <1>7, <2>1 DEF ProxyTypes
<1>12. ProxyRests' /\ ParserKeepsUp'
  BY <1>0 DEF ProxyRests, ParserKeepsUp
<1>13. ProxyAnswersListed' /\ Proxy!ProxyHonest'
  BY <1>0, AnswersKept DEF ProxyInv
<1> QED
  BY <1>10, <1>11, <1>12, <1>13 DEF ProxyInv

LEMMA ProxyCounts == \A S : Proxy!Cardinality(S) = Cardinality(S)
BY DEF Proxy!Cardinality, Cardinality

(* What a completion shows of the events that were collected. *)
LEMMA OutputShows ==
  ASSUME NEW ev \in Seq(StreamEvent), NEW output, output = Proxy!Output(ev)
  PROVE  /\ DOMAIN output.text = {i \in 1 .. Len(ev) : ev[i].kind = "text"}
         /\ \A i \in DOMAIN output.text : output.text[i] = ev[i]
         /\ Len(ev) = 0 => output = Proxy!NoOutput
<1>1. PICK D : D = {i \in 1 .. Len(ev) : ev[i].kind = "text"}
  OBVIOUS
<1>2. PICK T : T = [i \in D |-> ev[i]]
  OBVIOUS
<1>3. PICK made : made = Proxy!Cardinality({i \in 1 .. Len(ev) : ev[i].kind = "call"})
  OBVIOUS
<1>4. PICK last : last = CHOOSE i \in Proxy!Usages(ev) : \A j \in Proxy!Usages(ev) : j <= i
  OBVIOUS
<1>5. PICK usage : usage = IF Proxy!Usages(ev) = {} THEN 0 ELSE ev[last].at
  OBVIOUS
<1>6. output = [text |-> T, calls |-> made, usage |-> usage]
  <2>1. output =
          [text |-> [i \in {i \in 1 .. Len(ev) : ev[i].kind = "text"} |-> ev[i]],
           calls |-> Proxy!Cardinality({i \in 1 .. Len(ev) : ev[i].kind = "call"}),
           usage |-> IF Proxy!Usages(ev) = {} THEN 0
                     ELSE ev[CHOOSE i \in Proxy!Usages(ev) : \A j \in Proxy!Usages(ev) : j <= i].at]
    BY DEF Proxy!Output
  <2> QED
    BY <1>1, <1>2, <1>3, <1>4, <1>5, <2>1, Zenon
<1>7. output.text = T /\ DOMAIN T = D /\ \A i \in D : T[i] = ev[i]
  BY <1>2, <1>6
<1>8. Len(ev) = 0 => output = Proxy!NoOutput
  <2>1. SUFFICES ASSUME Len(ev) = 0 PROVE output = Proxy!NoOutput
    OBVIOUS
  <2>2. 1 .. Len(ev) = {}
    BY <2>1
  <2>3. D = {} /\ Proxy!Usages(ev) = {} /\ {i \in 1 .. Len(ev) : ev[i].kind = "call"} = {}
    BY <1>1, <2>2 DEF Proxy!Usages
  <2>4. T = <<>>
    BY <1>2, <2>3
  <2>5. made = 0
    BY <1>3, <2>3, ProxyCounts, FS_EmptySet
  <2>6. usage = 0
    BY <1>5, <2>3
  <2> QED
    BY <1>6, <2>4, <2>5, <2>6 DEF Proxy!NoOutput
<1> QED
  BY <1>1, <1>7, <1>8

LEMMA CompleteStep ==
  ASSUME ProxyInv, Proxy!Complete
  PROVE  ProxyInv'
<1>0. /\ pc = "collected" /\ sent \in Seq(Proxy!Kinds)
      /\ StreamFits(parser.events, sent, 1, Len(sent))
      /\ \/ StreamCovers(parser.events, sent, 1, Shown(sent, part))
         \/ UpToEnd(parser.events, sent, Len(sent))
  BY DEF Proxy!Complete, ProxyInv, ProxyTypes, StreamCollected
<1>1. PICK ev : ev = parser.events
  OBVIOUS
<1>2. PICK output : output = Proxy!Output(ev)
  OBVIOUS
<1>3. \/ ledger' = ledger \cup {<<Proxy!Number, output.usage>>} /\ Proxy!Answer(200, output)
      \/ ledger' = ledger /\ Proxy!Answer(502, Proxy!NoOutput)
  BY <1>1, <1>2 DEF Proxy!Complete
<1>4. CASE ledger' = ledger /\ Proxy!Answer(502, Proxy!NoOutput)
  BY <1>4, RefusedStep
<1>5. CASE ledger' = ledger \cup {<<Proxy!Number, output.usage>>} /\ Proxy!Answer(200, output)
  <2>1. PICK n : n = Len(proxyAnswers) + 1
    OBVIOUS
  <2>2. PICK a : a = [status |-> 200, output |-> output, sent |-> sent, cut |-> part.cut]
    OBVIOUS
  <2>3. a.status = 200 /\ a.output = output /\ a.sent = sent /\ a.cut = part.cut
    BY <2>2
  <2>4. ev \in Seq(StreamEvent) /\ StreamFits(ev, sent, 1, Len(sent)) /\ Len(sent) \in Nat
    BY <1>0, <1>1 DEF StreamFits
  <2>5. PICK text : text = output.text
    OBVIOUS
  <2>6. /\ DOMAIN text = {i \in 1 .. Len(ev) : ev[i].kind = "text"}
        /\ \A i \in DOMAIN text : text[i] = ev[i]
        /\ Len(ev) = 0 => output = Proxy!NoOutput
    BY <1>2, <2>4, <2>5, OutputShows
  <2>7. ASSUME NEW i \in DOMAIN text
        PROVE  /\ text[i].at \in Proxy!Texts(sent)
               /\ \A j \in DOMAIN text : j < i => text[j].at < text[i].at
               /\ text[i].garbled => sent[text[i].at] = "wide"
    BY <2>4, <2>6 DEF StreamFits, Proxy!Texts, StreamTexts
  <2>8. ASSUME NEW i \in Proxy!Texts(sent) \cap Proxy!BeforeEnd(sent), i < Len(sent) \/ part.cut # "prefix"
        PROVE  \E j \in DOMAIN text : text[j].at = i
    <3>1. i \in 1 .. Len(sent) /\ sent[i] \in StreamTexts /\ \A j \in 1 .. i : sent[j] # "done"
      BY DEF Proxy!Texts, Proxy!BeforeEnd, StreamTexts
    <3>2. \E j \in 1 .. Len(ev) : ev[j].kind = "text" /\ ev[j].at = i
      <4>1. CASE StreamCovers(ev, sent, 1, Shown(sent, part))
        <5>1. i \in 1 .. Shown(sent, part)
          BY <2>4, <2>8, <3>1 DEF Shown
        <5> QED
          BY <3>1, <4>1, <5>1 DEF StreamCovers
      <4>2. CASE UpToEnd(ev, sent, Len(sent))
        <5>1. PICK d \in 1 .. Len(sent) : sent[d] = "done" /\ StreamCovers(ev, sent, 1, d)
          BY <4>2 DEF UpToEnd
        <5>2. i \in 1 .. d
          BY <2>4, <3>1, <5>1
        <5> QED
          BY <3>1, <5>1, <5>2 DEF StreamCovers
      <4> QED
        BY <1>0, <1>1, <4>1, <4>2
    <3> QED
      BY <2>6, <3>2
  <2>9. sent = <<>> => output = Proxy!NoOutput
    <3>1. SUFFICES ASSUME sent = <<>> PROVE Len(ev) = 0
      BY <2>6
    <3>2. Len(sent) = 0 /\ Len(ev) \in Nat
      BY <2>4, <3>1
    <3>3. \A i \in 1 .. Len(ev) : ev[i].at \in 1 .. 0
      BY <2>4, <3>2 DEF StreamFits
    <3> QED
      BY <3>2, <3>3
  <2>10. \A e \in ledger : e[1] # n
    <3>1. \A e \in ledger : e[1] \in 1 .. Len(proxyAnswers)
      BY HonestByAnswer DEF ProxyInv
    <3>2. Len(proxyAnswers) \in Nat
      <4>1. PICK S : proxyAnswers \in Seq(S)
        BY DEF ProxyInv, ProxyAnswersListed
      <4> QED
        BY <4>1
    <3> QED
      BY <2>1, <3>1, <3>2
  <2>11. ledger' = ledger \cup {<<n, output.usage>>}
    BY <1>5, <2>1 DEF Proxy!Number
  <2>12. {e \in ledger' : e[1] = n} = {<<n, output.usage>>}
    BY <2>10, <2>11
  <2>13. AnswerHonest(a, n)'
    <3>1. /\ \A i \in DOMAIN text :
               /\ text[i].at \in Proxy!Texts(a.sent)
               /\ \A j \in DOMAIN text : j < i => text[j].at < text[i].at
               /\ text[i].garbled => a.sent[text[i].at] = "wide"
          /\ \A i \in Proxy!Texts(a.sent) \cap Proxy!BeforeEnd(a.sent) :
               i < Len(a.sent) \/ a.cut # "prefix" => \E j \in DOMAIN text : text[j].at = i
      BY <2>3, <2>7, <2>8
    <3>2. a.output.text = text /\ a.output.usage = output.usage
      BY <2>3, <2>5
    <3>3. a.sent = <<>> => a.output = Proxy!NoOutput
      BY <2>3, <2>9
    <3> QED
      BY <2>3, <2>12, <3>1, <3>2, <3>3 DEF AnswerHonest
  <2>14. Proxy!Answer(200, output)
    BY <1>5
  <2> QED
    BY <2>1, <2>2, <2>11, <2>13, <2>14, AnsweredStep
<1> QED
  BY <1>3, <1>4, <1>5

LEMMA ProxyStep ==
  ASSUME ProxyInv, [Proxy!ProxyNext]_Proxy!proxyVars
  PROVE  ProxyInv'
<1>1. ASSUME /\ sent' = sent /\ part' = part /\ parser' = parser
             /\ proxyAnswers' = proxyAnswers /\ ledger' = ledger,
             pc' = pc \/ (pc = "idle" /\ pc' = "sent")
      PROVE  ProxyInv'
  <2>1. ProxyTypes' /\ ProxyRests'
    BY <1>1 DEF ProxyInv, ProxyTypes, ProxyRests
  <2>2. ParserKeepsUp' /\ StreamCollected'
    BY <1>1 DEF ProxyInv, ParserKeepsUp, StreamCollected
  <2>3. ProxyAnswersListed' /\ Proxy!ProxyHonest'
    BY <1>1, AnswersKept DEF ProxyInv
  <2> QED
    BY <2>1, <2>2, <2>3 DEF ProxyInv
<1>2. CASE Proxy!IssueLocalToken \/ Proxy!TokenExpires \/ UNCHANGED Proxy!proxyVars
  BY <1>1, <1>2 DEF Proxy!IssueLocalToken, Proxy!TokenExpires, Proxy!proxyVars
<1>3. CASE Proxy!Handle
  <2>1. pc = "idle" /\ ledger' = ledger /\ sent = <<>>
    BY <1>3 DEF Proxy!Handle, ProxyInv, ProxyRests
  <2>2. PICK r \in Proxy!Requests :
          \/ Proxy!Answer(Proxy!Refusal(r), Proxy!NoOutput)
          \/ pc' = "sent" /\ sent' = sent /\ part' = part /\ parser' = parser /\ proxyAnswers' = proxyAnswers
    BY <1>3 DEF Proxy!Handle
  <2>3. PICK status : status = Proxy!Refusal(r)
    OBVIOUS
  <2>4. CASE Proxy!Answer(status, Proxy!NoOutput)
    BY <2>1, <2>4, RefusedStep
  <2> QED
    BY <1>1, <2>1, <2>2, <2>3, <2>4
<1>4. CASE Proxy!TransportFails
  BY <1>4, RefusedStep DEF Proxy!TransportFails
<1>5. CASE Proxy!Connected
  <2>1. /\ pc = "sent" /\ pc' = "streaming" /\ sent' = sent /\ part' = part /\ parser' = parser
        /\ proxyAnswers' = proxyAnswers /\ ledger' = ledger
    BY <1>5 DEF Proxy!Connected
  <2>2. sent = <<>> /\ part = Proxy!NoPart /\ parser = Proxy!Fresh
    BY <2>1 DEF ProxyInv, ProxyRests
  <2>3. part.cut = "none" /\ parser.events = <<>> /\ parser.done = FALSE /\ Len(sent) = 0
    BY <2>2 DEF Proxy!NoPart, Proxy!Fresh
  <2>4. StreamWhole(sent, part) = 0
    BY <2>3 DEF StreamWhole
  <2>5. <<>> \in Seq(StreamEvent) /\ Len(<<>>) = 0
    OBVIOUS
  <2>6. StreamFits(parser.events, sent, 1, 0) /\ StreamCovers(parser.events, sent, 1, 0)
    BY <2>3, <2>5 DEF StreamFits, StreamCovers
  <2>7. ParserKeepsUp'
    BY <2>1, <2>3, <2>4, <2>6 DEF ParserKeepsUp
  <2>8. ProxyTypes' /\ ProxyRests' /\ StreamCollected'
    BY <2>1 DEF ProxyInv, ProxyTypes, ProxyRests, StreamCollected
  <2>9. ProxyAnswersListed' /\ Proxy!ProxyHonest'
    BY <2>1, AnswersKept DEF ProxyInv
  <2> QED
    BY <2>7, <2>8, <2>9 DEF ProxyInv
<1> QED
  BY <1>2, <1>3, <1>4, <1>5, ChunkStep, RestStep, EndStep, WholeStep, CompleteStep DEF Proxy!ProxyNext

LEMMA ProxyInitially ==
  ASSUME Proxy!ProxyInit
  PROVE  ProxyInv
<1>1. /\ pc = "idle" /\ sent = <<>> /\ part = Proxy!NoPart /\ parser = Proxy!Fresh
      /\ proxyAnswers = <<>> /\ ledger = {}
  BY DEF Proxy!ProxyInit
<1>2. ProxyTypes /\ ProxyRests /\ ParserKeepsUp /\ StreamCollected
  BY <1>1 DEF ProxyTypes, ProxyRests, ParserKeepsUp, StreamCollected, Proxy!NoPart, Proxy!Fresh,
              StreamParts, PartKnows
<1>3. ProxyAnswersListed
  <2>1. proxyAnswers \in Seq({})
    BY <1>1
  <2> QED
    BY <2>1 DEF ProxyAnswersListed
<1>4. Proxy!ProxyHonest
  BY <1>1 DEF Proxy!ProxyHonest
<1> QED
  BY <1>2, <1>3, <1>4 DEF ProxyInv

-----------------------------------------------------------------------------
(***************************************************************************)
(* The tools together.                                                     *)
(***************************************************************************)

(* Each component takes its own steps or stays as it is. *)
LEMMA ToolSteps ==
  ASSUME [ToolsNext]_toolsVars
  PROVE  /\ [Next]_vars /\ [GatewayNext]_gatewayVars /\ [GhNext]_ghVars
         /\ [Client!ClientNext]_Client!clientVars /\ [Client!CacheNext]_Client!cacheVars
         /\ [Proxy!ProxyNext]_Proxy!proxyVars /\ [Simplify!SimplifyNext]_Simplify!simplifyVars
<1> USE DEF toolsVars, clientState, cacheState, proxyState, simplifyState
<1>1. [Next]_vars
  BY DEF ToolsNext
<1>2. [GatewayNext]_gatewayVars
  BY DEF ToolsNext
<1>3. [GhNext]_ghVars
  BY DEF ToolsNext
<1>4. [Client!ClientNext]_Client!clientVars
  BY DEF ToolsNext, Client!clientVars
<1>5. [Client!CacheNext]_Client!cacheVars
  BY DEF ToolsNext, Client!cacheVars
<1>6. [Proxy!ProxyNext]_Proxy!proxyVars
  BY DEF ToolsNext, Proxy!proxyVars
<1>7. [Simplify!SimplifyNext]_Simplify!simplifyVars
  BY DEF ToolsNext, Simplify!simplifyVars
<1> QED
  BY <1>1, <1>2, <1>3, <1>4, <1>5, <1>6, <1>7

(* In the composition, every client of the outside is honest: a move that   *)
(* reports success has read the status back on the one item it named, a     *)
(* listing warns of every page whose values or labels were cut, each        *)
(* read-back that contradicts its write is reported once whatever writers,  *)
(* people and drains do in between, a completion has every piece of text    *)
(* the provider sent up to its end, save a last event of which only a part  *)
(* of the prefix came, and is charged exactly once, and a simplify pass     *)
(* marks as applied only what it saw gone.                                  *)
THEOREM ClientsAreHonest == ToolsSpec => []ClientsHonest
<1> DEFINE I == ClientInv /\ CacheInv /\ ProxyInv /\ PassInv
<1>1. ToolsInit => I
  BY ClientInitially, CacheInitially, ProxyInitially, PassInitially DEF ToolsInit
<1>2. I /\ [ToolsNext]_toolsVars => I'
  BY ToolSteps, ClientStep, CacheStep, ProxyStep, PassStep
<1>3. I => ClientsHonest
  BY ClientIsHonest, CacheIsHonest, PassIsHonest DEF ClientsHonest, ProxyInv
<1> QED
  BY <1>1, <1>2, <1>3, PTL DEF ToolsSpec

(* What is proved of the board tools, of the gateway and of the delegation  *)
(* of gh alone holds in the composition the runs check.                     *)
THEOREM ToolsTogether == ToolsSpec => [](BoardWritesSound /\ AnswersHonest /\ DelegationGated)
<1>1. ToolsInit => Init /\ GatewayInit /\ GhInit
  BY DEF ToolsInit
<1>2. [ToolsNext]_toolsVars => [Next]_vars /\ [GatewayNext]_gatewayVars /\ [GhNext]_ghVars
  BY ToolSteps
<1>3. BoardToolsAssumption /\ CommandsRecognised
  BY ToolsAssumption DEF ToolsAssumption
<1> QED
  BY <1>1, <1>2, <1>3, BoardWrites, AnswersAreHonest, GhGated, PTL DEF ToolsSpec, Spec, GatewaySpec, GhSpec

=============================================================================
