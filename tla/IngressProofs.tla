---------------------------- MODULE IngressProofs ----------------------------
(***************************************************************************)
(* Proofs about the event ingress: the kick-off gate, the poller, the      *)
(* intake lane and the CI lane, for every number of tasks, events, pages,  *)
(* reports and SHAs, every capacity and cap, and every bound on faults,    *)
(* edits, crashes and restarts.                                            *)
(***************************************************************************)
EXTENDS Ingress, FiniteSetTheorems, SequenceTheorems, WellFoundedInduction, TLAPS

-----------------------------------------------------------------------------
(***************************************************************************)
(* Finite sets of numbers and the ranks of their members.                  *)
(***************************************************************************)

(* The members of S that are smaller than x. *)
Below(S, x) == {y \in S : y < x}

(* A larger member has more members below it. *)
LEMMA BelowGrows ==
  ASSUME NEW S, IsFiniteSet(S), S \subseteq Int, NEW x \in S, NEW y \in S, x < y
  PROVE  Cardinality(Below(S, x)) < Cardinality(Below(S, y))
<1>1. Below(S, y) \in SUBSET S /\ Below(S, x) \in SUBSET Below(S, y)
  <2>1. ASSUME NEW z \in Below(S, x)
        PROVE  z \in Below(S, y)
    <3>1. z \in S /\ z < x /\ z \in Int /\ x \in Int /\ y \in Int
      BY DEF Below
    <3> QED
      BY <3>1 DEF Below
  <2> QED
    BY <2>1 DEF Below
<1>2. IsFiniteSet(Below(S, y))
  BY <1>1, FS_Subset
<1>3. Below(S, y) # Below(S, x)
  <2>1. x \in Int
    OBVIOUS
  <2>2. x \in Below(S, y) /\ x \notin Below(S, x)
    BY <2>1 DEF Below
  <2> QED
    BY <2>2
<1>4. /\ IsFiniteSet(Below(S, x)) /\ Cardinality(Below(S, x)) <= Cardinality(Below(S, y))
      /\ Cardinality(Below(S, y)) # Cardinality(Below(S, x))
  BY <1>1, <1>2, <1>3, FS_Subset
<1>5. Cardinality(Below(S, x)) \in Nat /\ Cardinality(Below(S, y)) \in Nat
  BY <1>2, <1>4, FS_CardinalityType
<1> QED
  BY <1>4, <1>5

(* A rank is less than the number of members. *)
LEMMA BelowBound ==
  ASSUME NEW S, IsFiniteSet(S), S \subseteq Int, NEW x \in S
  PROVE  /\ Cardinality(S) \in Nat \ {0}
         /\ Cardinality(Below(S, x)) \in 0 .. Cardinality(S) - 1
<1>1. Below(S, x) \in SUBSET S /\ Below(S, x) # S
  BY DEF Below
<1>2. /\ IsFiniteSet(Below(S, x)) /\ Cardinality(Below(S, x)) <= Cardinality(S)
      /\ Cardinality(S) # Cardinality(Below(S, x))
  BY <1>1, FS_Subset
<1>3. Cardinality(Below(S, x)) \in Nat /\ Cardinality(S) \in Nat
  BY <1>2, FS_CardinalityType
<1> QED
  BY <1>2, <1>3

(* Members with the same rank are the same. *)
LEMMA RankDistinguishes ==
  ASSUME NEW S, IsFiniteSet(S), S \subseteq Int, NEW x \in S, NEW y \in S,
         Cardinality(Below(S, x)) = Cardinality(Below(S, y))
  PROVE  x = y
<1>0. x \in Int /\ y \in Int
  OBVIOUS
<1>1. Cardinality(Below(S, x)) \in Int /\ Cardinality(Below(S, y)) \in Int
  <2>1. \A z \in S : Cardinality(Below(S, z)) \in 0 .. Cardinality(S) - 1
    BY BelowBound
  <2>2. \A n : n \in 0 .. Cardinality(S) - 1 => n \in Int
    OBVIOUS
  <2> QED
    BY <2>1, <2>2
<1>2. x < y => Cardinality(Below(S, x)) < Cardinality(Below(S, y))
  BY BelowGrows
<1>3. y < x => Cardinality(Below(S, y)) < Cardinality(Below(S, x))
  BY BelowGrows
<1> QED
  BY <1>0, <1>1, <1>2, <1>3

(* There is a member of every rank. *)
LEMMA RankExists ==
  ASSUME NEW S, IsFiniteSet(S), S \subseteq Int, NEW n \in 0 .. Cardinality(S) - 1
  PROVE  \E x \in S : Cardinality(Below(S, x)) = n
<1> DEFINE ranks == 0 .. Cardinality(S) - 1
           rank == [x \in S |-> Cardinality(Below(S, x))]
<1>1. Cardinality(S) \in Nat
  BY FS_CardinalityType
<1>2. IsFiniteSet(ranks) /\ Cardinality(ranks) = Cardinality(S)
  <2>1. Cardinality(S) - 1 \in Int /\ 0 \in Int
    BY <1>1
  <2>2. /\ IsFiniteSet(ranks)
        /\ Cardinality(ranks) = IF 0 > Cardinality(S) - 1 THEN 0 ELSE Cardinality(S) - 1 - 0 + 1
    BY <2>1, FS_Interval
  <2> QED
    BY <1>1, <2>2
<1>3. rank \in [S -> ranks]
  BY BelowBound
<1>4. \A x, y \in S : rank[x] = rank[y] => x = y
  BY RankDistinguishes
<1>5. rank \in Injection(S, ranks)
  BY <1>3, <1>4 DEF Injection, IsInjective
<1>6. rank \in Surjection(S, ranks)
  BY <1>2, <1>5, FS_Injection
<1> QED
  BY <1>6 DEF Surjection

(* The n-th smallest member, as the lanes choose it. *)
NthOf(S, n) == CHOOSE x \in S : Cardinality(Below(S, x)) = n - 1

LEMMA NthOfIs ==
  ASSUME NEW S, IsFiniteSet(S), S \subseteq Int, NEW n \in 1 .. Cardinality(S)
  PROVE  NthOf(S, n) \in S /\ Cardinality(Below(S, NthOf(S, n))) = n - 1
<1>1. Cardinality(S) \in Nat
  BY FS_CardinalityType
<1>2. n - 1 \in 0 .. Cardinality(S) - 1
  BY <1>1
<1>3. \E x \in S : Cardinality(Below(S, x)) = n - 1
  BY <1>2, RankExists
<1> QED
  BY <1>3 DEF NthOf

(* What of a sequence is in T, as the lanes define it. *)
Where(s, T) == {j \in 1 .. Len(s) : s[j] \in T}
KeptOf(s, T) == [i \in 1 .. Cardinality(Where(s, T)) |-> s[NthOf(Where(s, T), i)]]

LEMMA WhereFinite ==
  ASSUME NEW X, NEW s \in Seq(X), NEW T
  PROVE  /\ IsFiniteSet(Where(s, T)) /\ Where(s, T) \subseteq Int
         /\ Cardinality(Where(s, T)) \in Nat /\ Cardinality(Where(s, T)) <= Len(s)
<1>1. Len(s) \in Nat /\ Where(s, T) \in SUBSET (1 .. Len(s))
  BY DEF Where
<1>2. IsFiniteSet(1 .. Len(s)) /\ Cardinality(1 .. Len(s)) = Len(s)
  <2>1. 1 \in Int /\ Len(s) \in Int
    BY <1>1
  <2>2. /\ IsFiniteSet(1 .. Len(s))
        /\ Cardinality(1 .. Len(s)) = IF 1 > Len(s) THEN 0 ELSE Len(s) - 1 + 1
    BY <2>1, FS_Interval
  <2> QED
    BY <1>1, <2>2
<1>3. IsFiniteSet(Where(s, T)) /\ Cardinality(Where(s, T)) <= Len(s)
  BY <1>1, <1>2, FS_Subset
<1> QED
  BY <1>1, <1>3, FS_CardinalityType

(* The sequence without the others: its length, where its elements come    *)
(* from, that none is missing and that none is repeated.                   *)
LEMMA KeptOfIs ==
  ASSUME NEW X, NEW s \in Seq(X), NEW T
  PROVE  /\ KeptOf(s, T) \in Seq(X)
         /\ Len(KeptOf(s, T)) \in Nat /\ Len(KeptOf(s, T)) <= Len(s)
         /\ \A i \in 1 .. Len(KeptOf(s, T)) :
              KeptOf(s, T)[i] \in T /\ \E j \in 1 .. Len(s) : KeptOf(s, T)[i] = s[j]
         /\ \A j \in 1 .. Len(s) :
              s[j] \in T => \E i \in 1 .. Len(KeptOf(s, T)) : KeptOf(s, T)[i] = s[j]
         /\ (\A i, j \in 1 .. Len(s) : s[i] = s[j] => i = j)
              => \A i, j \in 1 .. Len(KeptOf(s, T)) :
                   KeptOf(s, T)[i] = KeptOf(s, T)[j] => i = j
<1>1. PICK W : W = Where(s, T)
  OBVIOUS
<1>2. PICK n : n = Cardinality(W)
  OBVIOUS
<1>3. /\ IsFiniteSet(W) /\ W \subseteq Int /\ n \in Nat /\ n <= Len(s)
      /\ W = {j \in 1 .. Len(s) : s[j] \in T}
  BY <1>1, <1>2, WhereFinite DEF Where
<1>4. PICK k : k = KeptOf(s, T)
  OBVIOUS
<1>5. k = [i \in 1 .. n |-> s[NthOf(W, i)]]
  BY <1>1, <1>2, <1>4 DEF KeptOf
<1>6. \A i \in 1 .. n : NthOf(W, i) \in W /\ Cardinality(Below(W, NthOf(W, i))) = i - 1
  BY <1>2, <1>3, NthOfIs
<1>7. \A i \in 1 .. n : NthOf(W, i) \in 1 .. Len(s) /\ s[NthOf(W, i)] \in T /\ k[i] = s[NthOf(W, i)]
  BY <1>3, <1>5, <1>6
<1>8. \A j \in 1 .. Len(s) : s[j] \in X
  OBVIOUS
<1>9. k \in Seq(X) /\ Len(k) = n
  BY <1>3, <1>5, <1>7, <1>8
<1>10. ASSUME NEW j \in 1 .. Len(s), s[j] \in T
       PROVE  \E i \in 1 .. n : k[i] = s[j]
  <2>1. j \in W
    BY <1>3, <1>10
  <2>2. n # 0 /\ Cardinality(Below(W, j)) \in 0 .. n - 1
    BY <1>2, <1>3, <2>1, BelowBound
  <2>3. PICK i : i = Cardinality(Below(W, j)) + 1
    OBVIOUS
  <2>4. i \in 1 .. n /\ Cardinality(Below(W, j)) = i - 1
    BY <1>3, <2>2, <2>3
  <2>5. NthOf(W, i) \in W /\ Cardinality(Below(W, NthOf(W, i))) = Cardinality(Below(W, j))
    BY <1>6, <2>4
  <2>6. NthOf(W, i) = j
    BY <1>3, <2>1, <2>5, RankDistinguishes
  <2> QED
    BY <1>7, <2>4, <2>6
<1>11. ASSUME \A i, j \in 1 .. Len(s) : s[i] = s[j] => i = j,
              NEW i \in 1 .. n, NEW j \in 1 .. n, k[i] = k[j]
       PROVE  i = j
  <2>1. NthOf(W, i) = NthOf(W, j)
    BY <1>7, <1>11
  <2>2. i - 1 = j - 1
    BY <1>6, <2>1
  <2> QED
    BY <2>2
<1> QED
  <2>1. \A i \in 1 .. n : k[i] \in T /\ \E j \in 1 .. Len(s) : k[i] = s[j]
    BY <1>7
  <2> QED
    BY <1>3, <1>4, <1>9, <1>10, <1>11, <2>1

(* The lanes' own operators are these. *)
LEMMA PollerKept ==
  /\ \A S : Poller!Cardinality(S) = Cardinality(S)
  /\ \A s, T : Poller!Kept(s, T) = KeptOf(s, T)
<1>1. \A S : Poller!Cardinality(S) = Cardinality(S)
  BY DEF Cardinality, Poller!Cardinality
<1>2. ASSUME NEW S, NEW n
      PROVE  Poller!Nth(S, n) = NthOf(S, n)
  BY <1>1 DEF Poller!Nth, NthOf, Below
<1>3. ASSUME NEW s, NEW T
      PROVE  Poller!Kept(s, T) = KeptOf(s, T)
  BY <1>1, <1>2 DEF Poller!Kept, KeptOf, Where
<1> QED
  BY <1>1, <1>3

LEMMA CiKept ==
  /\ \A S : Ci!Cardinality(S) = Cardinality(S)
  /\ \A S, n : Ci!Nth(S, n) = NthOf(S, n)
  /\ \A s, T : Ci!Kept(s, T) = KeptOf(s, T)
<1>1. \A S : Ci!Cardinality(S) = Cardinality(S)
  BY DEF Cardinality, Ci!Cardinality
<1>2. ASSUME NEW S, NEW n
      PROVE  Ci!Nth(S, n) = NthOf(S, n)
  BY <1>1 DEF Ci!Nth, NthOf, Below
<1>3. ASSUME NEW s, NEW T
      PROVE  Ci!Kept(s, T) = KeptOf(s, T)
  BY <1>1, <1>2 DEF Ci!Kept, KeptOf, Where
<1> QED
  BY <1>1, <1>2, <1>3

-----------------------------------------------------------------------------
(***************************************************************************)
(* The components in the composition.                                      *)
(***************************************************************************)

(* Whichever component moves, each takes a step of its own or none. *)
LEMMA ComponentSteps ==
  ASSUME [Next]_vars
  PROVE  /\ [Gate!Next]_Gate!vars /\ [Poller!Next]_Poller!vars
         /\ [Intake!Next]_Intake!vars /\ [Ci!Next]_Ci!vars
<1> USE DEF vars, gateState, pollerState, intakeState, ciState
<1>1. [Gate!Next]_Gate!vars
  BY DEF Next, Gate!vars
<1>2. [Poller!Next]_Poller!vars
  BY DEF Next, Poller!vars
<1>3. [Intake!Next]_Intake!vars
  BY DEF Next, Intake!vars
<1>4. [Ci!Next]_Ci!vars
  BY DEF Next, Ci!vars
<1> QED
  BY <1>1, <1>2, <1>3, <1>4

-----------------------------------------------------------------------------
(***************************************************************************)
(* The kick-off gate.  What a pass carries across the await was evaluated; *)
(* so draining it, and no more, leaves every accepted event accounted for. *)
(***************************************************************************)

GateInv ==
  /\ Gate!TypeOK /\ IsFiniteSet(gateQueue)
  /\ Gate!EventsAccounted /\ peeked \subseteq evaluated

LEMMA GateCounts ==
  /\ \A S : Gate!Cardinality(S) = Cardinality(S)
  /\ Capacity \in Nat \ {0} /\ Boundaries \in Nat
  BY IngressAssumption DEF Gate!KickoffAssumption, Cardinality, Gate!Cardinality

LEMMA GateInitially ==
  ASSUME Gate!Init
  PROVE  GateInv
<1>1. IsFiniteSet({}) /\ Cardinality({}) = 0
  BY FS_EmptySet
<1>2. Gate!Cardinality(gateQueue) <= Capacity /\ IsFiniteSet(gateQueue)
  BY <1>1, GateCounts DEF Gate!Init
<1>3. boundaries \in 0 .. Boundaries
  BY GateCounts DEF Gate!Init
<1> QED
  BY <1>2, <1>3 DEF GateInv, Gate!Init, Gate!TypeOK, Gate!EventsAccounted

(* The queue is bounded: only a delivery adds to it, and only below the cap. *)
LEMMA GateQueueStep ==
  ASSUME GateInv, [Gate!Next]_Gate!vars
  PROVE  IsFiniteSet(gateQueue') /\ Gate!Cardinality(gateQueue') <= Capacity
<1>1. IsFiniteSet(gateQueue) /\ Cardinality(gateQueue) <= Capacity
  BY GateCounts DEF GateInv, Gate!TypeOK
<1>2. CASE gateQueue' \in SUBSET gateQueue
  <2>1. IsFiniteSet(gateQueue') /\ Cardinality(gateQueue') <= Cardinality(gateQueue)
    BY <1>1, <1>2, FS_Subset
  <2>2. Cardinality(gateQueue) \in Nat /\ Cardinality(gateQueue') \in Nat
    BY <1>1, <2>1, FS_CardinalityType
  <2> QED
    BY <1>1, <2>1, <2>2, GateCounts
<1>3. CASE \E e \in GateEvents : Gate!Deliver(e)
  <2>1. PICK e \in GateEvents : Gate!Deliver(e)
    BY <1>3
  <2>2. CASE gateQueue' = gateQueue
    BY <1>2, <2>2
  <2>3. CASE gateQueue' = gateQueue \cup {e} /\ Gate!Cardinality(gateQueue) < Capacity
    <3>1. /\ IsFiniteSet(gateQueue \cup {e})
          /\ Cardinality(gateQueue \cup {e})
               = IF e \in gateQueue THEN Cardinality(gateQueue) ELSE Cardinality(gateQueue) + 1
      BY <1>1, FS_AddElement
    <3>2. Cardinality(gateQueue) \in Nat /\ Cardinality(gateQueue) < Capacity
      BY <1>1, <2>3, FS_CardinalityType, GateCounts
    <3>3. Cardinality(gateQueue') <= Capacity
      BY <2>3, <3>1, <3>2, GateCounts
    <3> QED
      BY <2>3, <3>1, <3>3, GateCounts
  <2> QED
    BY <2>1, <2>2, <2>3 DEF Gate!Deliver
<1>4. CASE ~\E e \in GateEvents : Gate!Deliver(e)
  <2>1. gateQueue' \in SUBSET gateQueue
    BY <1>4 DEF Gate!Next, Gate!vars, Gate!Gate, Gate!Plan, Gate!PlanNoOp, Gate!Spawn,
                Gate!SpawnFails, Gate!DrainPeeked, Gate!NextInvocation, Gate!Restart,
                Gate!DayEnds, Gate!ClearDegraded, Gate!Reap, Gate!BoardMoves,
                Gate!BackoffEnds, Gate!events
  <2> QED
    BY <1>2, <2>1
<1> QED
  BY <1>3, <1>4

LEMMA GateStep ==
  ASSUME GateInv, [Gate!Next]_Gate!vars
  PROVE  GateInv'
<1>1. IsFiniteSet(gateQueue') /\ Gate!Cardinality(gateQueue') <= Capacity
  BY GateQueueStep
<1>2. boundaries \in 0 .. Boundaries /\ Boundaries \in Nat
  BY GateCounts DEF GateInv, Gate!TypeOK
<1> USE <1>1 DEF GateInv, Gate!TypeOK, Gate!EventsAccounted, Gate!board, Gate!events,
                 Gate!passes, Gate!pass
<1>3. CASE Gate!Gate
  BY <1>3 DEF Gate!Gate, Gate!RememberPass, Gate!Peek, Gate!Excluded
<1>4. CASE Gate!PlanNoOp
  BY <1>4 DEF Gate!PlanNoOp, Gate!DrainPeeked, Gate!PassDone
<1>5. ASSUME NEW t \in Tasks, Gate!Spawn(t)
      PROVE  GateInv'
  BY <1>5 DEF Gate!Spawn, Gate!DrainPeeked, Gate!PassDone
<1>6. ASSUME NEW t \in Tasks, Gate!SpawnFails(t)
      PROVE  GateInv'
  BY <1>6 DEF Gate!SpawnFails, Gate!ShrinkPreviousReady, Gate!DrainPeeked, Gate!PassDone
<1>7. CASE Gate!NextInvocation
  <2>1. boundaries' \in 0 .. Boundaries
    BY <1>2, <1>7 DEF Gate!NextInvocation
  <2> QED
    BY <1>7, <2>1 DEF Gate!NextInvocation
<1>8. CASE Gate!Restart
  <2>1. boundaries' \in 0 .. Boundaries
    BY <1>2, <1>8 DEF Gate!Restart
  <2> QED
    BY <1>8, <2>1 DEF Gate!Restart
<1>9. CASE Gate!DayEnds \/ Gate!ClearDegraded
  BY <1>9 DEF Gate!DayEnds, Gate!ClearDegraded
<1>10. ASSUME NEW t \in Tasks, Gate!Reap(t) \/ Gate!BoardMoves(t) \/ Gate!BackoffEnds(t)
       PROVE  GateInv'
  BY <1>10 DEF Gate!Reap, Gate!BoardMoves, Gate!BackoffEnds
<1>11. ASSUME NEW e \in GateEvents, Gate!Deliver(e)
       PROVE  GateInv'
  BY <1>11 DEF Gate!Deliver
<1>12. CASE UNCHANGED Gate!vars
  BY <1>12 DEF Gate!vars
<1> QED
  BY <1>3, <1>4, <1>5, <1>6, <1>7, <1>8, <1>9, <1>10, <1>11, <1>12
     DEF Gate!Next, Gate!Plan

-----------------------------------------------------------------------------
(***************************************************************************)
(* The CI lane.  The tracked set keeps what the last answer reports in     *)
(* flight, through the cap, the pruning and a failed poll of the runs.     *)
(***************************************************************************)

LEMMA CiNumbers ==
  /\ Cap \in Nat \ {0} /\ MaxAttempts \in Nat /\ CiFaults \in Nat /\ MaxRestarts \in Nat
  /\ IsFiniteSet(Shas) /\ Shas \subseteq Nat \ {0}
<1>1. /\ Cap \in Nat \ {0} /\ MaxAttempts \in Nat /\ CiFaults \in Nat /\ MaxRestarts \in Nat
      /\ Ci!IsFiniteSet(Shas) /\ Shas = 1 .. Cardinality(Shas)
  BY IngressAssumption, CiKept DEF Ci!CiLaneAssumption
<1>2. IsFiniteSet(Shas)
  BY <1>1 DEF IsFiniteSet, Ci!IsFiniteSet
<1>3. Cardinality(Shas) \in Nat
  BY <1>2, FS_CardinalityType
<1> QED
  BY <1>1, <1>2, <1>3

(* A sequence without repetitions. *)
NoRepeats(s) == \A i, j \in 1 .. Len(s) : s[i] = s[j] => i = j

LEMMA CiSequences ==
  /\ \A s \in Seq(Shas) : Ci!IsInjective(s) <=> NoRepeats(s)
  /\ \A s \in Seq(Shas) : Ci!ToSet(s) = {s[i] : i \in 1 .. Len(s)}
<1>1. \A s \in Seq(Shas) : DOMAIN s = 1 .. Len(s)
  OBVIOUS
<1> QED
  BY <1>1 DEF Ci!IsInjective, NoRepeats, Ci!ToSet

(* The members of a set from the newest to the oldest, each once. *)
LEMMA NewestFirstIs ==
  ASSUME NEW S, S \subseteq Shas
  PROVE  Ci!NewestFirst(S) \in Seq(S) /\ NoRepeats(Ci!NewestFirst(S))
<1>0. S \in SUBSET Shas /\ S \subseteq Int
  BY CiNumbers
<1>1. IsFiniteSet(S) /\ S \subseteq Int
  BY <1>0, CiNumbers, FS_Subset
<1>2. PICK n \in Nat : n = Cardinality(S)
  BY <1>1, FS_CardinalityType
<1>3. PICK s : s = Ci!NewestFirst(S)
  OBVIOUS
<1>4. s = [i \in 1 .. n |-> NthOf(S, n - i + 1)]
  BY <1>2, <1>3, CiKept DEF Ci!NewestFirst
<1>5. \A i \in 1 .. n : n - i + 1 \in 1 .. n /\ s[i] = NthOf(S, n - i + 1)
  BY <1>4
<1>6. \A m \in 1 .. n : NthOf(S, m) \in S /\ Cardinality(Below(S, NthOf(S, m))) = m - 1
  BY <1>1, <1>2, NthOfIs
<1>7. s \in Seq(S) /\ Len(s) = n
  BY <1>4, <1>5, <1>6
<1>8. ASSUME NEW i \in 1 .. n, NEW j \in 1 .. n, s[i] = s[j]
      PROVE  i = j
  <2>1. (n - i + 1) - 1 = (n - j + 1) - 1
    BY <1>5, <1>6, <1>8
  <2> QED
    BY <2>1
<1> QED
  BY <1>3, <1>7, <1>8 DEF NoRepeats

(* The first Cap elements. *)
LEMMA CappedIs ==
  ASSUME NEW X, NEW s \in Seq(X), NoRepeats(s)
  PROVE  /\ Ci!Capped(s) \in Seq(X) /\ NoRepeats(Ci!Capped(s)) /\ Len(Ci!Capped(s)) <= Cap
         /\ \A i \in 1 .. Len(s) : i <= Cap => i <= Len(Ci!Capped(s)) /\ Ci!Capped(s)[i] = s[i]
         /\ \A i \in 1 .. Len(Ci!Capped(s)) : i <= Len(s) /\ Ci!Capped(s)[i] = s[i]
<1>1. PICK n \in Nat : n = Len(s)
  OBVIOUS
<1>2. PICK m \in Nat : m = IF n < Cap THEN n ELSE Cap
  BY CiNumbers
<1>3. m <= n /\ m <= Cap /\ (\A i \in 1 .. n : i <= Cap => i <= m)
  BY <1>2, CiNumbers
<1>4. PICK c : c = Ci!Capped(s)
  OBVIOUS
<1>5. c = SubSeq(s, 1, m)
  BY <1>1, <1>2, <1>4 DEF Ci!Capped
<1>6. c \in Seq(X) /\ Len(c) = m /\ \A i \in 1 .. m : c[i] = s[i]
  BY <1>1, <1>3, <1>5
<1>7. \A i \in 1 .. m : i \in 1 .. n
  BY <1>3
<1> QED
  BY <1>1, <1>3, <1>4, <1>6, <1>7 DEF NoRepeats

(* Nothing is repeated in what is kept of a sequence without repetitions. *)
LEMMA KeptNoRepeats ==
  ASSUME NEW X, NEW s \in Seq(X), NoRepeats(s), NEW T
  PROVE  NoRepeats(KeptOf(s, T))
  BY KeptOfIs DEF NoRepeats

(* The SHAs in flight come first; so none of them is cut off. *)
LEMMA UnionIs ==
  ASSUME NEW flight \in Seq(Shas), NoRepeats(flight), Len(flight) <= Cap,
         tracked \in Seq(Shas), NoRepeats(tracked)
  PROVE  /\ Ci!Union(flight) \in Seq(Shas) /\ NoRepeats(Ci!Union(flight))
         /\ Len(Ci!Union(flight)) <= Cap
         /\ Ci!ToSet(flight) \subseteq Ci!ToSet(Ci!Union(flight))
<1>0. PICK T : T = Shas \ Ci!ToSet(flight)
  OBVIOUS
<1>1. PICK rest : rest = KeptOf(tracked, T)
  OBVIOUS
<1>2. /\ rest \in Seq(Shas) /\ NoRepeats(rest)
      /\ \A i \in 1 .. Len(rest) : rest[i] \in Shas \ Ci!ToSet(flight)
  <2>1. rest \in Seq(Shas) /\ \A i \in 1 .. Len(rest) : rest[i] \in T
    BY <1>1, KeptOfIs
  <2> QED
    BY <1>0, <1>1, <2>1, KeptNoRepeats
<1>3. PICK m \in Nat, n \in Nat : m = Len(flight) /\ n = Len(rest)
  BY <1>2
<1>4. PICK both : both = flight \o rest
  OBVIOUS
<1>5. /\ both \in Seq(Shas) /\ Len(both) = m + n
      /\ \A i \in 1 .. m : both[i] = flight[i]
      /\ \A i \in 1 .. m + n : i > m => both[i] = rest[i - m]
  BY <1>2, <1>3, <1>4
<1>6. ASSUME NEW i \in 1 .. m + n, NEW j \in 1 .. m + n, both[i] = both[j]
      PROVE  i = j
  <2>1. CASE i <= m /\ j <= m
    BY <1>3, <1>5, <1>6, <2>1 DEF NoRepeats
  <2>2. CASE i > m /\ j > m
    <3>1. i - m \in 1 .. n /\ j - m \in 1 .. n /\ rest[i - m] = rest[j - m]
      BY <1>5, <1>6, <2>2
    <3>2. i - m = j - m
      BY <1>2, <1>3, <3>1 DEF NoRepeats
    <3> QED
      BY <3>2
  <2>3. ASSUME NEW x \in 1 .. m + n, NEW y \in 1 .. m + n, x <= m, y > m
        PROVE  both[x] # both[y]
    <3>1. x \in 1 .. m /\ y - m \in 1 .. n
      BY <2>3
    <3>2. both[x] \in Ci!ToSet(flight)
      BY <1>3, <1>5, <3>1, CiSequences
    <3>3. both[y] \notin Ci!ToSet(flight)
      BY <1>2, <1>3, <1>5, <2>3, <3>1
    <3> QED
      BY <3>2, <3>3
  <2> QED
    BY <1>6, <2>1, <2>2, <2>3
<1>7. NoRepeats(both)
  BY <1>5, <1>6 DEF NoRepeats
<1>8. PICK u : u = Ci!Union(flight)
  OBVIOUS
<1>9. u = Ci!Capped(both)
  BY <1>0, <1>1, <1>4, <1>8, CiKept DEF Ci!Union
<1>10. /\ u \in Seq(Shas) /\ NoRepeats(u) /\ Len(u) <= Cap
       /\ \A i \in 1 .. Len(both) : i <= Cap => i <= Len(u) /\ u[i] = both[i]
  BY <1>5, <1>7, <1>9, CappedIs
<1>11. \A i \in 1 .. m : i \in 1 .. Len(u) /\ u[i] = flight[i]
  BY <1>3, <1>5, <1>10, CiNumbers
<1>12. Ci!ToSet(flight) \subseteq Ci!ToSet(u)
  BY <1>3, <1>10, <1>11, CiSequences
<1> QED
  BY <1>8, <1>10, <1>12

(* Pruning takes the quiet SHAs and no other. *)
LEMMA PrunedIs ==
  ASSUME tracked \in Seq(Shas), NoRepeats(tracked), Len(tracked) <= Cap, NEW T
  PROVE  /\ Ci!Kept(tracked, Shas \ T) \in Seq(Shas) /\ NoRepeats(Ci!Kept(tracked, Shas \ T))
         /\ Len(Ci!Kept(tracked, Shas \ T)) <= Cap
         /\ Ci!ToSet(tracked) \ T \subseteq Ci!ToSet(Ci!Kept(tracked, Shas \ T))
<1>0. PICK R : R = Shas \ T
  OBVIOUS
<1>1. PICK k : k = KeptOf(tracked, R)
  OBVIOUS
<1>2. /\ k \in Seq(Shas) /\ Len(k) \in Nat /\ Len(k) <= Len(tracked) /\ NoRepeats(k)
      /\ \A j \in 1 .. Len(tracked) :
           tracked[j] \in Shas \ T => \E i \in 1 .. Len(k) : k[i] = tracked[j]
  <2>1. /\ k \in Seq(Shas) /\ Len(k) \in Nat /\ Len(k) <= Len(tracked)
        /\ \A j \in 1 .. Len(tracked) :
             tracked[j] \in R => \E i \in 1 .. Len(k) : k[i] = tracked[j]
    BY <1>1, KeptOfIs
  <2> QED
    BY <1>0, <1>1, <2>1, KeptNoRepeats
<1>3. Ci!Kept(tracked, Shas \ T) = k
  BY <1>0, <1>1, CiKept
<1>4. Ci!ToSet(tracked) \ T \subseteq Ci!ToSet(k)
  BY <1>2, CiSequences
<1>5. Len(k) <= Cap
  BY <1>2, CiNumbers
<1> QED
  BY <1>2, <1>3, <1>4, <1>5

(* What the lane works from: a snapshot is the last one, its SHAs are      *)
(* tracked and none of them is quiet; and what has run has an attempt.     *)
CiFollows ==
  /\ lastSnapshot # Ci!NoSnapshot => lastSnapshot \subseteq Ci!ToSet(tracked)
  /\ ciPc # "idle" =>
       /\ snapshot # Ci!NoSnapshot => snapshot = lastSnapshot /\ snapshot \cap quiet = {}
       /\ snapshot = Ci!NoSnapshot => quiet = {}

CiPlatform ==
  /\ attempt \in [Shas -> 0 .. MaxAttempts]
  /\ run \in [Shas -> Ci!Status] /\ check \in [Shas -> Ci!Status]
  /\ \A s \in Shas : run[s] # "absent" \/ check[s] # "absent" => attempt[s] # 0

CiInv == Ci!TypeOK /\ CiPlatform /\ CiFollows

LEMMA CiInitially ==
  ASSUME Ci!Init
  PROVE  CiInv
<1>1. CiPlatform
  BY CiNumbers DEF Ci!Init, CiPlatform, Ci!Status
<1>2. /\ tracked = <<>> /\ todo = <<>>
      /\ tracked \in Seq(Shas) /\ todo \in Seq(Shas) /\ Len(tracked) = 0
  BY DEF Ci!Init
<1>3. NoRepeats(tracked)
  BY <1>2 DEF NoRepeats
<1>4. Len(tracked) <= Cap /\ Ci!IsInjective(tracked)
  <2>1. Ci!IsInjective(tracked)
    BY <1>2, <1>3, CiSequences
  <2> QED
    BY <1>2, <2>1, CiNumbers
<1>5. /\ ciFaults \in 0 .. CiFaults /\ restarts \in 0 .. MaxRestarts
  BY CiNumbers DEF Ci!Init
<1>6. Ci!TypeOK
  BY <1>1, <1>2, <1>4, <1>5 DEF Ci!Init, CiPlatform, Ci!TypeOK
<1>7. CiFollows
  BY DEF Ci!Init, CiFollows
<1> QED
  BY <1>1, <1>6, <1>7 DEF CiInv

(* The keys of what is completed. *)
LEMMA KeysOfCompleted ==
  ASSUME CiPlatform
  PROVE  Ci!RunKeys \subseteq Ci!Keys /\ \A s \in Shas : Ci!CheckKeys(s) \subseteq Ci!Keys
<1>1. \A s \in Shas : attempt[s] # 0 => attempt[s] \in 1 .. MaxAttempts
  BY CiNumbers DEF CiPlatform
<1>2. \A s \in Shas : run[s] = "completed" => <<"run", s, attempt[s]>> \in Ci!Keys
  BY <1>1 DEF CiPlatform, Ci!Keys
<1>3. \A s \in Shas : check[s] = "completed" => <<"check", s, attempt[s]>> \in Ci!Keys
  BY <1>1 DEF CiPlatform, Ci!Keys
<1> QED
  BY <1>2, <1>3 DEF Ci!RunKeys, Ci!CheckKeys

(* The platform moves on its own. *)
LEMMA CiPlatformStep ==
  ASSUME CiInv, [Ci!Next]_Ci!vars
  PROVE  CiPlatform'
<1>1. CASE UNCHANGED <<attempt, run, check>>
  BY <1>1 DEF CiInv, CiPlatform
<1>2. ASSUME NEW s \in Shas, Ci!StartRun(s)
      PROVE  CiPlatform'
  <2>1. attempt[s] + 1 \in 0 .. MaxAttempts /\ attempt[s] + 1 # 0
    BY <1>2, CiNumbers DEF Ci!StartRun, CiInv, CiPlatform
  <2>2. /\ attempt' \in [Shas -> 0 .. MaxAttempts]
        /\ run' \in [Shas -> Ci!Status] /\ check' \in [Shas -> Ci!Status]
    BY <1>2, <2>1 DEF Ci!StartRun, CiInv, CiPlatform, Ci!Status
  <2>3. \A q \in Shas : attempt'[q] # 0 \/ (attempt'[q] = attempt[q] /\ run'[q] = run[q] /\ check'[q] = check[q])
    BY <1>2, <2>1 DEF Ci!StartRun, CiInv, CiPlatform
  <2> QED
    BY <2>2, <2>3 DEF CiInv, CiPlatform
<1>3. ASSUME NEW s \in Shas, Ci!FinishRun(s) \/ Ci!FinishCheck(s)
      PROVE  CiPlatform'
  BY <1>3 DEF Ci!FinishRun, Ci!FinishCheck, CiInv, CiPlatform, Ci!Status
<1> QED
  BY <1>1, <1>2, <1>3
     DEF Ci!Next, Ci!PollRepo, Ci!PollRuns, Ci!RunsNotModified, Ci!CheckNotModified,
         Ci!CheckBaseline, Ci!CheckDelta, Ci!ChecksDone, Ci!Prune, Ci!RunsFail, Ci!CheckFails,
         Ci!MarkerUnread, Ci!PruneFails, Ci!Restart, Ci!platform, Ci!vars

(* A runs answer: what it reports in flight is tracked. *)
LEMMA PollRunsStep ==
  ASSUME CiInv, Ci!PollRuns
  PROVE  Ci!TypeOK' /\ CiFollows'
<1>1. tracked \in Seq(Shas) /\ NoRepeats(tracked)
  BY CiSequences DEF CiInv, Ci!TypeOK
<1>2. Ci!InFlight \subseteq Shas
  BY DEF Ci!InFlight
<1>3. PICK newest : newest = Ci!NewestFirst(Ci!InFlight)
  OBVIOUS
<1>4. newest \in Seq(Shas) /\ NoRepeats(newest)
  <2>1. newest \in Seq(Ci!InFlight) /\ NoRepeats(newest)
    BY <1>2, <1>3, NewestFirstIs
  <2> QED
    BY <1>2, <2>1
<1>5. PICK flight : flight = Ci!Capped(newest)
  OBVIOUS
<1>6. flight \in Seq(Shas) /\ NoRepeats(flight) /\ Len(flight) <= Cap
  BY <1>4, <1>5, CappedIs
<1>7. /\ tracked' = Ci!Union(flight) /\ snapshot' = Ci!ToSet(flight)
      /\ lastSnapshot' = snapshot' /\ todo' = tracked' /\ quiet' = {} /\ ciPc' = "checks"
      /\ initialized' = TRUE
      /\ UNCHANGED <<attempt, run, check, ciBaselined, ciFaults, restarts>>
  BY <1>3, <1>5 DEF Ci!PollRuns, Ci!platform
<1>8. /\ tracked' \in Seq(Shas) /\ NoRepeats(tracked') /\ Len(tracked') <= Cap
      /\ snapshot' \subseteq Ci!ToSet(tracked')
  BY <1>1, <1>6, <1>7, UnionIs
<1>9. snapshot' \subseteq Shas /\ Ci!IsInjective(tracked')
  BY <1>6, <1>7, <1>8, CiSequences
<1>10. ciDeliveries' \subseteq Ci!Keys /\ emitted' \subseteq ciDeliveries'
  BY KeysOfCompleted DEF CiInv, Ci!TypeOK, Ci!PollRuns, Ci!ProcessEvents
<1>11. Ci!TypeOK'
  BY <1>7, <1>8, <1>9, <1>10 DEF CiInv, Ci!TypeOK
<1>12. CiFollows'
  BY <1>7, <1>8 DEF CiFollows
<1> QED
  BY <1>11, <1>12

(* The pruning at the end of a round: what stays is what is not quiet. *)
LEMMA PruneStep ==
  ASSUME CiInv, Ci!Prune
  PROVE  Ci!TypeOK' /\ CiFollows'
<1>1. tracked \in Seq(Shas) /\ NoRepeats(tracked) /\ Len(tracked) <= Cap
  BY CiSequences DEF CiInv, Ci!TypeOK
<1>2. /\ tracked' = Ci!Kept(tracked, Shas \ quiet) /\ ciBaselined' \subseteq ciBaselined
      /\ ciPc' = "idle" /\ snapshot' = Ci!NoSnapshot /\ todo' = <<>> /\ quiet' = {}
      /\ UNCHANGED <<attempt, run, check, ciDeliveries, initialized, lastSnapshot, ciFaults,
                     restarts, emitted>>
      /\ ciPc = "prune"
  BY DEF Ci!Prune, Ci!DeleteRows, Ci!EndRound, Ci!platform
<1>3. /\ tracked' \in Seq(Shas) /\ NoRepeats(tracked') /\ Len(tracked') <= Cap
      /\ Ci!ToSet(tracked) \ quiet \subseteq Ci!ToSet(tracked')
  BY <1>1, <1>2, PrunedIs
<1>4. Ci!IsInjective(tracked') /\ todo' \in Seq(Shas)
  BY <1>2, <1>3, CiSequences
<1>5. Ci!TypeOK'
  BY <1>2, <1>3, <1>4 DEF CiInv, Ci!TypeOK
<1>6. lastSnapshot # Ci!NoSnapshot => lastSnapshot \cap quiet = {}
  BY <1>2 DEF CiInv, CiFollows
<1>7. CiFollows'
  BY <1>2, <1>3, <1>6 DEF CiInv, CiFollows
<1> QED
  BY <1>5, <1>7

(* The other steps of a round leave the tracked set alone. *)
LEMMA CiRoundStep ==
  ASSUME CiInv,
         \/ Ci!RunsNotModified \/ Ci!CheckNotModified \/ Ci!CheckBaseline \/ Ci!CheckDelta
         \/ Ci!ChecksDone \/ Ci!RunsFail \/ Ci!CheckFails \/ Ci!MarkerUnread \/ Ci!PruneFails
  PROVE  Ci!TypeOK' /\ CiFollows'
<1>1. /\ UNCHANGED <<attempt, run, check, tracked, initialized, lastSnapshot, restarts>>
      /\ ciFaults' \in {ciFaults, ciFaults + 1} /\ (ciFaults' # ciFaults => ciFaults < CiFaults)
  BY DEF Ci!RunsNotModified, Ci!CheckNotModified, Ci!CheckBaseline, Ci!CheckDelta,
         Ci!ChecksDone, Ci!RunsFail, Ci!CheckFails, Ci!MarkerUnread, Ci!PruneFails,
         Ci!platform, Ci!memory
<1>2. ciFaults' \in 0 .. CiFaults
  BY <1>1, CiNumbers DEF CiInv, Ci!TypeOK
<1>3. tracked \in Seq(Shas) /\ todo \in Seq(Shas) /\ <<>> \in Seq(Shas)
  BY DEF CiInv, Ci!TypeOK
<1>4. todo # <<>> => Head(todo) \in Shas /\ Tail(todo) \in Seq(Shas)
  BY <1>3
<1> USE <1>1, <1>2, <1>3, <1>4 DEF CiInv, Ci!TypeOK, CiFollows
<1>5. CASE Ci!RunsNotModified
  BY <1>5 DEF Ci!RunsNotModified, Ci!durable
<1>6. CASE Ci!CheckNotModified
  BY <1>6 DEF Ci!CheckNotModified, Ci!CheckPolled, Ci!QuietEligible, Ci!durable
<1>7. CASE Ci!CheckBaseline
  BY <1>7, KeysOfCompleted DEF Ci!CheckBaseline, Ci!CheckPolled
<1>8. CASE Ci!CheckDelta
  BY <1>8, KeysOfCompleted DEF Ci!CheckDelta, Ci!CheckPolled, Ci!ProcessEvents
<1>9. CASE Ci!ChecksDone
  BY <1>9 DEF Ci!ChecksDone, Ci!durable
<1>10. CASE Ci!RunsFail
  BY <1>10, KeysOfCompleted DEF Ci!RunsFail, Ci!ProcessEvents
<1>11. CASE Ci!CheckFails
  BY <1>11, KeysOfCompleted DEF Ci!CheckFails, Ci!CheckPolled, Ci!ProcessEvents
<1>12. CASE Ci!MarkerUnread
  BY <1>12 DEF Ci!MarkerUnread, Ci!EndRound, Ci!durable
<1>13. CASE Ci!PruneFails
  BY <1>13 DEF Ci!PruneFails, Ci!EndRound, Ci!DeleteRows
<1> QED
  BY <1>5, <1>6, <1>7, <1>8, <1>9, <1>10, <1>11, <1>12, <1>13

LEMMA CiStep ==
  ASSUME CiInv, [Ci!Next]_Ci!vars
  PROVE  CiInv'
<1>1. CiPlatform'
  BY CiPlatformStep
<1>2. CASE Ci!Restart
  <2>1. tracked' = <<>> /\ todo' = <<>> /\ <<>> \in Seq(Shas) /\ Len(<<>>) = 0
    BY <1>2 DEF Ci!Restart, Ci!EndRound
  <2>2. NoRepeats(tracked') /\ tracked' \in Seq(Shas) /\ Len(tracked') = 0
    BY <2>1 DEF NoRepeats
  <2>3. Ci!IsInjective(tracked')
    BY <2>2, CiSequences
  <2>4. Len(tracked') <= Cap
    BY <2>2, CiNumbers
  <2>5. restarts' \in 0 .. MaxRestarts
    BY <1>2, CiNumbers DEF Ci!Restart, CiInv, Ci!TypeOK
  <2>6. Ci!TypeOK'
    BY <1>2, <2>1, <2>2, <2>3, <2>4, <2>5
       DEF Ci!Restart, Ci!EndRound, Ci!platform, Ci!durable, CiInv, Ci!TypeOK
  <2>7. CiFollows'
    BY <1>2 DEF Ci!Restart, Ci!EndRound, CiFollows
  <2> QED
    BY <1>1, <2>6, <2>7 DEF CiInv
<1>3. CASE \/ UNCHANGED Ci!vars
           \/ \E s \in Shas : Ci!StartRun(s) \/ Ci!FinishRun(s) \/ Ci!FinishCheck(s)
  <2>1. UNCHANGED <<ciBaselined, ciDeliveries, tracked, initialized, lastSnapshot, ciPc,
                    snapshot, todo, quiet, ciFaults, restarts, emitted>>
    BY <1>3 DEF Ci!StartRun, Ci!FinishRun, Ci!FinishCheck, Ci!durable, Ci!memory, Ci!round,
                Ci!vars
  <2> QED
    BY <1>1, <2>1 DEF CiInv, Ci!TypeOK, CiPlatform, CiFollows
<1> QED
  BY <1>1, <1>2, <1>3, PollRunsStep, PruneStep, CiRoundStep DEF CiInv, Ci!Next, Ci!PollRepo

LEMMA CiFollowed ==
  ASSUME CiInv
  PROVE  Ci!TypeOK /\ Ci!InFlightFollowed
  BY DEF CiInv, CiFollows, Ci!InFlightFollowed

-----------------------------------------------------------------------------
(***************************************************************************)
(* The intake lane.  The board only gains: members, labels and fields that *)
(* are set.  attach_issue leaves a field alone or has seen it unset, and   *)
(* what it does not know any more, somebody else has set since.            *)
(***************************************************************************)

LEMMA IntakeNumbers ==
  /\ IsFiniteSet(Reports) /\ Reports = 1 .. Cardinality(Reports) /\ Cardinality(Reports) \in Nat
  /\ IssueOf \in [Reports -> Issues] /\ TickLimit \in Nat
  /\ Edits \in Nat /\ ReportFaults \in Nat /\ MaxCrashes \in Nat
  /\ \A S : Intake!Cardinality(S) = Cardinality(S)
<1>1. \A S : Intake!Cardinality(S) = Cardinality(S) /\ Intake!IsFiniteSet(S) = IsFiniteSet(S)
  BY DEF Cardinality, Intake!Cardinality, IsFiniteSet, Intake!IsFiniteSet
<1>2. IsFiniteSet(Reports)
  BY <1>1, IngressAssumption DEF Intake!IntakeAssumption
<1> QED
  BY <1>1, <1>2, FS_CardinalityType, IngressAssumption DEF Intake!IntakeAssumption

(* An item with a field of another value. *)
With(r, f, v) == [r EXCEPT ![f] = v]

(* The values of a field that is set, by the lane or by others. *)
LEMMA ItemWritten ==
  ASSUME NEW r \in Intake!Item, NEW f \in Intake!Fields, NEW v,
         v \in {Intake!Mechanical[f], Intake!Promoted[f]},
         NEW q, q = With(r, f, v)
  PROVE  /\ q \in Intake!Item /\ q[f] = v
         /\ v # "unset" /\ Intake!Mechanical[f] # Intake!Promoted[f]
         /\ q.member = r.member /\ q.label = r.label
         /\ \A g \in Intake!Fields : g # f => q[g] = r[g]
<1> USE DEF With, Intake!Item, Intake!Fields, Intake!Mechanical, Intake!Promoted
<1>1. CASE f = "status"
  BY <1>1
<1>2. CASE f = "priority"
  BY <1>2
<1>3. CASE f = "type"
  BY <1>3
<1> QED
  BY <1>1, <1>2, <1>3

LEMMA ItemMarked ==
  ASSUME NEW r \in Intake!Item, NEW g \in {"member", "label"},
         NEW v \in BOOLEAN, NEW q, q = With(r, g, v)
  PROVE  /\ q \in Intake!Item /\ q[g] = v
         /\ \A f \in Intake!Fields \cup {"member", "label"} : f # g => q[f] = r[f]
<1> USE DEF With, Intake!Item, Intake!Fields
<1>1. CASE g = "member"
  BY <1>1
<1>2. CASE g = "label"
  BY <1>2
<1> QED
  BY <1>1, <1>2

(* The oldest of some events is one of them. *)
LEMMA OldestIs ==
  ASSUME NEW S, S \subseteq Reports, S # {}
  PROVE  Intake!Oldest(S) \in S
<1>1. S \subseteq Nat
  BY IntakeNumbers
<1>2. PICK x \in S : \A y \in S : ~(<<y, x>> \in OpToRel(<, Nat))
  BY <1>1, WFMin, NatLessThanWellFounded
<1>3. \A y \in S : ~(y < x)
  BY <1>1, <1>2 DEF OpToRel
<1>4. \A y \in S : x <= y
  BY <1>1, <1>3
<1> QED
  BY <1>4 DEF Intake!Oldest

(* As many of the oldest rows as there are ranks below the limit. *)
LEMMA OldestRowsBound ==
  ASSUME store \subseteq Reports
  PROVE  /\ Intake!OldestRows \subseteq store /\ IsFiniteSet(Intake!OldestRows)
         /\ Cardinality(Intake!OldestRows) <= TickLimit
<1>1. IsFiniteSet(store) /\ store \subseteq Int
  <2>1. store \in SUBSET Reports /\ store \subseteq Int
    BY IntakeNumbers
  <2> QED
    BY <2>1, IntakeNumbers, FS_Subset
<1>2. PICK R : R = Intake!OldestRows
  OBVIOUS
<1>3. R = {e \in store : Cardinality(Below(store, e)) < TickLimit}
  BY <1>2, IntakeNumbers DEF Intake!OldestRows, Below
<1> DEFINE ranks == 0 .. TickLimit - 1
           rank == [e \in R |-> Cardinality(Below(store, e))]
<1>4. \A e \in store : Cardinality(Below(store, e)) \in Nat
  <2>1. \A e \in store :
          /\ Cardinality(store) \in Nat \ {0}
          /\ Cardinality(Below(store, e)) \in 0 .. Cardinality(store) - 1
    BY <1>1, BelowBound
  <2> QED
    BY <2>1
<1>5. rank \in [R -> ranks]
  BY <1>3, <1>4, IntakeNumbers
<1>6. \A x, y \in R : rank[x] = rank[y] => x = y
  BY <1>1, <1>3, RankDistinguishes
<1>7. rank \in Injection(R, ranks)
  BY <1>5, <1>6 DEF Injection, IsInjective
<1>8. IsFiniteSet(ranks) /\ Cardinality(ranks) = TickLimit
  <2>1. 0 \in Int /\ TickLimit - 1 \in Int /\ TickLimit \in Nat
    BY IntakeNumbers
  <2>2. /\ IsFiniteSet(ranks)
        /\ Cardinality(ranks) = IF 0 > TickLimit - 1 THEN 0 ELSE TickLimit - 1 - 0 + 1
    BY <2>1, FS_Interval
  <2> QED
    BY <2>1, <2>2
<1>9. IsFiniteSet(R) /\ Cardinality(R) <= Cardinality(ranks)
  BY <1>7, <1>8, FS_Injection
<1> QED
  BY <1>2, <1>3, <1>8, <1>9

(* The calls at which a field is still ahead, with the decision to write   *)
(* it taken, and those at which it is behind.                              *)
Ahead == [status |-> {"status"},
          priority |-> {"status", "statusCheck", "priority"},
          type |-> {"add", "read", "status", "statusCheck", "priority", "priorityCheck", "type"}]
Behind == [status |-> {"priority", "priorityCheck", "type", "label"},
           priority |-> {"type", "label"},
           type |-> {"label"}]

(* What attach_issue knows of the issue in hand. *)
AttachKnows ==
  intakePc \in Intake!Calls =>
    /\ batch # {}
    /\ intakePc \notin {"lookup", "add"} => board[Intake!Issue].member
    /\ \A f \in Intake!Fields :
         /\ intakePc \in Ahead[f] /\ f \notin needs => board[Intake!Issue][f] # "unset"
         /\ intakePc \in Ahead[f] /\ f \in needs => board[Intake!Issue][f] = "unset" \/ f \in raced
         /\ intakePc \in Behind[f] => board[Intake!Issue][f] # "unset"
    /\ intakePc \in {"add", "read"} => needs \subseteq {"type"}
    /\ intakePc = "add" =>
         \A f \in {"status", "priority"} : board[Intake!Issue][f] = "unset" \/ f \in raced

(* What is not on the board has no field of the board; what is in memory   *)
(* was accepted; and there is something to put back.                       *)
IntakeInv ==
  /\ Intake!TypeOK /\ IsFiniteSet(batch)
  /\ batch \cup failed \subseteq 1 .. intakeAccepted
  /\ intakePc = "reput" => failed # {}
  /\ \A i \in Issues :
       ~board[i].member => board[i].status = "unset" /\ board[i].priority = "unset"
  /\ AttachKnows /\ Intake!FinishedIsComplete

LEMMA IntakeInitially ==
  ASSUME Intake!Init
  PROVE  IntakeInv
<1>1. IsFiniteSet({}) /\ Cardinality({}) = 0
  BY FS_EmptySet
<1>2. Intake!Cardinality(batch) <= TickLimit /\ IsFiniteSet(batch)
  BY <1>1, IntakeNumbers DEF Intake!Init
<1>3. /\ intakeAccepted \in 0 .. Intake!Cardinality(Reports) /\ edits \in 0 .. Edits
      /\ intakeFaults \in 0 .. ReportFaults /\ crashes \in 0 .. MaxCrashes
  BY IntakeNumbers DEF Intake!Init
<1>4. board \in [Issues -> Intake!Item]
      /\ \A i \in Issues :
           ~board[i].member => board[i].status = "unset" /\ board[i].priority = "unset"
  BY DEF Intake!Init
<1>5. Intake!TypeOK
  BY <1>2, <1>3, <1>4 DEF Intake!Init, Intake!TypeOK
<1>6. AttachKnows /\ Intake!FinishedIsComplete
  BY DEF Intake!Init, AttachKnows, Intake!Calls, Intake!FinishedIsComplete
<1> QED
  BY <1>2, <1>4, <1>5, <1>6 DEF Intake!Init, IntakeInv

(* A step that sets one field, one that marks an item or an issue, and     *)
(* what both have in common: nothing is taken away.                        *)
FieldSet(i, f, v) ==
  \A j \in Issues :
    /\ board'[j].member = board[j].member /\ board'[j].label = board[j].label
    /\ \A g \in Intake!Fields : board'[j][g] = IF j = i /\ g = f THEN v ELSE board[j][g]

Marked(i, g) ==
  \A j \in Issues :
    /\ board'[j].member = IF j = i /\ g = "member" THEN TRUE ELSE board[j].member
    /\ board'[j].label = IF j = i /\ g = "label" THEN TRUE ELSE board[j].label
    /\ \A f \in Intake!Fields : board'[j][f] = board[j][f]

BoardGains ==
  /\ board' \in [Issues -> Intake!Item]
  /\ \A j \in Issues :
       /\ board[j].member => board'[j].member
       /\ board[j].label => board'[j].label
       /\ \A f \in Intake!Fields : board[j][f] # "unset" => board'[j][f] # "unset"

LEMMA FieldIsSet ==
  ASSUME board \in [Issues -> Intake!Item], NEW i \in Issues, NEW f \in Intake!Fields,
         NEW v, v \in {Intake!Mechanical[f], Intake!Promoted[f]},
         board' = [board EXCEPT ![i][f] = v]
  PROVE  FieldSet(i, f, v) /\ BoardGains
<1>1. board[i] \in Intake!Item
  OBVIOUS
<1>2. PICK r : r = With(board[i], f, v)
  OBVIOUS
<1>3. /\ r \in Intake!Item /\ v # "unset"
      /\ r.member = board[i].member /\ r.label = board[i].label /\ r[f] = v
      /\ \A g \in Intake!Fields : g # f => r[g] = board[i][g]
  BY <1>1, <1>2, ItemWritten
<1>4. board' = [board EXCEPT ![i] = r]
  BY <1>2 DEF With
<1>5. board' \in [Issues -> Intake!Item] /\ board'[i] = r
      /\ \A j \in Issues : j # i => board'[j] = board[j]
  BY <1>3, <1>4
<1>6. FieldSet(i, f, v)
  BY <1>3, <1>5 DEF FieldSet
<1> QED
  BY <1>3, <1>5, <1>6 DEF BoardGains, FieldSet

LEMMA ItemIsMarked ==
  ASSUME board \in [Issues -> Intake!Item], NEW i \in Issues, NEW g \in {"member", "label"},
         board' = [board EXCEPT ![i][g] = TRUE]
  PROVE  Marked(i, g) /\ BoardGains
<1>1. board[i] \in Intake!Item
  OBVIOUS
<1>0. PICK v \in BOOLEAN : v = TRUE
  OBVIOUS
<1>2. PICK r : r = With(board[i], g, v)
  OBVIOUS
<1>3. /\ r \in Intake!Item /\ r[g] = v
      /\ \A f \in Intake!Fields \cup {"member", "label"} : f # g => r[f] = board[i][f]
  BY <1>1, <1>2, ItemMarked
<1>4. board' = [board EXCEPT ![i] = r]
  BY <1>0, <1>2 DEF With
<1>5. board' \in [Issues -> Intake!Item] /\ board'[i] = r
      /\ \A j \in Issues : j # i => board'[j] = board[j]
  BY <1>3, <1>4
<1>6. \A f \in Intake!Fields : f # g /\ r[f] = board[i][f]
  BY <1>3 DEF Intake!Fields
<1>7. CASE g = "member"
  <2>1. r.member = TRUE /\ r.label = board[i].label
    BY <1>0, <1>3, <1>7
  <2> QED
    BY <1>5, <1>6, <1>7, <2>1 DEF Marked, BoardGains
<1>8. CASE g = "label"
  <2>1. r.label = TRUE /\ r.member = board[i].member
    BY <1>0, <1>3, <1>8
  <2> QED
    BY <1>5, <1>6, <1>8, <2>1 DEF Marked, BoardGains
<1> QED
  BY <1>7, <1>8

(* The mutation the call at hand makes. *)
LEMMA WrittenIs ==
  ASSUME IntakeInv, intakePc \in Intake!Calls, board' = Intake!Written
  PROVE  /\ Intake!Issue \in Issues /\ Intake!Current \in batch
         /\ \/ intakePc \in Intake!Fields
               /\ FieldSet(Intake!Issue, intakePc, Intake!Mechanical[intakePc]) /\ BoardGains
            \/ intakePc = "add" /\ Marked(Intake!Issue, "member") /\ BoardGains
            \/ intakePc = "label" /\ Marked(Intake!Issue, "label") /\ BoardGains
            \/ intakePc \notin {"add", "label", "status", "priority"} /\ board' = board
<1>1. Intake!Current \in batch /\ Intake!Issue \in Issues
  BY OldestIs, IntakeNumbers DEF IntakeInv, AttachKnows, Intake!Current, Intake!Issue, Intake!TypeOK
<1>2. PICK i \in Issues : i = Intake!Issue
  BY <1>1
<1>3. board \in [Issues -> Intake!Item]
  BY DEF IntakeInv, Intake!TypeOK
<1>4. CASE intakePc = "status"
  BY <1>1, <1>2, <1>3, <1>4, FieldIsSet DEF Intake!Written, Intake!Fields
<1>5. CASE intakePc = "priority"
  BY <1>1, <1>2, <1>3, <1>5, FieldIsSet DEF Intake!Written, Intake!Fields
<1>6. CASE intakePc = "type"
  BY <1>1, <1>2, <1>3, <1>6, FieldIsSet DEF Intake!Written, Intake!Fields
<1>7. CASE intakePc = "add"
  BY <1>1, <1>2, <1>3, <1>7, ItemIsMarked DEF Intake!Written
<1>8. CASE intakePc = "label"
  BY <1>1, <1>2, <1>3, <1>8, ItemIsMarked DEF Intake!Written
<1>9. CASE intakePc \notin {"status", "priority", "type", "add", "label"}
  BY <1>1, <1>9 DEF Intake!Written
<1> QED
  BY <1>4, <1>5, <1>6, <1>7, <1>8, <1>9

(* The board changes by a call of the lane that is due, or by an edit. *)
LEMMA BoardChanges ==
  ASSUME [Intake!Next]_Intake!vars
  PROVE  \/ board' = board
         \/ /\ intakePc \in Intake!Calls /\ board' = Intake!Written
            /\ intakePc \in Intake!Fields => intakePc \in needs
         \/ Intake!Edit
<1>1. CASE Intake!Tick
  <2>1. CASE Intake!Add
    BY <2>1 DEF Intake!Add, Intake!Calls, Intake!Fields
  <2>2. ASSUME NEW f \in Intake!SingleSelects, Intake!WriteField(f)
        PROVE  intakePc \in Intake!Calls /\ board' = Intake!Written /\ intakePc \in needs
    BY <2>2 DEF Intake!WriteField, Intake!SingleSelects, Intake!Calls, Intake!Due
  <2>3. CASE Intake!WriteType
    BY <2>3 DEF Intake!WriteType, Intake!Calls, Intake!Due
  <2>4. CASE Intake!ApplyLabel
    BY <2>4 DEF Intake!ApplyLabel, Intake!Calls, Intake!Fields
  <2> QED
    BY <1>1, <2>1, <2>2, <2>3, <2>4
       DEF Intake!Tick, Intake!AttachIssue, Intake!Take, Intake!Skip, Intake!Attach,
           Intake!Lookup, Intake!ReadFields, Intake!PassField, Intake!ReadBack,
           Intake!Processed, Intake!Reput
<1>2. CASE Intake!CallFails
  BY <1>2 DEF Intake!CallFails, Intake!Due
<1> QED
  BY <1>1, <1>2 DEF Intake!Next, Intake!vars, Intake!ReputFails, Intake!Accept, Intake!Crash,
                    Intake!Quiet

(* An edit sets a field to what people choose, and the lane that has the   *)
(* issue in hand has raced with it; or it puts the issue on the board.     *)
LEMMA EditIs ==
  ASSUME IntakeInv, Intake!Edit
  PROVE  \/ \E i \in Issues : /\ Marked(i, "member") /\ BoardGains /\ raced' = raced
         \/ \E i \in Issues, f \in Intake!Fields :
              /\ FieldSet(i, f, Intake!Promoted[f]) /\ BoardGains
              /\ f = "type" \/ board[i].member
              /\ raced' = IF batch # {} /\ intakePc \in Intake!Calls /\ i = Intake!Issue
                          THEN raced \cup {f} ELSE raced
<1>1. board \in [Issues -> Intake!Item]
  BY DEF IntakeInv, Intake!TypeOK
<1>2. ASSUME NEW i \in Issues, board' = [board EXCEPT ![i].member = TRUE]
      PROVE  Marked(i, "member") /\ BoardGains
  BY <1>1, <1>2, ItemIsMarked
<1>3. ASSUME NEW i \in Issues, NEW f \in Intake!Fields,
             board' = [board EXCEPT ![i][f] = Intake!Promoted[f]]
      PROVE  FieldSet(i, f, Intake!Promoted[f]) /\ BoardGains
  BY <1>1, <1>3, FieldIsSet
<1> QED
  BY <1>2, <1>3 DEF Intake!Edit

(* Nothing is ever taken from the board. *)
LEMMA BoardStep ==
  ASSUME IntakeInv, [Intake!Next]_Intake!vars
  PROVE  /\ BoardGains
         /\ \A i \in Issues :
              ~board'[i].member => board'[i].status = "unset" /\ board'[i].priority = "unset"
<1>1. /\ board \in [Issues -> Intake!Item]
      /\ \A i \in Issues :
           ~board[i].member => board[i].status = "unset" /\ board[i].priority = "unset"
  BY DEF IntakeInv, Intake!TypeOK
<1>2. \A j, i, f, v : FieldSet(i, f, v) /\ j \in Issues =>
        /\ board'[j].member = board[j].member
        /\ board'[j].status = IF j = i /\ f = "status" THEN v ELSE board[j].status
        /\ board'[j].priority = IF j = i /\ f = "priority" THEN v ELSE board[j].priority
  BY DEF FieldSet, Intake!Fields
<1>3. \A j, i, g : Marked(i, g) /\ j \in Issues =>
        /\ board[j].member => board'[j].member
        /\ board'[j].status = board[j].status /\ board'[j].priority = board[j].priority
  BY DEF Marked, Intake!Fields
<1>4. CASE board' = board
  BY <1>1, <1>4 DEF BoardGains
<1>5. CASE intakePc \in Intake!Calls /\ board' = Intake!Written
  <2>1. intakePc \in Intake!Fields => board[Intake!Issue].member
    BY <1>5 DEF IntakeInv, AttachKnows, Intake!Fields
  <2>2. CASE /\ intakePc \in Intake!Fields
             /\ FieldSet(Intake!Issue, intakePc, Intake!Mechanical[intakePc]) /\ BoardGains
    BY <1>1, <1>2, <2>1, <2>2
  <2>3. CASE \E g : Marked(Intake!Issue, g) /\ BoardGains
    BY <1>1, <1>3, <2>3
  <2> QED
    BY <1>4, <1>5, <2>2, <2>3, WrittenIs
<1>6. CASE Intake!Edit
  <2>1. CASE \E i \in Issues : Marked(i, "member") /\ BoardGains
    BY <1>1, <1>3, <2>1
  <2>2. CASE \E i \in Issues, f \in Intake!Fields :
               /\ FieldSet(i, f, Intake!Promoted[f]) /\ BoardGains
               /\ f = "type" \/ board[i].member
    BY <1>1, <1>2, <2>2
  <2> QED
    BY <1>6, <2>1, <2>2, EditIs
<1> QED
  BY <1>4, <1>5, <1>6, BoardChanges

(* The batch only shrinks, except when the oldest rows are taken. *)
LEMMA BatchStep ==
  ASSUME IntakeInv, [Intake!Next]_Intake!vars
  PROVE  /\ IsFiniteSet(batch') /\ Intake!Cardinality(batch') <= TickLimit
         /\ batch' \in SUBSET batch \/ batch' \in SUBSET store
<1>1. IsFiniteSet(batch) /\ Cardinality(batch) <= TickLimit /\ store \subseteq Reports
  BY IntakeNumbers DEF IntakeInv, Intake!TypeOK
<1>2. CASE Intake!Take
  BY <1>1, <1>2, OldestRowsBound, IntakeNumbers DEF Intake!Take
<1>3. CASE batch' \in SUBSET batch
  <2>1. IsFiniteSet(batch') /\ Cardinality(batch') <= Cardinality(batch)
    BY <1>1, <1>3, FS_Subset
  <2>2. Cardinality(batch) \in Nat /\ Cardinality(batch') \in Nat
    BY <1>1, <2>1, FS_CardinalityType
  <2> QED
    BY <1>1, <1>3, <2>1, <2>2, IntakeNumbers
<1>4. CASE ~Intake!Take
  <2>1. batch' \in SUBSET batch
    BY <1>4 DEF Intake!Next, Intake!Tick, Intake!AttachIssue, Intake!Skip, Intake!Attach,
                Intake!Lookup, Intake!ReadFields, Intake!Add, Intake!PassField,
                Intake!WriteField, Intake!ReadBack, Intake!AttachFailed, Intake!WriteType,
                Intake!ApplyLabel, Intake!Processed, Intake!Reput, Intake!CallFails,
                Intake!ReputFails, Intake!Accept, Intake!Edit, Intake!Crash, Intake!Quiet,
                Intake!lane, Intake!vars
  <2> QED
    BY <1>3, <2>1
<1> QED
  BY <1>2, <1>4

(* The rest of the lane's state is well typed. *)
IntakeRest ==
  /\ intakeAccepted \in 0 .. Intake!Cardinality(Reports)
  /\ store \subseteq 1 .. intakeAccepted /\ batch \cup failed \subseteq 1 .. intakeAccepted
  /\ intakePc \in Intake!Calls \cup {"sleep", "next", "reput"}
  /\ intakePc = "reput" => failed # {}
  /\ fresh \in BOOLEAN /\ needs \subseteq Intake!Fields
  /\ edits \in 0 .. Edits /\ intakeFaults \in 0 .. ReportFaults /\ crashes \in 0 .. MaxCrashes
  /\ raced \subseteq Intake!Fields
  /\ attached \subseteq Reports /\ dropped \subseteq Reports /\ intakeLost \subseteq Reports

LEMMA IntakeRestStep ==
  ASSUME IntakeInv, [Intake!Next]_Intake!vars
  PROVE  IntakeRest'
<1>1. /\ IntakeRest /\ intakeAccepted \in Nat /\ 1 .. intakeAccepted \subseteq Reports
      /\ batch \subseteq Reports /\ failed \subseteq Reports
  BY IntakeNumbers DEF IntakeInv, Intake!TypeOK, IntakeRest
<1>2. batch # {} => Intake!Current \in batch
  BY <1>1, OldestIs DEF Intake!Current
<1>3. failed # {} => Intake!Oldest(failed) \in failed
  BY <1>1, OldestIs
<1>4. intakePc \in Intake!Calls => batch # {}
  BY DEF IntakeInv, AttachKnows
<1> USE DEF IntakeRest, Intake!bounds, Intake!ends, Intake!lane
<1>5. CASE Intake!Take
  BY <1>1, <1>5 DEF Intake!Take, Intake!OldestRows, Intake!Calls
<1>6. CASE Intake!Skip \/ Intake!Attach \/ Intake!Processed
  BY <1>1, <1>2, <1>6 DEF Intake!Skip, Intake!Attach, Intake!Processed, Intake!Calls
<1>7. CASE Intake!Lookup \/ Intake!ReadFields \/ Intake!Add
  BY <1>1, <1>7 DEF Intake!Lookup, Intake!ReadFields, Intake!Add, Intake!Unset,
                    Intake!Repairs, Intake!FreshNeeds, Intake!Calls, Intake!Fields
<1>8. ASSUME NEW f \in Intake!Fields, Intake!PassField(f)
      PROVE  IntakeRest'
  BY <1>1, <1>8 DEF Intake!PassField, Intake!After, Intake!Calls, Intake!Fields
<1>9. ASSUME NEW f \in Intake!SingleSelects, Intake!WriteField(f)
      PROVE  IntakeRest'
  BY <1>1, <1>9 DEF Intake!WriteField, Intake!Check, Intake!Calls, Intake!SingleSelects
<1>10. ASSUME NEW f \in Intake!SingleSelects, Intake!ReadBack(f)
       PROVE  IntakeRest'
  <2>1. intakePc \in Intake!Calls /\ Intake!After[f] \in Intake!Calls
    BY <1>10 DEF Intake!ReadBack, Intake!After, Intake!Check, Intake!Calls, Intake!SingleSelects
  <2>2. CASE Intake!AttachFailed
    BY <1>1, <1>2, <1>4, <1>10, <2>1, <2>2 DEF Intake!ReadBack, Intake!AttachFailed
  <2>3. CASE intakePc' = Intake!After[f] /\ UNCHANGED <<batch, failed, fresh, needs, raced>>
    <3>1. Intake!After[f] # "reput"
      BY <2>1 DEF Intake!Calls
    <3> QED
      BY <1>1, <1>10, <2>1, <2>3, <3>1 DEF Intake!ReadBack
  <2> QED
    BY <1>10, <2>2, <2>3 DEF Intake!ReadBack
<1>11. CASE Intake!WriteType
  BY <1>1, <1>2, <1>4, <1>11 DEF Intake!WriteType, Intake!AttachFailed, Intake!Calls
<1>12. CASE Intake!ApplyLabel
  BY <1>1, <1>2, <1>4, <1>12 DEF Intake!ApplyLabel, Intake!Calls
<1>13. CASE Intake!Reput
  BY <1>1, <1>3, <1>13 DEF Intake!Reput
<1>14. CASE Intake!CallFails
  <2>1. intakeFaults' \in 0 .. ReportFaults
    BY <1>1, <1>14, IntakeNumbers DEF Intake!CallFails
  <2> QED
    BY <1>1, <1>2, <1>4, <1>14, <2>1 DEF Intake!CallFails, Intake!AttachFailed
<1>15. CASE Intake!ReputFails
  <2>1. intakeFaults' \in 0 .. ReportFaults
    BY <1>1, <1>15, IntakeNumbers DEF Intake!ReputFails
  <2> QED
    BY <1>1, <1>3, <1>15, <2>1 DEF Intake!ReputFails
<1>16. CASE Intake!Accept
  <2>1. PICK m \in Nat : m = Intake!Cardinality(Reports)
    BY IntakeNumbers
  <2>2. intakeAccepted' \in 0 .. m
    BY <1>1, <1>16, <2>1 DEF Intake!Accept
  <2>3. 1 .. intakeAccepted \subseteq 1 .. intakeAccepted' /\ intakeAccepted' \in 1 .. intakeAccepted'
    BY <1>1, <1>16 DEF Intake!Accept
  <2> QED
    BY <1>1, <1>16, <2>1, <2>2, <2>3 DEF Intake!Accept
<1>17. CASE Intake!Edit
  <2>1. edits' \in 0 .. Edits
    BY <1>1, <1>17, IntakeNumbers DEF Intake!Edit
  <2>2. raced' \subseteq Intake!Fields
    BY <1>1, <1>17 DEF Intake!Edit
  <2> QED
    BY <1>1, <1>17, <2>1, <2>2 DEF Intake!Edit
<1>18. CASE Intake!Crash
  <2>1. crashes' \in 0 .. MaxCrashes
    BY <1>1, <1>18, IntakeNumbers DEF Intake!Crash
  <2> QED
    BY <1>1, <1>18, <2>1 DEF Intake!Crash
<1>19. CASE Intake!Quiet \/ UNCHANGED Intake!vars
  BY <1>1, <1>19 DEF Intake!Quiet, Intake!vars
<1> QED
  BY <1>5, <1>6, <1>7, <1>8, <1>9, <1>10, <1>11, <1>12, <1>13, <1>14, <1>15, <1>16, <1>17,
     <1>18, <1>19
     DEF Intake!Next, Intake!Tick, Intake!AttachIssue

(* The issue in hand stays in hand as long as the batch does. *)
LEMMA IssueStays ==
  ASSUME batch' = batch
  PROVE  Intake!Issue' = Intake!Issue
BY DEF Intake!Issue, Intake!Current, Intake!Oldest

(* The fields one by one. *)
LEMMA FieldOrder ==
  /\ Intake!Fields = {"status", "priority", "type"}
  /\ Ahead["status"] = {"status"}
  /\ Ahead["priority"] = {"status", "statusCheck", "priority"}
  /\ Ahead["type"] = {"add", "read", "status", "statusCheck", "priority", "priorityCheck", "type"}
  /\ Behind["status"] = {"priority", "priorityCheck", "type", "label"}
  /\ Behind["priority"] = {"type", "label"}
  /\ Behind["type"] = {"label"}
BY DEF Intake!Fields, Ahead, Behind

LEMMA KnowsStep ==
  ASSUME IntakeInv, [Intake!Next]_Intake!vars
  PROVE  AttachKnows'
<1>1. SUFFICES ASSUME intakePc' \in Intake!Calls
               PROVE  AttachKnows'
  BY DEF AttachKnows, Intake!Calls
<1>2. PICK i : i = Intake!Issue
  OBVIOUS
<1>3. IsFiniteSet(batch) /\ BoardGains
      /\ \A j \in Issues :
           ~board[j].member => board[j].status = "unset" /\ board[j].priority = "unset"
  BY BoardStep DEF IntakeInv
<1>4. batch # {} => i \in Issues
  BY <1>2, OldestIs, IntakeNumbers DEF IntakeInv, Intake!Current, Intake!Issue, Intake!TypeOK
<1> DEFINE Known(p, n, r, b) ==
      /\ p \notin {"lookup", "add"} => b.member
      /\ \A f \in Intake!Fields :
           /\ p \in Ahead[f] /\ f \notin n => b[f] # "unset"
           /\ p \in Ahead[f] /\ f \in n => b[f] = "unset" \/ f \in r
           /\ p \in Behind[f] => b[f] # "unset"
      /\ p \in {"add", "read"} => n \subseteq {"type"}
      /\ p = "add" => \A f \in {"status", "priority"} : b[f] = "unset" \/ f \in r
<1>5. intakePc \in Intake!Calls => batch # {} /\ Known(intakePc, needs, raced, board[i])
  BY <1>2 DEF IntakeInv, AttachKnows
<1>6. SUFFICES ASSUME batch' = batch, batch # {}
               PROVE  Known(intakePc', needs', raced', board'[i])
  <2>1. CASE Intake!AttachFailed \/ Intake!Take \/ Intake!Skip \/ Intake!Processed \/ Intake!ApplyLabel
             \/ Intake!Reput \/ Intake!ReputFails \/ Intake!Crash \/ Intake!CallFails
    BY <1>1, <2>1 DEF Intake!AttachFailed, Intake!Take, Intake!Skip, Intake!Processed, Intake!Calls,
                      Intake!ApplyLabel, Intake!Reput, Intake!ReputFails, Intake!Crash,
                      Intake!CallFails
  <2>3. CASE Intake!Attach
    BY <1>2, <1>6, <2>3, IssueStays DEF Intake!Attach, AttachKnows
  <2>4. CASE ~Intake!AttachFailed /\ ~Intake!Attach /\ intakePc \in Intake!Calls /\ batch' = batch
    BY <1>2, <1>5, <1>6, <2>4, IssueStays DEF AttachKnows
  <2>5. CASE Intake!Lookup \/ Intake!ReadFields \/ Intake!Add
    BY <1>2, <1>5, <1>6, <2>5, IssueStays
       DEF AttachKnows, Intake!Lookup, Intake!ReadFields, Intake!Add, Intake!Calls
  <2>6. ASSUME NEW f \in Intake!Fields, Intake!PassField(f)
        PROVE  batch' = batch /\ intakePc \in Intake!Calls
    BY <2>6 DEF Intake!PassField, Intake!Fields, Intake!Calls
  <2>7. ASSUME NEW f \in Intake!SingleSelects,
               Intake!WriteField(f) \/ (Intake!ReadBack(f) /\ ~Intake!AttachFailed)
        PROVE  batch' = batch /\ intakePc \in Intake!Calls
    BY <2>7 DEF Intake!WriteField, Intake!ReadBack, Intake!SingleSelects, Intake!Check, Intake!Calls
  <2>8. CASE Intake!WriteType /\ ~Intake!AttachFailed
    BY <1>2, <1>5, <1>6, <2>8, IssueStays DEF AttachKnows, Intake!WriteType, Intake!Calls
  <2>9. CASE Intake!Accept \/ Intake!Edit \/ Intake!Quiet \/ UNCHANGED Intake!vars
    <3>1. batch' = batch /\ intakePc' = intakePc
      BY <2>9 DEF Intake!Accept, Intake!Edit, Intake!Quiet, Intake!vars, Intake!lane
    <3> QED
      BY <1>1, <1>2, <1>5, <1>6, <3>1, IssueStays DEF AttachKnows
  <2> QED
    BY <2>1, <2>3, <2>4, <2>5, <2>6, <2>7, <2>8, <2>9
       DEF Intake!Next, Intake!Tick, Intake!AttachIssue
<1>7. i \in Issues
  BY <1>4, <1>6
<1>8. /\ \A f \in Intake!Fields : board[i][f] # "unset" => board'[i][f] # "unset"
      /\ board[i].member => board'[i].member
  BY <1>3, <1>7 DEF BoardGains
<1> USE <1>7 DEF Intake!Calls
<1>9. CASE Intake!Attach
  BY <1>9, FieldOrder DEF Intake!Attach
<1>10. CASE Intake!Lookup
  <2>1. /\ raced' = {} /\ board' = board /\ needs' = {f \in {"type"} : board[i][f] = "unset"}
        /\ \/ intakePc' = "add" /\ ~board[i].member
           \/ intakePc' = "read" /\ board[i].member
    BY <1>10, <1>2 DEF Intake!Lookup, Intake!Unset
  <2>2. intakePc' = "add" => board[i].status = "unset" /\ board[i].priority = "unset"
    BY <1>3, <2>1
  <2>3. CASE intakePc' = "add"
    BY <2>1, <2>2, <2>3, FieldOrder
  <2>4. CASE intakePc' = "read"
    BY <2>1, <2>4, FieldOrder
  <2> QED
    BY <2>1, <2>3, <2>4
<1>11. CASE Intake!ReadFields
  <2>1. /\ intakePc = "read" /\ intakePc' = "status" /\ board' = board
        /\ raced' = raced \ {"status", "priority"}
        /\ needs' = needs \cup {f \in {"status", "priority"} : board[i][f] = "unset"}
    BY <1>11, <1>2 DEF Intake!ReadFields, Intake!Repairs, Intake!Unset
  <2>2. /\ board[i].member
        /\ "type" \notin needs => board[i].type # "unset"
        /\ "type" \in needs => board[i].type = "unset" \/ "type" \in raced
    BY <1>5, <2>1, FieldOrder
  <2>3. /\ "status" \in needs' <=> board[i].status = "unset"
        /\ "priority" \in needs' <=> board[i].priority = "unset"
        /\ "type" \in needs' <=> "type" \in needs
    BY <1>5, <2>1
  <2> QED
    BY <2>1, <2>2, <2>3, FieldOrder
<1>12. CASE Intake!Add
  <2>1. /\ intakePc = "add" /\ intakePc' = "status" /\ Marked(i, "member") /\ raced' = raced
        /\ needs' = needs \cup {"status", "priority"}
    BY <1>12, <1>2, WrittenIs DEF Intake!Add, Intake!FreshNeeds, Intake!Fields
  <2>2. board'[i].member /\ \A f \in Intake!Fields : board'[i][f] = board[i][f]
    BY <2>1 DEF Marked
  <2>3. /\ "type" \notin needs => board[i].type # "unset"
        /\ "type" \in needs => board[i].type = "unset" \/ "type" \in raced
        /\ board[i].status = "unset" \/ "status" \in raced
        /\ board[i].priority = "unset" \/ "priority" \in raced
    BY <1>5, <2>1, FieldOrder
  <2> QED
    BY <2>1, <2>2, <2>3, FieldOrder
<1>13. ASSUME NEW f \in Intake!Fields, Intake!PassField(f)
       PROVE  Known(intakePc', needs', raced', board'[i])
  <2>1. /\ intakePc = f /\ f \notin needs /\ intakePc' = Intake!After[f]
        /\ needs' = needs /\ raced' = raced /\ board' = board
    BY <1>13 DEF Intake!PassField, Intake!Due
  <2>2. CASE f = "status"
    BY <1>5, <2>1, <2>2, FieldOrder DEF Intake!After
  <2>3. CASE f = "priority"
    BY <1>5, <2>1, <2>3, FieldOrder DEF Intake!After
  <2>4. CASE f = "type"
    BY <1>5, <2>1, <2>4, FieldOrder DEF Intake!After
  <2> QED
    BY <2>2, <2>3, <2>4, FieldOrder
<1>14. ASSUME NEW f \in Intake!SingleSelects, Intake!WriteField(f)
       PROVE  Known(intakePc', needs', raced', board'[i])
  <2>1. /\ f \in Intake!Fields /\ f \in {"status", "priority"} /\ intakePc = f
        /\ intakePc' = Intake!Check[f]
        /\ needs' = needs /\ raced' = raced /\ board' = Intake!Written
    BY <1>14 DEF Intake!WriteField, Intake!Fields, Intake!SingleSelects
  <2>2. FieldSet(i, f, Intake!Mechanical[f])
    BY <1>2, <2>1, WrittenIs
  <2>3. /\ board'[i].member = board[i].member
        /\ \A g \in Intake!Fields : g # f => board'[i][g] = board[i][g]
    BY <2>2 DEF FieldSet
  <2>4. CASE f = "status"
    BY <1>5, <1>8, <2>1, <2>3, <2>4, FieldOrder DEF Intake!Check
  <2>5. CASE f = "priority"
    BY <1>5, <1>8, <2>1, <2>3, <2>5, FieldOrder DEF Intake!Check
  <2> QED
    BY <2>1, <2>4, <2>5
<1>15. ASSUME NEW f \in Intake!SingleSelects, Intake!ReadBack(f)
       PROVE  Known(intakePc', needs', raced', board'[i])
  <2>1. /\ f \in {"status", "priority"} /\ intakePc = Intake!Check[f]
        /\ intakePc' = Intake!After[f] /\ board[i][f] = Intake!Mechanical[f]
        /\ needs' = needs /\ raced' = raced /\ board' = board
    BY <1>1, <1>2, <1>15 DEF Intake!ReadBack, Intake!AttachFailed, Intake!SingleSelects
  <2>2. board[i][f] # "unset"
    BY <2>1 DEF Intake!Mechanical
  <2>3. CASE f = "status"
    BY <1>5, <2>1, <2>2, <2>3, FieldOrder DEF Intake!After, Intake!Check
  <2>4. CASE f = "priority"
    BY <1>5, <2>1, <2>2, <2>4, FieldOrder DEF Intake!After, Intake!Check
  <2> QED
    BY <2>1, <2>3, <2>4
<1>16. CASE Intake!WriteType
  <2>1. /\ intakePc = "type" /\ intakePc' = "label" /\ board' = Intake!Written
        /\ Intake!Issue \notin Untypable
    BY <1>1, <1>16 DEF Intake!WriteType, Intake!AttachFailed
  <2>2. board' = [board EXCEPT ![i]["type"] = "Bug"]
    BY <1>2, <2>1 DEF Intake!Written, Intake!Mechanical
  <2>3. board'[i].type # "unset"
    BY <2>2 DEF IntakeInv, Intake!TypeOK, Intake!Item
  <2> QED
    BY <1>5, <1>8, <2>1, <2>3, FieldOrder
<1>17. CASE Intake!Edit
  <2>1. intakePc' = intakePc /\ needs' = needs
    BY <1>17 DEF Intake!Edit, Intake!lane
  <2>2. CASE raced' = raced /\ \A f \in Intake!Fields : board'[i][f] = board[i][f]
    BY <1>1, <1>5, <1>8, <2>1, <2>2, FieldOrder
  <2>3. ASSUME NEW f \in Intake!Fields, raced' = raced \cup {f},
               \A g \in Intake!Fields : g # f => board'[i][g] = board[i][g]
        PROVE  Known(intakePc', needs', raced', board'[i])
    BY <1>1, <1>5, <1>8, <2>1, <2>3, FieldOrder
  <2>4. CASE \E j \in Issues : Marked(j, "member") /\ BoardGains /\ raced' = raced
    BY <2>2, <2>4 DEF Marked
  <2>5. ASSUME NEW j \in Issues, NEW f \in Intake!Fields, FieldSet(j, f, Intake!Promoted[f]),
               raced' = IF batch # {} /\ intakePc \in Intake!Calls /\ j = Intake!Issue
                        THEN raced \cup {f} ELSE raced
        PROVE  Known(intakePc', needs', raced', board'[i])
    <3>1. CASE j = i
      BY <1>1, <1>2, <1>6, <2>1, <2>3, <2>5, <3>1 DEF FieldSet
    <3>2. CASE j # i
      BY <1>2, <2>2, <2>5, <3>2 DEF FieldSet
    <3> QED
      BY <3>1, <3>2
  <2> QED
    BY <1>17, <2>4, <2>5, EditIs
<1>18. CASE Intake!Accept \/ Intake!Quiet \/ UNCHANGED Intake!vars
  <2>1. intakePc' = intakePc /\ needs' = needs /\ raced' = raced /\ board' = board
    BY <1>18 DEF Intake!Accept, Intake!Quiet, Intake!lane, Intake!vars
  <2> QED
    BY <1>1, <1>5, <2>1
<1>19. CASE Intake!Take \/ Intake!Skip \/ Intake!Processed \/ Intake!ApplyLabel
            \/ Intake!Reput \/ Intake!ReputFails \/ Intake!Crash \/ Intake!CallFails
  BY <1>1, <1>19 DEF Intake!AttachFailed, Intake!Take, Intake!Skip, Intake!Processed,
                     Intake!ApplyLabel, Intake!Reput, Intake!ReputFails, Intake!Crash,
                     Intake!CallFails
<1> QED
  BY <1>9, <1>10, <1>11, <1>12, <1>13, <1>14, <1>15, <1>16, <1>17, <1>18, <1>19
     DEF Intake!Next, Intake!Tick, Intake!AttachIssue

(* An item that is complete stays complete, and an event is attached only  *)
(* at the last call, when every field is behind.                           *)
LEMMA FinishedStep ==
  ASSUME IntakeInv, [Intake!Next]_Intake!vars
  PROVE  Intake!FinishedIsComplete'
<1>1. /\ BoardGains /\ attached \subseteq Reports /\ IssueOf \in [Reports -> Issues]
      /\ Intake!FinishedIsComplete
  BY BoardStep, IntakeNumbers DEF IntakeInv, Intake!TypeOK
<1>2. \A e \in attached : Intake!Complete(IssueOf[e])'
  BY <1>1 DEF BoardGains, Intake!FinishedIsComplete, Intake!Complete
<1>3. CASE Intake!ApplyLabel
  <2>1. PICK i \in Issues : i = Intake!Issue /\ Marked(i, "label")
    BY <1>3, WrittenIs DEF Intake!ApplyLabel, Intake!Calls, Intake!Fields
  <2>2. board[i].member /\ \A f \in Intake!Fields : board[i][f] # "unset"
    BY <1>3, <2>1, FieldOrder DEF IntakeInv, AttachKnows, Intake!ApplyLabel, Intake!Calls
  <2>3. Intake!Complete(i)'
    BY <1>1, <2>1, <2>2 DEF Marked, BoardGains, Intake!Complete
  <2>4. attached' = attached \cup {Intake!Current} /\ IssueOf[Intake!Current] = i
    BY <1>3, <2>1 DEF Intake!ApplyLabel, Intake!Issue
  <2> QED
    BY <1>2, <2>3, <2>4 DEF Intake!FinishedIsComplete
<1>4. CASE attached' = attached
  BY <1>2, <1>4 DEF Intake!FinishedIsComplete
<1>5. attached' = attached \/ Intake!ApplyLabel
  BY DEF Intake!Next, Intake!Tick, Intake!AttachIssue, Intake!Take, Intake!Skip, Intake!Attach,
         Intake!Lookup, Intake!ReadFields, Intake!Add, Intake!PassField, Intake!WriteField,
         Intake!ReadBack, Intake!WriteType, Intake!Processed, Intake!Reput, Intake!CallFails,
         Intake!ReputFails, Intake!Accept, Intake!Edit, Intake!Crash, Intake!Quiet, Intake!ends,
         Intake!vars
<1> QED
  BY <1>3, <1>4, <1>5

LEMMA IntakeStep ==
  ASSUME IntakeInv, [Intake!Next]_Intake!vars
  PROVE  IntakeInv'
<1>1. IntakeRest' /\ AttachKnows' /\ Intake!FinishedIsComplete'
  BY IntakeRestStep, KnowsStep, FinishedStep
<1>2. board' \in [Issues -> Intake!Item]
      /\ \A i \in Issues :
           ~board'[i].member => board'[i].status = "unset" /\ board'[i].priority = "unset"
  BY BoardStep DEF BoardGains
<1>3. IsFiniteSet(batch') /\ Intake!Cardinality(batch') <= TickLimit
  BY BatchStep
<1>4. 1 .. intakeAccepted' \subseteq Reports
  BY <1>1, IntakeNumbers DEF IntakeRest
<1>5. Intake!Cardinality(batch)' <= TickLimit
  BY <1>3 DEF Intake!Cardinality
<1>6. intakeAccepted' \in 0 .. Intake!Cardinality(Reports)
  BY <1>1 DEF IntakeRest
<1>7. Intake!TypeOK'
  BY <1>1, <1>2, <1>4, <1>5, <1>6 DEF IntakeRest, Intake!TypeOK
<1> QED
  BY <1>1, <1>2, <1>3, <1>7 DEF IntakeInv, IntakeRest

(* The lane overwrites only what was unset when it looked. *)
LEMMA PromotionStep ==
  ASSUME IntakeInv, [Intake!Next]_Intake!vars,
         NEW i \in Issues, NEW f \in Intake!Fields,
         board[i][f] = Intake!Promoted[f], board'[i][f] # Intake!Promoted[f]
  PROVE  f \in raced
<1>1. Intake!Promoted[f] # "unset"
  BY DEF Intake!Promoted, Intake!Fields
<1>2. CASE Intake!Edit
  <2>1. CASE \E j \in Issues : Marked(j, "member")
    BY <2>1 DEF Marked
  <2>2. CASE \E j \in Issues, g \in Intake!Fields : FieldSet(j, g, Intake!Promoted[g])
    BY <2>2 DEF FieldSet
  <2> QED
    BY <1>2, <2>1, <2>2, EditIs
<1>3. CASE /\ intakePc \in Intake!Calls /\ board' = Intake!Written
           /\ intakePc \in Intake!Fields => intakePc \in needs
  <2>1. CASE \E g : Marked(Intake!Issue, g)
    BY <2>1 DEF Marked
  <2>2. CASE intakePc \in Intake!Fields
             /\ FieldSet(Intake!Issue, intakePc, Intake!Mechanical[intakePc])
    <3>1. i = Intake!Issue /\ f = intakePc
      BY <2>2 DEF FieldSet
    <3>2. intakePc \in Ahead[f] /\ f \in needs
      BY <1>3, <2>2, <3>1, FieldOrder
    <3>3. board[i][f] = "unset" \/ f \in raced
      BY <1>3, <3>1, <3>2 DEF IntakeInv, AttachKnows
    <3> QED
      BY <1>1, <3>3
  <2> QED
    BY <1>3, <2>1, <2>2, WrittenIs
<1> QED
  BY <1>2, <1>3, BoardChanges

-----------------------------------------------------------------------------
(***************************************************************************)
(* The poller.  A poll that walks its pages has seen every event up to the *)
(* newest one it read (top) that its pages reach, although the feed grows  *)
(* under it; one that judges has nothing older than its boundary in hand,  *)
(* and what is left of the feed below top is judged, beyond the page cap,  *)
(* or old.  An accepted event is below the boundary or its key is alive.   *)
(***************************************************************************)

Seen == Poller!Elements(items)

(* The bookkeeping stays within the feed; between polls there is no poll. *)
PollTyped ==
  /\ Poller!TypeOK
  /\ boundary <= Len(feed) /\ top <= Len(feed) /\ last <= Len(feed) /\ born <= Len(feed)
  /\ beyond <= Len(feed) /\ Seen \subseteq 1 .. Len(feed)
  /\ pollerPc = "idle" => items = <<>> /\ top = 0 /\ beyond = 0
  /\ pollerPc = "paging" => pages \in 1 .. MaxPages - 1
  /\ pollerPc = "mirror" => at <= Len(items)

(* While the pages are walked. *)
PagingKnows ==
  pollerPc = "paging" =>
    /\ last = boundary /\ last <= top /\ \A id \in Seen : id <= top
    /\ ~pollerBaselined => last <= born
    /\ pollerBaselined => \A id \in Seen : id <= last \/ id > born
    /\ \A id \in 1 .. Len(feed) :
         /\ id <= top \/ id <= born
         /\ id > Len(feed) - pages * PageSize /\ feed[id] # "malformed"
         => id \in Seen

(* While the items are judged. *)
ProcessKnows ==
  pollerPc \in {"process", "mirror"} =>
    /\ pollerBaselined /\ last = boundary
    /\ \A id \in Seen : id > last /\ id > born
    /\ \A id \in 1 .. Len(feed) :
         id <= top /\ id > last /\ Poller!Tracked(id) => id \in Seen \/ id <= beyond
    /\ \A j \in 1 .. Len(items) : j < at => items[j] \in judged
    /\ pollerPc = "mirror" => items[at] \in judged

(* While the baseline is taken. *)
BaselineKnows ==
  pollerPc \in {"baseline", "raise"} =>
    /\ ~pollerBaselined /\ last <= born /\ boundary <= top /\ \A id \in Seen : id <= top
    /\ \A id \in 1 .. Len(feed) :
         id <= top /\ Poller!Tracked(id) => id \in Seen \/ id <= beyond \/ id <= born
    /\ \A id \in 1 .. born :
         \/ feed[id] = "malformed" \/ \E x \in Seen : id <= x
         \/ id <= Len(feed) - MaxPages * PageSize
    /\ \A j \in 1 .. Len(items) :
         Poller!Tracked(items[j]) /\ (pollerPc = "raise" \/ j < at) => items[j] \in judged
    /\ pollerPc = "raise" => \A j \in 1 .. Len(items) : j < at => items[j] <= boundary

(* What was there before the baseline is silent and stays out of reach. *)
SilenceKept ==
  /\ ~pollerBaselined => \A id \in Poller!Ids : times[id] = 0
  /\ Poller!BaselineSilent
  /\ pollerBaselined =>
       \A id \in 1 .. born :
         \/ id <= boundary \/ feed[id] = "malformed"
         \/ id <= Len(feed) - MaxPages * PageSize

(* The delivery keys that still count. *)
Alive == pollerDeliveries \ aged

(* What was accepted is known by its key or by the boundary. *)
AcceptedKnown ==
  /\ \A id \in Poller!Ids :
       times[id] # 0 /\ id \notin lapsed => times[id] = 1 /\ (id <= boundary \/ id \in Alive)
  /\ pollerPc = "mirror" =>
       items[at] \in Alive /\ (times[items[at]] = 0 \/ items[at] \in lapsed)

PollerInv ==
  /\ PollTyped /\ PagingKnows /\ ProcessKnows /\ BaselineKnows
  /\ SilenceKept /\ AcceptedKnown /\ Poller!NothingJumpedOver

LEMMA PollerNumbers ==
  /\ FeedKinds \subseteq {"opened", "comment", "untracked", "malformed"}
  /\ PageSize \in Nat \ {0} /\ MaxPages \in Nat \ {0} /\ Capacity \in Nat \ {0}
  /\ FeedLength \in Nat /\ PollFaults \in Nat
BY IngressAssumption DEF Poller!EventPollerAssumption

(* The newest of some numbers up to a bound is one of them, and no other   *)
(* is above it.                                                            *)
LEMMA NewestIs ==
  ASSUME NEW n \in Nat, NEW S, S \subseteq 0 .. n, S # {}
  PROVE  Poller!Newest(S) \in S /\ \A y \in S : y <= Poller!Newest(S)
<1> DEFINE U == {m \in 0 .. n : \A y \in S : y <= m}
<1>1. n \in U /\ U \subseteq Nat
  OBVIOUS
<1>2. PICK m \in U : \A u \in U : ~(<<u, m>> \in OpToRel(<, Nat))
  BY <1>1, WFMin, NatLessThanWellFounded
<1>3. m \in 0 .. n /\ (\A y \in S : y <= m) /\ \A u \in U : ~(u < m)
  BY <1>1, <1>2 DEF OpToRel
<1>4. m \in S
  <2>1. SUFFICES ASSUME m \notin S
                 PROVE  FALSE
    OBVIOUS
  <2>2. \A y \in S : y \in 0 .. n /\ y <= m - 1
    <3>1. \A y \in S : y \in 0 .. n /\ y <= m /\ y # m
      BY <1>3, <2>1
    <3> QED
      BY <1>3, <3>1
  <2>3. m - 1 \in 0 .. n
    <3>1. PICK y \in S : TRUE
      OBVIOUS
    <3>2. y \in 0 .. n /\ y <= m - 1
      BY <2>2, <3>1
    <3> QED
      BY <1>3, <3>2
  <2>4. m - 1 \in U /\ m - 1 < m
    BY <2>2, <2>3
  <2> QED
    BY <1>3, <2>4
<1> QED
  BY <1>3, <1>4 DEF Poller!Newest

(* The members of a concatenation. *)
LEMMA ElementsOfBoth ==
  ASSUME NEW X, NEW s \in Seq(X), NEW t \in Seq(X)
  PROVE  /\ s \o t \in Seq(X)
         /\ Poller!Elements(s \o t) = Poller!Elements(s) \cup Poller!Elements(t)
<1>1. PICK u : u = s \o t
  OBVIOUS
<1>2. /\ u \in Seq(X) /\ Len(u) = Len(s) + Len(t) /\ Len(s) \in Nat /\ Len(t) \in Nat
      /\ \A j \in 1 .. Len(s) : u[j] = s[j]
      /\ \A j \in 1 .. Len(t) : u[Len(s) + j] = t[j]
  BY <1>1
<1>3. \A j \in 1 .. Len(u) : \/ j \in 1 .. Len(s)
                             \/ j - Len(s) \in 1 .. Len(t) /\ Len(s) + (j - Len(s)) = j
  BY <1>2
<1>4. \A j \in 1 .. Len(u) : u[j] \in Poller!Elements(s) \cup Poller!Elements(t)
  BY <1>2, <1>3 DEF Poller!Elements
<1>5. /\ \A j \in 1 .. Len(s) : j \in 1 .. Len(u)
      /\ \A j \in 1 .. Len(t) : Len(s) + j \in 1 .. Len(u)
  BY <1>2
<1>6. /\ \A j \in 1 .. Len(s) : s[j] \in Poller!Elements(u)
      /\ \A j \in 1 .. Len(t) : t[j] \in Poller!Elements(u)
  BY <1>2, <1>5 DEF Poller!Elements
<1>7. Poller!Elements(u) = Poller!Elements(s) \cup Poller!Elements(t)
  BY <1>4, <1>6 DEF Poller!Elements
<1> QED
  BY <1>1, <1>2, <1>7

(* The members of what is kept. *)
LEMMA ElementsKept ==
  ASSUME NEW X, NEW s \in Seq(X), NEW T
  PROVE  /\ Poller!Kept(s, T) \in Seq(X)
         /\ Poller!Elements(Poller!Kept(s, T)) = Poller!Elements(s) \cap T
<1>1. PICK k : k = KeptOf(s, T) /\ k = Poller!Kept(s, T)
  BY PollerKept
<1>2. /\ k \in Seq(X)
      /\ \A i \in 1 .. Len(k) : k[i] \in T /\ \E j \in 1 .. Len(s) : k[i] = s[j]
      /\ \A j \in 1 .. Len(s) : s[j] \in T => \E i \in 1 .. Len(k) : k[i] = s[j]
  <2>1. /\ KeptOf(s, T) \in Seq(X)
        /\ \A i \in 1 .. Len(KeptOf(s, T)) :
             KeptOf(s, T)[i] \in T /\ \E j \in 1 .. Len(s) : KeptOf(s, T)[i] = s[j]
        /\ \A j \in 1 .. Len(s) :
             s[j] \in T => \E i \in 1 .. Len(KeptOf(s, T)) : KeptOf(s, T)[i] = s[j]
    BY KeptOfIs
  <2> QED
    BY <1>1, <2>1
<1>3. Poller!Elements(k) = Poller!Elements(s) \cap T
  BY <1>2 DEF Poller!Elements
<1> QED
  BY <1>1, <1>2, <1>3

(* The events of page k: those between its two edges. *)
LEMMA PageIs ==
  ASSUME NEW n \in Nat, n = Len(feed), NEW k \in Nat \ {0}, NEW q \in Nat, q = (k - 1) * PageSize,
         NEW P, P = Poller!Parsed(Poller!Page(k))
  PROVE  /\ P \in Seq(1 .. n)
         /\ \A id : id \in Poller!Elements(P) <=>
              /\ id \in 1 .. n /\ feed[id] # "malformed"
              /\ id <= n - q /\ id > n - q - PageSize
<1>1. PICK f \in Int : f = n - q
  OBVIOUS
<1>2. PICK z \in Nat : z = IF f >= PageSize THEN PageSize ELSE IF f > 0 THEN f ELSE 0
  BY PollerNumbers
<1>3. PICK s : s = [j \in 1 .. z |-> f - j + 1]
  OBVIOUS
<1>4. s = Poller!Page(k)
  BY <1>1, <1>2, <1>3 DEF Poller!Page
<1>5. \A j \in 1 .. z : f - j + 1 \in 1 .. n
  BY <1>1, <1>2, PollerNumbers
<1>6. s \in Seq(1 .. n) /\ Len(s) = z
  BY <1>3, <1>5
<1>7. \A id : id \in Poller!Elements(s) <=> id \in 1 .. n /\ id <= f /\ id > f - PageSize
  <2>1. \A id : id \in Poller!Elements(s) <=> \E j \in 1 .. z : id = f - j + 1
    BY <1>3, <1>6 DEF Poller!Elements
  <2>2. ASSUME NEW id, \E j \in 1 .. z : id = f - j + 1
        PROVE  id \in 1 .. n /\ id <= f /\ id > f - PageSize
    BY <1>1, <1>2, <2>2, PollerNumbers
  <2>3. ASSUME NEW id \in 1 .. n, id <= f, id > f - PageSize
        PROVE  \E j \in 1 .. z : id = f - j + 1
    <3>1. id \in Int /\ id >= 1 /\ PageSize \in Nat
      BY PollerNumbers
    <3>2. PICK j \in Int : j = f - id + 1
      BY <3>1
    <3>3. j >= 1 /\ j <= f /\ j <= PageSize /\ f > 0
      BY <2>3, <3>1, <3>2
    <3>4. j \in 1 .. z /\ id = f - j + 1
      BY <1>2, <3>1, <3>2, <3>3
    <3> QED
      BY <3>4
  <2> QED
    BY <2>1, <2>2, <2>3
<1>8. PICK T : T = {id \in 1 .. Len(feed) : feed[id] # "malformed"}
  OBVIOUS
<1>9. P = Poller!Kept(s, T)
  BY <1>4, <1>8 DEF Poller!Parsed
<1>10. P \in Seq(1 .. n) /\ Poller!Elements(P) = Poller!Elements(s) \cap T
  BY <1>6, <1>9, ElementsKept
<1> QED
  BY <1>1, <1>7, <1>8, <1>10

(* One page read: what it adds (P, to A), how new its newest event is, and *)
(* why the chain ends.                                                     *)
PageAdds(n, k, q, l, sofar, P, A) ==
  /\ \A id : id \in Poller!Elements(P) <=>
       /\ id \in 1 .. n /\ feed[id] # "malformed"
       /\ id <= n - q /\ id > n - q - PageSize
  /\ A \in Seq(1 .. n) /\ Poller!Elements(A) = Poller!Elements(sofar) \cup Poller!Elements(P)
  /\ pages' = k /\ last' = l /\ at' = 1 /\ items' \in Seq(1 .. n)
  /\ top' \in 0 .. n /\ top <= top' /\ l <= top'
  /\ \A id \in Poller!Elements(P) : id <= top'
  /\ top' = top \/ top' = l \/ top' \in Poller!Elements(P)
  /\ beyond' \in 0 .. n
  /\ \/ pollerPc' = "paging" /\ k < MaxPages /\ items' = A
     \/ /\ \/ /\ pollerPc' = "process" /\ pollerBaselined
              /\ \A id : id \in Poller!Elements(items') <=>
                           id \in Poller!Elements(A) /\ Poller!Tracked(id) /\ id > l
           \/ pollerPc' = "baseline" /\ ~pollerBaselined /\ items' = A
        /\ \/ n <= q + PageSize
           \/ \E x \in Poller!Elements(P) : x <= l
           \/ k = MaxPages /\ beyond' = n - q - PageSize

LEMMA ReadPageIs ==
  ASSUME NEW n \in Nat, n = Len(feed), NEW k \in 1 .. MaxPages, NEW q \in Nat, q = (k - 1) * PageSize,
         NEW l \in 0 .. n, NEW sofar \in Seq(1 .. n), top \in 0 .. n, pollerBaselined \in BOOLEAN,
         Poller!ReadPage(k, l, sofar)
  PROVE  \E P, A : PageAdds(n, k, q, l, sofar, P, A)
<1>1. PICK P : P = Poller!Parsed(Poller!Page(k))
  OBVIOUS
<1>2. PICK A : A = sofar \o P
  OBVIOUS
<1>3. k \in Nat \ {0} /\ PageSize \in Nat \ {0} /\ MaxPages \in Nat
  BY PollerNumbers
<1>4. /\ P \in Seq(1 .. n)
      /\ \A id : id \in Poller!Elements(P) <=>
           /\ id \in 1 .. n /\ feed[id] # "malformed"
           /\ id <= n - q /\ id > n - q - PageSize
  BY <1>1, <1>3, PageIs
<1>5. A \in Seq(1 .. n) /\ Poller!Elements(A) = Poller!Elements(sofar) \cup Poller!Elements(P)
  BY <1>2, <1>4, ElementsOfBoth
<1>6. k * PageSize = q + PageSize
  BY <1>3
<1>7. PICK reached \in BOOLEAN : reached <=> Poller!Reached(P, l)
  OBVIOUS
<1>8. PICK more \in BOOLEAN : more <=> Poller!HasNext(k)
  OBVIOUS
<1>9. more <=> n > q + PageSize
  BY <1>6, <1>8 DEF Poller!HasNext
<1>10. reached => \E x \in Poller!Elements(P) : x <= l
  <2>1. SUFFICES ASSUME reached
                 PROVE  \E x \in Poller!Elements(P) : x <= l
    OBVIOUS
  <2>2. P # <<>> /\ \A j \in 1 .. Len(P) : P[j] <= l
    BY <1>7, <2>1 DEF Poller!Reached
  <2>3. 1 \in 1 .. Len(P)
    BY <1>4, <2>2
  <2> QED
    BY <2>2, <2>3 DEF Poller!Elements
<1>11. PICK over \in BOOLEAN : over <=> reached \/ k >= MaxPages \/ ~more
  OBVIOUS
<1>12. /\ pages' = k /\ last' = l /\ at' = 1
       /\ top' = Poller!Newest({top, l} \cup Poller!Elements(P))
       /\ pollerPc' = IF ~over THEN "paging" ELSE IF pollerBaselined THEN "process" ELSE "baseline"
       /\ items' = IF over /\ pollerBaselined THEN Poller!ToJudge(A, l) ELSE A
       /\ beyond' = IF over /\ ~reached /\ more THEN n - (q + PageSize) ELSE 0
  <2>1. /\ pages' = k /\ last' = l /\ at' = 1
        /\ top' = Poller!Newest({top, l} \cup Poller!Elements(P))
    BY <1>1 DEF Poller!ReadPage
  <2>2. pollerPc' = IF ~over THEN "paging" ELSE IF pollerBaselined THEN "process" ELSE "baseline"
    BY <1>1, <1>7, <1>8, <1>11 DEF Poller!ReadPage
  <2>3. items' = IF over /\ pollerBaselined THEN Poller!ToJudge(A, l) ELSE A
    <3>1. CASE over
      BY <1>1, <1>2, <1>7, <1>8, <1>11, <3>1 DEF Poller!ReadPage
    <3>2. CASE ~over
      BY <1>1, <1>2, <1>7, <1>8, <1>11, <3>2 DEF Poller!ReadPage
    <3> QED
      BY <3>1, <3>2
  <2>4. beyond' = IF over /\ ~reached /\ more THEN n - (q + PageSize) ELSE 0
    BY <1>1, <1>6, <1>7, <1>8, <1>11 DEF Poller!ReadPage
  <2> QED
    BY <2>1, <2>2, <2>3, <2>4
<1>13. /\ top' \in 0 .. n /\ top <= top' /\ l <= top'
       /\ \A id \in Poller!Elements(P) : id <= top'
       /\ top' = top \/ top' = l \/ top' \in Poller!Elements(P)
  <2>1. PICK S : S = {top, l} \cup Poller!Elements(P)
    OBVIOUS
  <2>2. S # {} /\ S \subseteq 0 .. n
    <3>1. Poller!Elements(P) \subseteq 0 .. n
      BY <1>4
    <3> QED
      BY <2>1, <3>1
  <2>3. top' \in S /\ \A y \in S : y <= top'
    BY <1>12, <2>1, <2>2, NewestIs
  <2> QED
    BY <2>1, <2>2, <2>3
<1>14. /\ Poller!ToJudge(A, l) \in Seq(1 .. n)
       /\ \A id : id \in Poller!Elements(Poller!ToJudge(A, l)) <=>
                    id \in Poller!Elements(A) /\ Poller!Tracked(id) /\ id > l
  <2>1. PICK T : T = {id \in 1 .. Len(feed) : Poller!Tracked(id) /\ ~(l # 0 /\ id <= l)}
    OBVIOUS
  <2>2. Poller!ToJudge(A, l) = Poller!Kept(A, T)
    BY <2>1 DEF Poller!ToJudge
  <2>3. /\ Poller!ToJudge(A, l) \in Seq(1 .. n)
        /\ Poller!Elements(Poller!ToJudge(A, l)) = Poller!Elements(A) \cap T
    BY <1>5, <2>2, ElementsKept
  <2>4. \A id \in Poller!Elements(A) : id \in 1 .. n
    BY <1>5 DEF Poller!Elements
  <2>5. \A id \in 1 .. n : ~(l # 0 /\ id <= l) <=> id > l
    OBVIOUS
  <2> QED
    BY <2>1, <2>3, <2>4, <2>5
<1>15. beyond' \in 0 .. n
  BY <1>3, <1>9, <1>12
<1>16. items' \in Seq(1 .. n)
  BY <1>5, <1>12, <1>14
<1>17. \/ pollerPc' = "paging" /\ k < MaxPages /\ items' = A
       \/ /\ \/ /\ pollerPc' = "process" /\ pollerBaselined
                /\ \A id : id \in Poller!Elements(items') <=>
                             id \in Poller!Elements(A) /\ Poller!Tracked(id) /\ id > l
             \/ pollerPc' = "baseline" /\ ~pollerBaselined /\ items' = A
          /\ \/ n <= q + PageSize
             \/ \E x \in Poller!Elements(P) : x <= l
             \/ k = MaxPages /\ beyond' = n - q - PageSize
  <2>1. CASE ~over
    BY <1>3, <1>11, <1>12, <2>1
  <2>2. CASE over
    <3>1. \/ n <= q + PageSize
          \/ \E x \in Poller!Elements(P) : x <= l
          \/ k = MaxPages /\ beyond' = n - q - PageSize
      <4>1. CASE ~more
        BY <1>3, <1>9, <4>1
      <4>2. CASE reached
        BY <1>10, <4>2
      <4>3. CASE more /\ ~reached
        <5>1. k = MaxPages
          BY <1>3, <1>11, <2>2, <4>3
        <5>2. beyond' = n - (q + PageSize)
          BY <1>12, <2>2, <4>3
        <5> QED
          BY <1>3, <5>1, <5>2
      <4> QED
        BY <4>1, <4>2, <4>3
    <3>2. CASE pollerBaselined
      <4>1. pollerPc' = "process" /\ items' = Poller!ToJudge(A, l)
        BY <1>12, <2>2, <3>2
      <4> QED
        BY <1>14, <3>1, <3>2, <4>1
    <3>3. CASE ~pollerBaselined
      BY <1>12, <2>2, <3>1, <3>3
    <3> QED
      BY <3>2, <3>3
  <2> QED
    BY <2>1, <2>2
<1>18. pages' = k /\ last' = l /\ at' = 1
  BY <1>12
<1>19. PageAdds(n, k, q, l, sofar, P, A)
  BY <1>4, <1>5, <1>13, <1>15, <1>16, <1>17, <1>18 DEF PageAdds
<1> QED
  BY <1>19

(* A page at the end of a chain that has seen everything down to it. *)
LEMMA PageWalk ==
  ASSUME PollerInv, NEW n \in Nat, n = Len(feed), NEW k \in 1 .. MaxPages,
         NEW q \in Nat, q = (k - 1) * PageSize, NEW l \in 0 .. n, l = boundary,
         NEW sofar \in Seq(1 .. n), Poller!ReadPage(k, l, sofar),
         UNCHANGED <<feed, pollerBaselined, boundary, judged>>,
         born' \in 0 .. n, pollerBaselined => born' = born, ~pollerBaselined => l <= born',
         q = 0 \/ l <= top,
         \A id \in Poller!Elements(sofar) : id <= top,
         pollerBaselined => \A id \in Poller!Elements(sofar) : id <= l \/ id > born,
         \A id \in 1 .. n :
           /\ id <= top \/ id <= born'
           /\ id > n - q /\ feed[id] # "malformed"
           => id \in Poller!Elements(sofar)
  PROVE  /\ PagingKnows' /\ ProcessKnows' /\ BaselineKnows'
         /\ items' \in Seq(1 .. n) /\ top' \in 0 .. n /\ last' \in 0 .. n /\ beyond' \in 0 .. n
         /\ at' = 1 /\ pages' \in 1 .. MaxPages
         /\ pollerPc' \in {"paging", "process", "baseline"}
         /\ pollerPc' = "paging" => pages' \in 1 .. MaxPages - 1
<1>1. /\ PageSize \in Nat \ {0} /\ MaxPages \in Nat \ {0} /\ pollerBaselined \in BOOLEAN
      /\ top \in 0 .. n /\ born \in 0 .. n /\ k \in Nat
      /\ pollerBaselined => \A id \in 1 .. born :
           \/ id <= l \/ feed[id] = "malformed" \/ id <= n - MaxPages * PageSize
  BY PollerNumbers DEF PollerInv, PollTyped, Poller!TypeOK, SilenceKept
<1>0. PICK P, A : PageAdds(n, k, q, l, sofar, P, A)
  BY <1>1, ReadPageIs
<1>2. /\ \A id : id \in Poller!Elements(P) <=>
           /\ id \in 1 .. n /\ feed[id] # "malformed"
           /\ id <= n - q /\ id > n - q - PageSize
      /\ A \in Seq(1 .. n) /\ Poller!Elements(A) = Poller!Elements(sofar) \cup Poller!Elements(P)
      /\ pages' = k /\ last' = l /\ at' = 1 /\ items' \in Seq(1 .. n)
      /\ top' \in 0 .. n /\ top <= top' /\ l <= top'
      /\ \A id \in Poller!Elements(P) : id <= top'
      /\ top' = top \/ top' = l \/ top' \in Poller!Elements(P)
      /\ beyond' \in 0 .. n
      /\ \/ pollerPc' = "paging" /\ k < MaxPages /\ items' = A
         \/ /\ \/ /\ pollerPc' = "process" /\ pollerBaselined
                  /\ \A id : id \in Poller!Elements(items') <=>
                               id \in Poller!Elements(A) /\ Poller!Tracked(id) /\ id > l
               \/ pollerPc' = "baseline" /\ ~pollerBaselined /\ items' = A
            /\ \/ n <= q + PageSize
               \/ \E x \in Poller!Elements(P) : x <= l
               \/ k = MaxPages /\ beyond' = n - q - PageSize
  BY <1>0 DEF PageAdds
<1>3. PICK r \in Nat : r = k * PageSize
  BY <1>1
<1>4. PICK m \in Nat : m = MaxPages * PageSize
  BY <1>1
<1>5. r = q + PageSize
  BY <1>1, <1>3
<1>6. r <= m /\ (k = MaxPages => r = m)
  <2>1. PICK d \in Nat : MaxPages = k + d
    <3>1. MaxPages - k \in Nat /\ MaxPages = k + (MaxPages - k)
      BY <1>1
    <3> QED
      BY <3>1
  <2>2. d * PageSize \in Nat
    BY <1>1, <2>1
  <2>3. m = r + d * PageSize
    BY <1>1, <1>3, <1>4, <2>1
  <2> QED
    BY <1>3, <1>4, <2>2, <2>3
<1>7. PICK E : E = Poller!Elements(P)
  OBVIOUS
<1>8. PICK a : a = Poller!Elements(A)
  OBVIOUS
<1>9. /\ \A id : id \in E <=> id \in 1 .. n /\ feed[id] # "malformed" /\ id <= n - q /\ id > n - r
      /\ a = Poller!Elements(sofar) \cup E
  <2>1. n - q - PageSize = n - r
    BY <1>1, <1>5
  <2> QED
    BY <1>2, <1>7, <1>8, <2>1
<1>10. ASSUME NEW id \in 1 .. n, id <= top' \/ id <= born', id > n - r, feed[id] # "malformed"
       PROVE  id \in a
  <2>1. CASE id <= n - q
    BY <1>9, <1>10, <2>1
  <2>2. CASE id > n - q
    <3>1. \A x \in E : x \in 1 .. n /\ x <= n - q
      BY <1>9
    <3>2. top' = top \/ top' = l \/ top' \in E
      BY <1>2, <1>7
    <3>3. id <= top \/ id <= born'
      <4>1. CASE top' \in E
        BY <1>10, <2>2, <3>1, <4>1
      <4>2. CASE q = 0
        BY <2>2, <4>2
      <4>3. CASE q # 0 /\ top' \in {top, l}
        BY <1>1, <1>10, <4>3
      <4> QED
        BY <3>2, <4>1, <4>2, <4>3
    <3> QED
      BY <1>9, <1>10, <2>2, <3>3
  <2> QED
    BY <2>1, <2>2
<1>11. ASSUME pollerBaselined, NEW id \in a
       PROVE  id <= l \/ id > born
  <2>1. CASE id \in Poller!Elements(sofar)
    BY <1>11, <2>1
  <2>2. CASE id \in E
    <3>1. id \in 1 .. n /\ feed[id] # "malformed" /\ id > n - r
      BY <1>9, <2>2
    <3>2. ~(id <= n - m)
      BY <1>3, <1>4, <1>6, <3>1
    <3>3. id <= born => id \in 1 .. born
      BY <1>1, <3>1
    <3>4. id <= born => id <= l
      BY <1>1, <1>4, <1>11, <3>1, <3>2, <3>3
    <3> QED
      BY <1>1, <3>1, <3>4
  <2> QED
    BY <1>9, <2>1, <2>2
(* Below the last page there is nothing, nothing new, or the page cap. *)
<1>12. ASSUME pollerPc' # "paging", NEW id \in 1 .. n, id <= n - r
       PROVE  (\E x \in E : id <= x /\ id <= l) \/ (k = MaxPages /\ id <= beyond')
  <2>1. n > q + PageSize
    BY <1>1, <1>5, <1>12
  <2>2. CASE \E x \in E : x <= l
    <3>1. PICK x \in E : x <= l
      BY <2>2
    <3>2. x \in 1 .. n /\ x > n - r
      BY <1>9
    <3> QED
      BY <1>12, <3>1, <3>2
  <2>3. CASE k = MaxPages /\ beyond' = n - q - PageSize
    BY <1>1, <1>5, <1>12, <2>3
  <2>4. \/ n <= q + PageSize
        \/ \E x \in E : x <= l
        \/ k = MaxPages /\ beyond' = n - q - PageSize
    BY <1>2, <1>7, <1>12
  <2> QED
    BY <1>1, <2>1, <2>2, <2>3, <2>4
<1>13. feed' = feed /\ pollerBaselined' = pollerBaselined /\ boundary' = boundary /\ Len(feed') = n
       /\ last' = l /\ pages' = k /\ at' = 1 /\ \A id : Poller!Tracked(id)' = Poller!Tracked(id)
  BY <1>2 DEF Poller!Tracked
<1>14. Seen' = Poller!Elements(items')
  BY DEF Seen, Poller!Elements
<1>19. \A id \in a : id <= top'
  <2>1. \A id \in Poller!Elements(sofar) : id \in 1 .. n /\ id <= top
    BY DEF Poller!Elements
  <2>2. \A id \in E : id <= top'
    BY <1>2, <1>7
  <2>3. \A id \in Poller!Elements(sofar) : id <= top'
    BY <1>1, <1>2, <2>1
  <2> QED
    BY <1>9, <2>2, <2>3
<1>15. PagingKnows'
  <2>1. SUFFICES ASSUME pollerPc' = "paging"
                 PROVE  /\ last' = boundary' /\ last' <= top' /\ \A id \in Seen' : id <= top'
                        /\ ~pollerBaselined' => last' <= born'
                        /\ pollerBaselined' => \A id \in Seen' : id <= last' \/ id > born'
                        /\ \A id \in 1 .. Len(feed') :
                             /\ id <= top' \/ id <= born'
                             /\ id > Len(feed') - pages' * PageSize /\ feed'[id] # "malformed"
                             => id \in Seen'
    BY DEF PagingKnows
  <2>2. Seen' = a
    BY <1>2, <1>8, <1>14, <2>1
  <2>3. Len(feed') - pages' * PageSize = n - r
    BY <1>3, <1>13
  <2>4. last' = boundary' /\ last' <= top'
    BY <1>2, <1>13
  <2> QED
    BY <1>10, <1>11, <1>13, <1>19, <2>2, <2>3, <2>4
<1>16. ProcessKnows'
  <2>1. SUFFICES ASSUME pollerPc' \in {"process", "mirror"}
                 PROVE  /\ pollerBaselined' /\ last' = boundary'
                        /\ \A id \in Seen' : id > last' /\ id > born'
                        /\ \A id \in 1 .. n :
                             id <= top' /\ id > last' /\ Poller!Tracked(id)'
                               => id \in Seen' \/ id <= beyond'
                        /\ \A j \in 1 .. Len(items') : j < at' => items'[j] \in judged'
                        /\ pollerPc' # "mirror"
    BY <1>13 DEF ProcessKnows
  <2>2. /\ pollerBaselined /\ pollerPc' # "mirror"
        /\ \A id : id \in Seen' <=> id \in a /\ Poller!Tracked(id) /\ id > l
    BY <1>2, <1>8, <1>14, <2>1
  <2>3. \A id \in Seen' : id > l /\ id > born
    <3>1. \A id \in a : id \in 1 .. n
      <4>1. A \in Seq(1 .. n)
        BY <1>2
      <4> QED
        BY <1>8, <4>1 DEF Poller!Elements
    <3> QED
      BY <1>1, <1>11, <2>2, <3>1
  <2>4. ASSUME NEW id \in 1 .. n, id <= top', id > l, Poller!Tracked(id)
        PROVE  id \in Seen' \/ id <= beyond'
    <3>1. feed[id] # "malformed"
      BY <2>4 DEF Poller!Tracked
    <3>2. CASE id > n - r
      BY <1>10, <2>2, <2>4, <3>1, <3>2
    <3>3. CASE id <= n - r
      BY <1>12, <2>1, <2>4, <3>3
    <3> QED
      BY <1>3, <3>2, <3>3
  <2>5. \A j \in 1 .. Len(items') : ~(j < at')
    BY <1>13
  <2> QED
    BY <1>13, <2>2, <2>3, <2>4, <2>5
<1>17. BaselineKnows'
  <2>1. SUFFICES ASSUME pollerPc' \in {"baseline", "raise"}
                 PROVE  /\ ~pollerBaselined' /\ last' <= born' /\ boundary' <= top'
                        /\ \A id \in Seen' : id <= top'
                        /\ \A id \in 1 .. n :
                             id <= top' /\ Poller!Tracked(id)'
                               => id \in Seen' \/ id <= beyond' \/ id <= born'
                        /\ \A id \in 1 .. born' :
                             \/ feed'[id] = "malformed" \/ \E x \in Seen' : id <= x
                             \/ id <= n - MaxPages * PageSize
                        /\ \A j \in 1 .. Len(items') : ~(j < at')
                        /\ pollerPc' # "raise"
    BY <1>13 DEF BaselineKnows
  <2>2. ~pollerBaselined /\ Seen' = a /\ pollerPc' = "baseline"
    BY <1>2, <1>8, <1>14, <2>1
  <2>3. ASSUME NEW id \in 1 .. n, id <= top', Poller!Tracked(id)
        PROVE  id \in Seen' \/ id <= beyond' \/ id <= born'
    <3>1. feed[id] # "malformed"
      BY <2>3 DEF Poller!Tracked
    <3>2. CASE id > n - r
      BY <1>10, <2>2, <2>3, <3>1, <3>2
    <3>3. CASE id <= n - r
      <4>1. id <= l \/ id <= beyond'
        BY <1>12, <2>2, <3>3
      <4>2. l <= born'
        BY <2>2
      <4> QED
        BY <4>1, <4>2
    <3> QED
      BY <1>3, <3>2, <3>3
  <2>4. ASSUME NEW id \in 1 .. born', feed[id] # "malformed"
        PROVE  (\E x \in Seen' : id <= x) \/ id <= n - m
    <3>1. id \in 1 .. n
      BY <2>4
    <3>2. CASE id > n - r
      <4>1. id \in Seen' /\ id <= id
        BY <1>10, <2>2, <2>4, <3>1, <3>2
      <4> QED
        BY <4>1
    <3>3. CASE id <= n - r
      <4>1. CASE \E x \in E : id <= x
        BY <1>9, <2>2, <4>1
      <4>2. CASE k = MaxPages
        BY <1>6, <3>3, <4>2
      <4> QED
        BY <1>12, <2>2, <3>1, <3>3, <4>1, <4>2
    <3> QED
      BY <1>3, <3>1, <3>2, <3>3
  <2>5. \A j \in 1 .. Len(items') : ~(j < at')
    BY <1>13
  <2>6. boundary' <= top' /\ last' <= born'
    BY <1>2, <1>13, <2>2
  <2>7. \A id \in 1 .. born' : \/ feed'[id] = "malformed" \/ \E x \in Seen' : id <= x
                               \/ id <= n - MaxPages * PageSize
    BY <1>4, <1>13, <2>4
  <2>8. \A id \in 1 .. n :
          id <= top' /\ Poller!Tracked(id)' => id \in Seen' \/ id <= beyond' \/ id <= born'
    BY <1>13, <2>3
  <2> QED
    BY <1>13, <1>19, <2>2, <2>5, <2>6, <2>7, <2>8
<1>18. /\ pages' \in 1 .. MaxPages /\ last' \in 0 .. n
       /\ pollerPc' = "paging" => pages' \in 1 .. MaxPages - 1
       /\ pollerPc' \in {"paging", "process", "baseline"}
  BY <1>1, <1>2
<1> QED
  BY <1>2, <1>15, <1>16, <1>17, <1>18

LEMMA PollerInitially ==
  ASSUME Poller!Init
  PROVE  PollerInv
<1>1. PICK m \in 0 .. FeedLength - 1 : feed \in [1 .. m -> FeedKinds]
  BY DEF Poller!Init
<1>2. m \in Nat /\ m <= FeedLength /\ FeedLength \in Nat /\ MaxPages \in Nat
      /\ Capacity \in Nat /\ PollFaults \in Nat
  BY PollerNumbers
<1>3. feed \in Seq(FeedKinds) /\ Len(feed) = m
  BY <1>1, <1>2
<1>4. items = <<>> /\ Seen = {}
  BY DEF Poller!Init, Seen, Poller!Elements
<1>5. Poller!TypeOK
  <2>1. /\ feed \in Seq(FeedKinds) /\ Len(feed) <= FeedLength
        /\ etag \in 0 .. FeedLength /\ boundary \in 0 .. FeedLength
        /\ tag \in 0 .. FeedLength /\ last \in 0 .. FeedLength /\ top \in 0 .. FeedLength
        /\ beyond \in 0 .. FeedLength /\ born \in 0 .. FeedLength
    BY <1>2, <1>3 DEF Poller!Init
  <2>2. /\ pages \in 0 .. MaxPages /\ pollerFaults \in 0 .. PollFaults
        /\ pollerPc \in Poller!Pcs
    BY <1>2 DEF Poller!Init, Poller!Pcs
  <2>3. /\ pollerQueue = <<>> /\ at = 1 /\ items = <<>>
        /\ pollerQueue \in Seq(Poller!Ids) /\ items \in Seq(Poller!Ids)
    BY DEF Poller!Init
  <2>4. Len(pollerQueue) <= Capacity /\ at \in 1 .. Len(items) + 1
    BY <1>2, <2>3
  <2>5. times \in [Poller!Ids -> Nat]
    BY DEF Poller!Init
  <2>6. pollerBaselined \in BOOLEAN
    BY DEF Poller!Init
  <2> QED
    BY <2>1, <2>2, <2>3, <2>4, <2>5, <2>6 DEF Poller!Init, Poller!TypeOK
<1>6. PollTyped
  BY <1>2, <1>3, <1>4, <1>5 DEF PollTyped, Poller!Init
<1>7. \A id \in Poller!Ids : times[id] = 0
  BY DEF Poller!Init
<1> QED
  BY <1>6, <1>7 DEF PollerInv, Poller!Init, PagingKnows, ProcessKnows, BaselineKnows, SilenceKept,
                    AcceptedKnown, Poller!BaselineSilent, Poller!NothingJumpedOver

(* The numbers of the poller's state. *)
LEMMA PollerTypes ==
  ASSUME PollerInv
  PROVE  /\ feed \in Seq(FeedKinds) /\ Len(feed) \in Nat /\ Len(feed) <= FeedLength
         /\ boundary \in 0 .. Len(feed) /\ top \in 0 .. Len(feed) /\ last \in 0 .. Len(feed)
         /\ born \in 0 .. Len(feed) /\ beyond \in 0 .. Len(feed)
         /\ items \in Seq(1 .. Len(feed)) /\ Len(items) \in Nat /\ at \in 1 .. Len(items) + 1
         /\ \A j \in 1 .. Len(items) : items[j] \in Seen /\ items[j] \in 1 .. Len(feed)
         /\ \A id \in Seen : \E j \in 1 .. Len(items) : id = items[j]
         /\ Seen \subseteq 1 .. Len(feed) /\ 1 .. Len(feed) \subseteq Poller!Ids
         /\ pollerBaselined \in BOOLEAN
         /\ 1 .. born \subseteq 1 .. Len(feed)
<1>1. PollTyped /\ feed \in Seq(FeedKinds) /\ items \in Seq(Poller!Ids)
  BY DEF PollerInv, PollTyped, Poller!TypeOK
<1>2. Len(feed) \in Nat /\ Len(items) \in Nat
  BY <1>1
<1>3. /\ Len(feed) <= FeedLength
      /\ boundary \in 0 .. Len(feed) /\ top \in 0 .. Len(feed) /\ last \in 0 .. Len(feed)
      /\ born \in 0 .. Len(feed) /\ beyond \in 0 .. Len(feed)
      /\ 1 .. Len(feed) \subseteq Poller!Ids
  BY <1>1, <1>2, PollerNumbers DEF PollTyped, Poller!TypeOK, Poller!Ids
<1>4. /\ \A j \in 1 .. Len(items) : items[j] \in Seen
      /\ \A id \in Seen : \E j \in 1 .. Len(items) : id = items[j]
  BY DEF Seen, Poller!Elements
<1>5. Seen \subseteq 1 .. Len(feed) /\ pollerBaselined \in BOOLEAN /\ at \in 1 .. Len(items) + 1
  BY <1>1 DEF PollTyped, Poller!TypeOK
<1>6. items \in Seq(1 .. Len(feed))
  <2>1. \A j \in 1 .. Len(items) : items[j] \in 1 .. Len(feed)
    BY <1>4, <1>5
  <2>2. PICK S : S = 1 .. Len(feed)
    OBVIOUS
  <2>3. \A j \in 1 .. Len(items) : items[j] \in S
    BY <2>1, <2>2
  <2>4. items \in Seq(S)
    BY <1>1, <2>3
  <2> QED
    BY <2>2, <2>4
<1>7. 1 .. born \subseteq 1 .. Len(feed)
  BY <1>3
<1> QED
  BY <1>1, <1>2, <1>3, <1>4, <1>5, <1>6, <1>7

(* A poll ends: it is forgotten. *)
LEMMA ForgetStep ==
  ASSUME PollerInv, Poller!StoreConditional \/ Poller!PollFails \/ Poller!Restart
  PROVE  PollerInv'
<1>1. /\ pollerPc' = "idle" /\ tag' = 0 /\ items' = <<>> /\ pages' = 0 /\ last' = 0 /\ top' = 0
      /\ at' = 1 /\ beyond' = 0
      /\ feed' = feed /\ pollerBaselined' = pollerBaselined /\ boundary' = boundary
      /\ pollerDeliveries' = pollerDeliveries /\ aged' = aged /\ mirrored' = mirrored
      /\ judged' = judged /\ cut' = cut /\ born' = born /\ times' = times /\ lapsed' = lapsed
  BY DEF Poller!StoreConditional, Poller!PollFails, Poller!Restart, Poller!ForgetPoll,
         Poller!conditional, Poller!dedup
<1>2. /\ etag' \in {etag, tag} /\ pollerQueue' \in {pollerQueue, <<>>}
      /\ \/ pollerFaults' = pollerFaults
         \/ pollerFaults < PollFaults /\ pollerFaults' = pollerFaults + 1
  BY DEF Poller!StoreConditional, Poller!PollFails, Poller!Restart, Poller!conditional
<1>3. Poller!TypeOK /\ PollTyped
  BY DEF PollerInv, PollTyped
<1>4. Seen' = {} /\ Len(feed) \in Nat
  BY <1>1, PollerTypes DEF Seen, Poller!Elements
<1>5. Poller!TypeOK'
  <2>1. /\ tag' \in 0 .. FeedLength /\ last' \in 0 .. FeedLength /\ top' \in 0 .. FeedLength
        /\ beyond' \in 0 .. FeedLength /\ pages' \in 0 .. MaxPages /\ etag' \in 0 .. FeedLength
    BY <1>1, <1>2, <1>3, PollerNumbers DEF Poller!TypeOK
  <2>2. items' \in Seq(Poller!Ids) /\ at' \in 1 .. Len(items') + 1
    BY <1>1
  <2>3. pollerQueue' \in Seq(Poller!Ids) /\ Len(pollerQueue') <= Capacity
    <3>1. CASE pollerQueue' = <<>>
      BY <3>1, PollerNumbers
    <3>2. CASE pollerQueue' = pollerQueue
      BY <1>3, <3>2 DEF Poller!TypeOK
    <3> QED
      BY <1>2, <3>1, <3>2
  <2>4. pollerFaults' \in 0 .. PollFaults
    BY <1>2, <1>3, PollerNumbers DEF Poller!TypeOK
  <2>5. pollerPc' \in Poller!Pcs
    BY <1>1 DEF Poller!Pcs
  <2> QED
    BY <1>1, <1>3, <2>1, <2>2, <2>3, <2>4, <2>5 DEF Poller!TypeOK
<1>6. PollTyped'
  BY <1>1, <1>3, <1>4, <1>5 DEF PollTyped
<1>7. PagingKnows' /\ ProcessKnows' /\ BaselineKnows'
  BY <1>1 DEF PagingKnows, ProcessKnows, BaselineKnows
<1>8. SilenceKept' /\ AcceptedKnown' /\ Poller!NothingJumpedOver'
  BY <1>1 DEF PollerInv, SilenceKept, Poller!BaselineSilent, AcceptedKnown, Alive,
              Poller!NothingJumpedOver, Poller!Tracked
<1> QED
  BY <1>6, <1>7, <1>8 DEF PollerInv

LEMMA WiderSequence ==
  ASSUME NEW S, NEW T, S \subseteq T, NEW s \in Seq(S)
  PROVE  s \in Seq(T)
<1>1. \A j \in 1 .. Len(s) : s[j] \in T
  OBVIOUS
<1> QED
  BY <1>1

(* A page read keeps the rest: nothing durable changes. *)
LEMMA PageRest ==
  ASSUME PollerInv, NEW n \in Nat, n = Len(feed),
         UNCHANGED <<feed, etag, pollerBaselined, boundary, pollerDeliveries, aged, pollerQueue,
                     mirrored, pollerFaults, judged, cut, times, lapsed>>,
         tag' \in 0 .. FeedLength, born' \in 0 .. n, pollerBaselined => born' = born,
         PagingKnows' /\ ProcessKnows' /\ BaselineKnows',
         items' \in Seq(1 .. n), top' \in 0 .. n, last' \in 0 .. n, beyond' \in 0 .. n,
         at' = 1, pages' \in 1 .. MaxPages,
         pollerPc' \in {"paging", "process", "baseline"},
         pollerPc' = "paging" => pages' \in 1 .. MaxPages - 1
  PROVE  PollerInv'
<1>1. Poller!TypeOK /\ PollTyped /\ n <= FeedLength /\ FeedLength \in Nat
  BY PollerTypes, PollerNumbers DEF PollerInv, PollTyped
<1>2. Poller!TypeOK'
  <2>1. /\ born' \in 0 .. FeedLength /\ top' \in 0 .. FeedLength
        /\ last' \in 0 .. FeedLength /\ beyond' \in 0 .. FeedLength /\ pages' \in 0 .. MaxPages
    BY <1>1, PollerNumbers
  <2>2. items' \in Seq(Poller!Ids) /\ at' \in 1 .. Len(items') + 1
    <3>1. 1 .. n \subseteq Poller!Ids
      BY <1>1 DEF Poller!Ids
    <3>2. PICK s \in Seq(1 .. n) : s = items'
      OBVIOUS
    <3>3. s \in Seq(Poller!Ids)
      BY <3>1, WiderSequence
    <3>4. Len(s) \in Nat
      BY <3>2
    <3>5. at' \in 1 .. Len(s) + 1
      BY <3>4
    <3> QED
      BY <3>2, <3>3, <3>5
  <2>3. pollerPc' \in Poller!Pcs
    BY DEF Poller!Pcs
  <2> QED
    BY <1>1, <2>1, <2>2, <2>3 DEF Poller!TypeOK
<1>3. Seen' \subseteq 1 .. n
  BY DEF Seen, Poller!Elements
<1>4. PollTyped'
  BY <1>1, <1>2, <1>3 DEF PollTyped
<1>5. SilenceKept' /\ Poller!NothingJumpedOver'
  BY DEF PollerInv, SilenceKept, Poller!BaselineSilent, Poller!NothingJumpedOver, Poller!Tracked
<1>6. AcceptedKnown'
  BY DEF PollerInv, AcceptedKnown, Alive
<1> QED
  BY <1>4, <1>5, <1>6 DEF PollerInv

LEMMA BeginPollStep ==
  ASSUME PollerInv, Poller!BeginPoll
  PROVE  PollerInv'
<1>1. PICK n \in Nat : n = Len(feed)
  BY PollerTypes
<1>2. PICK l \in 0 .. n : l = boundary
  BY <1>1, PollerTypes
<1>3. PICK k \in 1 .. MaxPages : k = 1
  BY PollerNumbers
<1>4. PICK q \in Nat : q = 0
  OBVIOUS
<1>5. q = (k - 1) * PageSize
  BY <1>3, <1>4, PollerNumbers
<1>6. PICK sofar \in Seq(1 .. n) : sofar = <<>>
  <2>1. <<>> \in Seq(1 .. n)
    OBVIOUS
  <2> QED
    BY <2>1
<1>7. /\ Poller!ReadPage(k, l, sofar)
      /\ tag' \in {0, n} /\ born' = IF pollerBaselined THEN born ELSE n
      /\ UNCHANGED <<feed, etag, pollerBaselined, boundary, pollerDeliveries, aged, pollerQueue,
                     mirrored, pollerFaults, judged, cut, times, lapsed>>
  BY <1>1, <1>2, <1>3, <1>6 DEF Poller!BeginPoll, Poller!conditional, Poller!dedup
<1>8. Poller!Elements(sofar) = {}
  BY <1>6 DEF Poller!Elements
<1>9. /\ born' \in 0 .. n /\ (pollerBaselined => born' = born) /\ (~pollerBaselined => l <= born')
      /\ tag' \in 0 .. FeedLength
  BY <1>1, <1>2, <1>7, PollerTypes, PollerNumbers
<1>10. /\ \A id \in Poller!Elements(sofar) : id <= top
       /\ pollerBaselined => \A id \in Poller!Elements(sofar) : id <= l \/ id > born
       /\ \A id \in 1 .. n :
            /\ id <= top \/ id <= born'
            /\ id > n - q /\ feed[id] # "malformed"
            => id \in Poller!Elements(sofar)
  BY <1>4, <1>8
<1>11. /\ PagingKnows' /\ ProcessKnows' /\ BaselineKnows'
       /\ items' \in Seq(1 .. n) /\ top' \in 0 .. n /\ last' \in 0 .. n /\ beyond' \in 0 .. n
       /\ at' = 1 /\ pages' \in 1 .. MaxPages
       /\ pollerPc' \in {"paging", "process", "baseline"}
       /\ pollerPc' = "paging" => pages' \in 1 .. MaxPages - 1
  BY <1>1, <1>2, <1>4, <1>5, <1>7, <1>9, <1>10, PageWalk
<1> QED
  BY <1>1, <1>7, <1>9, <1>11, PageRest

LEMMA NextPageStep ==
  ASSUME PollerInv, Poller!NextPage
  PROVE  PollerInv'
<1>1. PICK n \in Nat : n = Len(feed)
  BY PollerTypes
<1>2. pollerPc = "paging"
  BY DEF Poller!NextPage
<1>3. /\ last = boundary /\ last <= top /\ (~pollerBaselined => last <= born)
      /\ \A id \in Seen : id <= top
      /\ pollerBaselined => \A id \in Seen : id <= last \/ id > born
      /\ \A id \in 1 .. n :
           /\ id <= top \/ id <= born
           /\ id > n - pages * PageSize /\ feed[id] # "malformed"
           => id \in Seen
  BY <1>1, <1>2 DEF PollerInv, PagingKnows
<1>4. PICK l \in 0 .. n : l = last
  BY <1>1, PollerTypes
<1>5. pages \in 1 .. MaxPages - 1 /\ PageSize \in Nat /\ MaxPages \in Nat
  BY <1>2, PollerNumbers DEF PollerInv, PollTyped
<1>6. PICK k \in 1 .. MaxPages : k = pages + 1
  BY <1>5
<1>7. PICK q \in Nat : q = pages * PageSize
  BY <1>5
<1>8. q = (k - 1) * PageSize
  <2>1. k - 1 = pages
    BY <1>5, <1>6
  <2> QED
    BY <1>7, <2>1
<1>9. PICK sofar \in Seq(1 .. n) : sofar = items
  BY <1>1, PollerTypes
<1>10. /\ Poller!ReadPage(k, l, sofar) /\ tag' = tag /\ born' = born
       /\ UNCHANGED <<feed, etag, pollerBaselined, boundary, pollerDeliveries, aged, pollerQueue,
                      mirrored, pollerFaults, judged, cut, times, lapsed>>
  BY <1>4, <1>6, <1>9 DEF Poller!NextPage, Poller!conditional, Poller!dedup
<1>11. Poller!Elements(sofar) = Seen
  BY <1>9 DEF Seen
<1>12. born' \in 0 .. n /\ tag' \in 0 .. FeedLength
  BY <1>1, <1>10, PollerTypes DEF PollerInv, PollTyped, Poller!TypeOK
<1>13. /\ \A id \in Poller!Elements(sofar) : id <= top
       /\ pollerBaselined => \A id \in Poller!Elements(sofar) : id <= l \/ id > born
       /\ \A id \in 1 .. n :
            /\ id <= top \/ id <= born'
            /\ id > n - q /\ feed[id] # "malformed"
            => id \in Poller!Elements(sofar)
  BY <1>3, <1>4, <1>7, <1>10, <1>11
<1>14. /\ PagingKnows' /\ ProcessKnows' /\ BaselineKnows'
       /\ items' \in Seq(1 .. n) /\ top' \in 0 .. n /\ last' \in 0 .. n /\ beyond' \in 0 .. n
       /\ at' = 1 /\ pages' \in 1 .. MaxPages
       /\ pollerPc' \in {"paging", "process", "baseline"}
       /\ pollerPc' = "paging" => pages' \in 1 .. MaxPages - 1
  BY <1>1, <1>3, <1>4, <1>8, <1>10, <1>12, <1>13, PageWalk
<1> QED
  BY <1>1, <1>10, <1>12, <1>14, PageRest

(* An event is published: it is newer than everything a poll knows of. *)
LEMMA PublishStep ==
  ASSUME PollerInv, Poller!Publish
  PROVE  PollerInv'
<1>1. PICK n \in Nat : n = Len(feed)
  BY PollerTypes
<1>2. PICK k \in FeedKinds : feed' = Append(feed, k)
  BY DEF Poller!Publish
<1>3. /\ UNCHANGED <<etag, pollerBaselined, boundary, pollerDeliveries, aged, pollerQueue,
                     mirrored, pollerPc, tag, items, pages, last, top, beyond, at, pollerFaults,
                     judged, cut, born, times, lapsed>>
      /\ n < FeedLength
  BY <1>1 DEF Poller!Publish, Poller!conditional, Poller!dedup, Poller!poll, Poller!history
<1>4. /\ feed' \in Seq(FeedKinds) /\ Len(feed') = n + 1
      /\ \A id \in 1 .. n : feed'[id] = feed[id]
  BY <1>1, <1>2, PollerTypes
<1>5. /\ Seen' = Seen /\ Alive' = Alive
      /\ \A id \in 1 .. n : Poller!Tracked(id)' = Poller!Tracked(id)
  BY <1>3, <1>4 DEF Seen, Poller!Elements, Alive, Poller!Tracked
<1>6. /\ top \in 0 .. n /\ born \in 0 .. n /\ boundary \in 0 .. n /\ last \in 0 .. n
      /\ beyond \in 0 .. n /\ Seen \subseteq 1 .. n /\ 1 .. n \subseteq 1 .. n + 1
      /\ 1 .. born \subseteq 1 .. n /\ \A j \in 1 .. Len(items) : items[j] \in 1 .. n
      /\ FeedLength \in Nat
  BY <1>1, PollerTypes, PollerNumbers
<1>7. Poller!TypeOK'
  <2>1. Len(feed') <= FeedLength
    BY <1>3, <1>4, <1>6
  <2> QED
    BY <1>3, <1>4, <2>1 DEF PollerInv, PollTyped, Poller!TypeOK
<1>8. PollTyped'
  <2>1. /\ boundary <= n + 1 /\ top <= n + 1 /\ last <= n + 1 /\ born <= n + 1 /\ beyond <= n + 1
        /\ Seen \subseteq 1 .. n + 1
    BY <1>6
  <2> QED
    BY <1>3, <1>4, <1>5, <1>7, <2>1 DEF PollerInv, PollTyped
<1>9. \A id \in 1 .. n + 1 : id <= top \/ id <= born \/ id <= boundary => id \in 1 .. n
  BY <1>6
<1>10. PagingKnows'
  <2>2. PICK r \in Nat : r = pages * PageSize
    BY PollerNumbers DEF PollerInv, PollTyped, Poller!TypeOK
  <2>0. Len(feed)' - pages' * PageSize = n + 1 - r
    BY <1>3, <1>4, <2>2
  <2>1. SUFFICES ASSUME pollerPc = "paging"
                 PROVE  /\ last = boundary /\ last <= top /\ \A id \in Seen : id <= top
                        /\ ~pollerBaselined => last <= born
                        /\ pollerBaselined => \A id \in Seen : id <= last \/ id > born
                        /\ \A id \in 1 .. n + 1 :
                             /\ id <= top \/ id <= born
                             /\ id > n + 1 - r /\ feed'[id] # "malformed"
                             => id \in Seen
    BY <1>3, <1>4, <1>5, <2>0 DEF PagingKnows
  <2>3. \A id \in 1 .. n : id > n + 1 - r => id > n - r
    BY <2>2
  <2>4. \A id \in 1 .. n :
          /\ id <= top \/ id <= born
          /\ id > n - r /\ feed[id] # "malformed"
          => id \in Seen
    BY <1>1, <2>1, <2>2 DEF PollerInv, PagingKnows
  <2> QED
    BY <1>4, <1>9, <2>1, <2>2, <2>3, <2>4 DEF PollerInv, PagingKnows
<1>11. ProcessKnows'
  <2>1. SUFFICES ASSUME pollerPc \in {"process", "mirror"}
                 PROVE  /\ pollerBaselined /\ last = boundary
                        /\ \A id \in Seen : id > last /\ id > born
                        /\ \A id \in 1 .. n + 1 :
                             id <= top /\ id > last /\ Poller!Tracked(id)' => id \in Seen \/ id <= beyond
                        /\ \A j \in 1 .. Len(items) : j < at => items[j] \in judged
                        /\ pollerPc = "mirror" => items[at] \in judged
    BY <1>3, <1>4, <1>5 DEF ProcessKnows
  <2> QED
    BY <1>1, <1>5, <1>9, <2>1 DEF PollerInv, ProcessKnows
<1>12. PICK m \in Nat : m = MaxPages * PageSize
  BY PollerNumbers
<1>13. \A id \in 1 .. n : id <= n - m => id <= n + 1 - m
  BY <1>12
<1>14. BaselineKnows'
  <2>1. SUFFICES ASSUME pollerPc \in {"baseline", "raise"}
                 PROVE  /\ ~pollerBaselined /\ last <= born /\ boundary <= top
                        /\ \A id \in Seen : id <= top
                        /\ \A id \in 1 .. n + 1 :
                             id <= top /\ Poller!Tracked(id)' => id \in Seen \/ id <= beyond \/ id <= born
                        /\ \A id \in 1 .. born :
                             \/ feed'[id] = "malformed" \/ \E x \in Seen : id <= x
                             \/ id <= n + 1 - m
                        /\ \A j \in 1 .. Len(items) :
                             Poller!Tracked(items[j])' /\ (pollerPc = "raise" \/ j < at)
                               => items[j] \in judged
                        /\ pollerPc = "raise" => \A j \in 1 .. Len(items) : j < at => items[j] <= boundary
    <3>1. \A j : Poller!Tracked(items[j])' <=> feed'[items[j]] \in {"opened", "comment"}
      BY <1>3 DEF Poller!Tracked
    <3> QED
      BY <1>3, <1>4, <1>5, <1>12, <3>1 DEF BaselineKnows, Poller!Tracked
  <2>2. BaselineKnows
    BY DEF PollerInv
  <2>3. \A j \in 1 .. Len(items) : Poller!Tracked(items[j])' = Poller!Tracked(items[j])
    BY <1>3, <1>4, <1>6 DEF Poller!Tracked
  <2>4. \A id \in 1 .. n + 1 :
          id <= top /\ Poller!Tracked(id)' => id \in Seen \/ id <= beyond \/ id <= born
    BY <1>1, <1>5, <1>9, <2>1, <2>2 DEF BaselineKnows
  <2>5. \A id \in 1 .. born :
          \/ feed'[id] = "malformed" \/ \E x \in Seen : id <= x
          \/ id <= n + 1 - m
    BY <1>1, <1>4, <1>6, <1>12, <1>13, <2>1, <2>2 DEF BaselineKnows
  <2> QED
    BY <2>1, <2>2, <2>3, <2>4, <2>5 DEF BaselineKnows
<1>15. SilenceKept'
  <2>1. SilenceKept
    BY DEF PollerInv
  <2>2. pollerBaselined => \A id \in 1 .. born : id <= boundary \/ feed[id] = "malformed" \/ id <= n - m
    BY <1>1, <1>12, <2>1 DEF SilenceKept
  <2>3. pollerBaselined =>
          \A id \in 1 .. born : id <= boundary \/ feed'[id] = "malformed" \/ id <= n + 1 - m
    BY <1>4, <1>6, <1>13, <2>2
  <2> QED
    BY <1>3, <1>4, <1>12, <2>1, <2>3 DEF SilenceKept, Poller!BaselineSilent
<1>16. AcceptedKnown'
  BY <1>3, <1>5 DEF PollerInv, AcceptedKnown
<1>17. Poller!NothingJumpedOver'
  <2>1. ASSUME pollerBaselined, NEW id \in 1 .. n + 1, id <= boundary, Poller!Tracked(id)'
        PROVE  id \in judged \/ id \in cut \/ id <= born
    BY <1>1, <1>5, <1>9, <2>1 DEF PollerInv, Poller!NothingJumpedOver
  <2> QED
    BY <1>3, <1>4, <2>1 DEF Poller!NothingJumpedOver
<1> QED
  BY <1>8, <1>10, <1>11, <1>14, <1>15, <1>16, <1>17 DEF PollerInv

(* The queue is drained, or the redelivery window passes between polls. *)
LEMMA IdleStep ==
  ASSUME PollerInv, Poller!Consume \/ Poller!WindowPasses \/ UNCHANGED Poller!vars
  PROVE  PollerInv'
<1>1. /\ UNCHANGED <<feed, etag, pollerBaselined, boundary, pollerDeliveries,
                     mirrored, pollerPc, tag, items, pages, last, top, beyond, at, pollerFaults,
                     judged, cut, born, times>>
      /\ pollerQueue' \in {pollerQueue, <<>>}
      /\ \/ aged' = aged /\ lapsed' = lapsed
         \/ /\ pollerPc = "idle" /\ aged' = pollerDeliveries
            /\ lapsed' = lapsed \cup {id \in pollerDeliveries : id > boundary}
  BY DEF Poller!Consume, Poller!WindowPasses, Poller!vars, Poller!conditional, Poller!dedup,
         Poller!poll, Poller!history
<1>2. Seen' = Seen /\ \A id : Poller!Tracked(id)' = Poller!Tracked(id)
  BY <1>1 DEF Seen, Poller!Elements, Poller!Tracked
<1>3. Poller!TypeOK /\ PollTyped
  BY DEF PollerInv, PollTyped
<1>4. Poller!TypeOK'
  <2>1. pollerQueue' \in Seq(Poller!Ids) /\ Len(pollerQueue') <= Capacity
    <3>1. CASE pollerQueue' = <<>>
      BY <3>1, PollerNumbers
    <3>2. CASE pollerQueue' = pollerQueue
      BY <1>3, <3>2 DEF Poller!TypeOK
    <3> QED
      BY <1>1, <3>1, <3>2
  <2>2. aged' \subseteq pollerDeliveries' /\ lapsed' \subseteq Poller!Ids
    BY <1>1, <1>3 DEF Poller!TypeOK
  <2> QED
    BY <1>1, <1>3, <2>1, <2>2 DEF Poller!TypeOK
<1>5. PollTyped'
  BY <1>1, <1>2, <1>3, <1>4 DEF PollTyped
<1>6. PagingKnows' /\ ProcessKnows'
  BY <1>1, <1>2 DEF PollerInv, PagingKnows, ProcessKnows
<1>7. BaselineKnows'
  <2>1. \A j : Poller!Tracked(items[j])' = Poller!Tracked(items[j])
    BY <1>1 DEF Poller!Tracked
  <2> QED
    BY <1>1, <1>2, <2>1 DEF PollerInv, BaselineKnows
<1>8. SilenceKept' /\ Poller!NothingJumpedOver'
  BY <1>1 DEF PollerInv, SilenceKept, Poller!BaselineSilent, Poller!NothingJumpedOver, Poller!Tracked
<1>9. AcceptedKnown'
  <2>1. CASE aged' = aged /\ lapsed' = lapsed
    BY <1>1, <2>1 DEF PollerInv, AcceptedKnown, Alive
  <2>2. CASE /\ pollerPc = "idle" /\ aged' = pollerDeliveries
             /\ lapsed' = lapsed \cup {id \in pollerDeliveries : id > boundary}
    <3>1. ASSUME NEW id \in Poller!Ids, times[id] # 0, id \notin lapsed'
          PROVE  times[id] = 1 /\ id <= boundary
      <4>1. id \notin lapsed /\ ~(id \in pollerDeliveries /\ id > boundary)
        BY <2>2, <3>1
      <4>2. times[id] = 1 /\ (id <= boundary \/ id \in pollerDeliveries)
        BY <3>1, <4>1 DEF PollerInv, AcceptedKnown, Alive
      <4>3. id \in Int /\ boundary \in Int
        BY PollerTypes DEF Poller!Ids
      <4> QED
        BY <4>1, <4>2, <4>3
    <3> QED
      BY <1>1, <2>2, <3>1 DEF AcceptedKnown, Poller!Ids
  <2> QED
    BY <1>1, <2>1, <2>2
<1> QED
  BY <1>5, <1>6, <1>7, <1>8, <1>9 DEF PollerInv

(* A delivery is recorded: what counted still counts, and the id too. *)
LEMMA RecordIs ==
  ASSUME PollerInv, NEW id \in Poller!Ids, Poller!RecordDelivery(id)
  PROVE  /\ pollerDeliveries' \subseteq Poller!Ids /\ aged' \subseteq pollerDeliveries'
         /\ judged' \subseteq Poller!Ids /\ judged' = judged \cup {id}
         /\ Alive' = Alive \cup {id}
BY DEF PollerInv, PollTyped, Poller!TypeOK, Poller!RecordDelivery, Alive

LEMMA BaselineItemStep ==
  ASSUME PollerInv, Poller!BaselineItem
  PROVE  PollerInv'
<1>1. /\ pollerPc = "baseline" /\ at <= Len(items) /\ at' = at + 1
      /\ UNCHANGED <<feed, etag, pollerBaselined, boundary, pollerQueue, mirrored, pollerPc, tag,
                     items, pages, last, top, beyond, pollerFaults, cut, born, times, lapsed>>
  BY DEF Poller!BaselineItem, Poller!conditional, Poller!poll
<1>2. /\ Seen' = Seen /\ (\A id : Poller!Tracked(id)' = Poller!Tracked(id))
      /\ \A j : Poller!Tracked(items[j])' = Poller!Tracked(items[j])
  BY <1>1 DEF Seen, Poller!Elements, Poller!Tracked
<1>3. at \in 1 .. Len(items) /\ Len(items) \in Nat /\ at' \in 1 .. Len(items) + 1
  BY <1>1, PollerTypes
<1>4. items[at] \in Poller!Ids
  BY <1>3, PollerTypes
<1>5. /\ pollerDeliveries' \subseteq Poller!Ids /\ aged' \subseteq pollerDeliveries'
      /\ judged' \subseteq Poller!Ids /\ judged \subseteq judged' /\ Alive \subseteq Alive'
      /\ Poller!Tracked(items[at]) => items[at] \in judged'
  <2>1. CASE Poller!RecordDelivery(items[at])
    BY <1>4, <2>1, RecordIs
  <2>2. CASE ~Poller!Tracked(items[at]) /\ UNCHANGED <<Poller!dedup, judged>>
    BY <2>2 DEF PollerInv, PollTyped, Poller!TypeOK, Poller!dedup, Alive
  <2> QED
    BY <2>1, <2>2 DEF Poller!BaselineItem
<1>6. Poller!TypeOK'
  BY <1>1, <1>3, <1>5 DEF PollerInv, PollTyped, Poller!TypeOK
<1>7. PollTyped'
  BY <1>1, <1>2, <1>6 DEF PollerInv, PollTyped
<1>8. BaselineKnows'
  <2>1. BaselineKnows
    BY DEF PollerInv
  <2>2. \A j \in 1 .. Len(items) : j < at' => j < at \/ j = at
    BY <1>1, <1>3
  <2>3. \A j \in 1 .. Len(items) : Poller!Tracked(items[j]) /\ j < at' => items[j] \in judged'
    BY <1>1, <1>5, <2>1, <2>2 DEF BaselineKnows
  <2> QED
    BY <1>1, <1>2, <2>1, <2>3 DEF BaselineKnows
<1>9. PagingKnows' /\ ProcessKnows' /\ SilenceKept' /\ Poller!NothingJumpedOver'
  BY <1>1, <1>2, <1>5 DEF PollerInv, BaselineKnows, PagingKnows, ProcessKnows, SilenceKept,
                          Poller!BaselineSilent, Poller!NothingJumpedOver
<1>10. AcceptedKnown'
  BY <1>1, <1>5 DEF PollerInv, AcceptedKnown
<1> QED
  BY <1>7, <1>8, <1>9, <1>10 DEF PollerInv

LEMMA RaiseStep ==
  ASSUME PollerInv, Poller!BaselineRecorded \/ Poller!RaiseBoundary
  PROVE  PollerInv'
<1>1. /\ pollerPc \in {"baseline", "raise"} /\ pollerPc' = "raise"
      /\ UNCHANGED <<feed, etag, pollerBaselined, pollerDeliveries, aged, pollerQueue, mirrored, tag,
                     items, pages, last, top, beyond, pollerFaults, judged, cut, born, times, lapsed>>
  BY DEF Poller!BaselineRecorded, Poller!RaiseBoundary, Poller!conditional, Poller!poll,
         Poller!dedup, Poller!history
<1>2. /\ Seen' = Seen /\ (\A id : Poller!Tracked(id)' = Poller!Tracked(id)) /\ Alive' = Alive
      /\ \A j : Poller!Tracked(items[j])' = Poller!Tracked(items[j])
  BY <1>1 DEF Seen, Poller!Elements, Poller!Tracked, Alive
<1>3. BaselineKnows /\ ~pollerBaselined /\ boundary <= top
  BY <1>1 DEF PollerInv, BaselineKnows
<1>4. PICK n \in Nat : n = Len(feed)
  BY PollerTypes
<1>5. /\ at' \in 1 .. Len(items) + 1 /\ boundary' \in 0 .. n /\ boundary <= boundary'
      /\ boundary' <= top
      /\ \A j \in 1 .. Len(items) : Poller!Tracked(items[j]) => items[j] \in judged
      /\ \A j \in 1 .. Len(items) : j < at' => items[j] <= boundary'
  <2>1. CASE Poller!BaselineRecorded
    <3>1. pollerPc = "baseline" /\ at > Len(items) /\ at' = 1 /\ boundary' = boundary
      BY <2>1 DEF Poller!BaselineRecorded, Poller!conditional
    <3>2. at' \in 1 .. Len(items) + 1 /\ boundary' \in 0 .. n /\ boundary <= boundary'
      BY <1>4, <3>1, PollerTypes
    <3>3. \A j \in 1 .. Len(items) : j < at /\ ~(j < at')
      BY <3>1, PollerTypes
    <3> QED
      BY <1>3, <3>1, <3>2, <3>3 DEF BaselineKnows
  <2>2. CASE Poller!RaiseBoundary
    <3>1. /\ pollerPc = "raise" /\ at <= Len(items) /\ at' = at + 1
          /\ boundary' = IF boundary >= items[at] THEN boundary ELSE items[at]
      BY <2>2 DEF Poller!RaiseBoundary, Poller!Newer
    <3>2. at \in 1 .. Len(items) /\ Len(items) \in Nat /\ items[at] \in 1 .. n /\ boundary \in 0 .. n
      BY <1>4, <3>1, PollerTypes
    <3>3. /\ at' \in 1 .. Len(items) + 1 /\ boundary' \in 0 .. n /\ boundary <= boundary'
          /\ items[at] <= boundary'
      BY <3>1, <3>2
    <3>4. \A j \in 1 .. Len(items) : j < at' => j < at \/ j = at
      BY <3>1, <3>2
    <3>5. \A j \in 1 .. Len(items) : j < at => items[j] <= boundary /\ items[j] \in 1 .. n
      BY <1>3, <1>4, <3>1, PollerTypes DEF BaselineKnows
    <3>6. \A j \in 1 .. Len(items) : j < at' => items[j] <= boundary'
      BY <3>2, <3>3, <3>4, <3>5
    <3>7. items[at] <= top
      BY <1>1, <1>3, <3>2, PollerTypes DEF BaselineKnows
    <3> QED
      BY <1>3, <3>1, <3>2, <3>3, <3>6, <3>7 DEF BaselineKnows
  <2> QED
    BY <2>1, <2>2
<1>6. Poller!TypeOK'
  <2>1. boundary' \in 0 .. FeedLength
    BY <1>4, <1>5, PollerTypes, PollerNumbers
  <2>2. pollerPc' \in Poller!Pcs
    BY <1>1 DEF Poller!Pcs
  <2> QED
    BY <1>1, <1>5, <2>1, <2>2 DEF PollerInv, PollTyped, Poller!TypeOK
<1>7. PollTyped'
  BY <1>1, <1>2, <1>4, <1>5, <1>6 DEF PollerInv, PollTyped
<1>8. BaselineKnows'
  BY <1>1, <1>2, <1>3, <1>5 DEF BaselineKnows
<1>9. PagingKnows' /\ ProcessKnows' /\ SilenceKept' /\ Poller!NothingJumpedOver'
  BY <1>1, <1>3 DEF PollerInv, PagingKnows, ProcessKnows, SilenceKept,
                    Poller!BaselineSilent, Poller!NothingJumpedOver
<1>10. AcceptedKnown'
  BY <1>1, <1>3 DEF PollerInv, AcceptedKnown, SilenceKept
<1> QED
  BY <1>7, <1>8, <1>9, <1>10 DEF PollerInv

(* The baseline is complete: it covers what was there, as far as the pages *)
(* reach, and what came while they were read is judged or cut.             *)
LEMMA MarkBaselinedStep ==
  ASSUME PollerInv, Poller!MarkBaselined
  PROVE  PollerInv'
<1>1. /\ pollerPc = "raise" /\ pollerPc' = "store" /\ at > Len(items)
      /\ pollerBaselined' = TRUE /\ cut' = cut \cup (last + 1 .. beyond)
      /\ UNCHANGED <<feed, etag, boundary, pollerDeliveries, aged, pollerQueue, mirrored, tag, at,
                     items, pages, last, top, beyond, pollerFaults, judged, born, times, lapsed>>
  BY DEF Poller!MarkBaselined, Poller!poll, Poller!dedup
<1>2. Seen' = Seen /\ Alive' = Alive /\ \A id : Poller!Tracked(id)' = Poller!Tracked(id)
  BY <1>1 DEF Seen, Poller!Elements, Poller!Tracked, Alive
<1>3. PICK n \in Nat : n = Len(feed)
  BY PollerTypes
<1>4. /\ last \in 0 .. n /\ beyond \in 0 .. n /\ born \in 0 .. n /\ boundary \in 0 .. n
      /\ top \in 0 .. n /\ n <= FeedLength /\ FeedLength \in Nat
  BY <1>3, PollerTypes, PollerNumbers
<1>5. Poller!TypeOK'
  <2>1. cut' \subseteq Poller!Ids
    <3>1. last + 1 .. beyond \subseteq Poller!Ids
      BY <1>4 DEF Poller!Ids
    <3>2. cut \subseteq Poller!Ids
      BY DEF PollerInv, PollTyped, Poller!TypeOK
    <3> QED
      BY <1>1, <3>1, <3>2
  <2>2. pollerPc' \in Poller!Pcs /\ pollerBaselined' \in BOOLEAN
    BY <1>1 DEF Poller!Pcs
  <2> QED
    BY <1>1, <2>1, <2>2 DEF PollerInv, PollTyped, Poller!TypeOK
<1>6. PollTyped'
  BY <1>1, <1>2, <1>5 DEF PollerInv, PollTyped
<1>7. /\ ~pollerBaselined /\ last <= born /\ boundary <= top
      /\ \A id \in 1 .. n :
           id <= top /\ Poller!Tracked(id) => id \in Seen \/ id <= beyond \/ id <= born
      /\ \A id \in 1 .. born :
           \/ feed[id] = "malformed" \/ \E x \in Seen : id <= x
           \/ id <= n - MaxPages * PageSize
      /\ \A j \in 1 .. Len(items) : Poller!Tracked(items[j]) => items[j] \in judged
      /\ \A j \in 1 .. Len(items) : j < at => items[j] <= boundary
  BY <1>1, <1>3 DEF PollerInv, BaselineKnows
<1>8. \A j \in 1 .. Len(items) : items[j] <= boundary
  <2>1. \A j \in 1 .. Len(items) : j < at
    BY <1>1, PollerTypes
  <2> QED
    BY <1>7, <2>1
<1>9. \A id \in Seen : id \in 1 .. n /\ id <= boundary /\ (Poller!Tracked(id) => id \in judged)
  BY <1>3, <1>7, <1>8, PollerTypes
<1>10. Poller!NothingJumpedOver'
  <2>1. ASSUME NEW id \in 1 .. n, id <= boundary, Poller!Tracked(id)
        PROVE  id \in judged \/ id \in cut' \/ id <= born
    <3>1. id <= top
      BY <1>4, <1>7, <2>1
    <3>2. CASE id \in Seen
      BY <1>9, <2>1, <3>2
    <3>3. CASE id <= beyond /\ id > born
      <4>1. id \in last + 1 .. beyond
        BY <1>4, <1>7, <3>3
      <4> QED
        BY <1>1, <4>1
    <3> QED
      BY <1>4, <1>7, <2>1, <3>1, <3>2, <3>3
  <2> QED
    BY <1>1, <1>2, <1>3, <2>1 DEF Poller!NothingJumpedOver
<1>11. SilenceKept'
  <2>1. \A id \in Poller!Ids : times[id] = 0
    BY <1>7 DEF PollerInv, SilenceKept
  <2>2. 1 .. born \subseteq Poller!Ids /\ 1 .. born \subseteq 1 .. n
    BY <1>4 DEF Poller!Ids
  <2>3. ASSUME NEW id \in 1 .. born, feed[id] # "malformed", ~(id <= n - MaxPages * PageSize)
        PROVE  id <= boundary
    <3>1. PICK x \in Seen : id <= x
      BY <1>7, <2>3
    <3>2. x \in 1 .. n /\ x <= boundary /\ id \in 1 .. n
      BY <1>9, <2>2
    <3> QED
      BY <1>4, <3>1, <3>2
  <2> QED
    BY <1>1, <1>3, <2>1, <2>2, <2>3 DEF SilenceKept, Poller!BaselineSilent
<1>12. PagingKnows' /\ ProcessKnows' /\ BaselineKnows' /\ AcceptedKnown'
  BY <1>1, <1>2 DEF PollerInv, PagingKnows, ProcessKnows, BaselineKnows, AcceptedKnown
<1> QED
  BY <1>6, <1>10, <1>11, <1>12 DEF PollerInv

(* The key decides: one that is new to the keys and above the boundary was *)
(* not accepted before, or its key had lapsed.                             *)
LEMMA JudgeStep ==
  ASSUME PollerInv, Poller!JudgeItem
  PROVE  PollerInv'
<1>1. /\ pollerPc = "process" /\ at <= Len(items) /\ Poller!RecordDelivery(items[at])
      /\ \/ items[at] \notin Alive /\ pollerPc' = "mirror" /\ at' = at
         \/ pollerPc' = "process" /\ at' = at + 1
      /\ UNCHANGED <<feed, etag, pollerBaselined, boundary, pollerQueue, mirrored, tag,
                     items, pages, last, top, beyond, pollerFaults, cut, born, times, lapsed>>
  BY DEF Poller!JudgeItem, Poller!conditional, Poller!poll, Poller!IsNew, Alive
<1>2. Seen' = Seen /\ \A id : Poller!Tracked(id)' = Poller!Tracked(id)
  BY <1>1 DEF Seen, Poller!Elements, Poller!Tracked
<1>3. PICK n \in Nat : n = Len(feed)
  BY PollerTypes
<1>4. /\ at \in 1 .. Len(items) /\ Len(items) \in Nat /\ at' \in 1 .. Len(items) + 1
      /\ pollerPc' = "mirror" => at' <= Len(items)
  BY <1>1, PollerTypes
<1>5. items[at] \in Poller!Ids /\ items[at] \in Seen /\ items[at] \in 1 .. n
  BY <1>3, <1>4, PollerTypes
<1>6. /\ pollerDeliveries' \subseteq Poller!Ids /\ aged' \subseteq pollerDeliveries'
      /\ judged' \subseteq Poller!Ids /\ judged' = judged \cup {items[at]}
      /\ Alive' = Alive \cup {items[at]}
  BY <1>1, <1>5, RecordIs
<1>7. Poller!TypeOK'
  <2>1. pollerPc' \in Poller!Pcs
    BY <1>1 DEF Poller!Pcs
  <2> QED
    BY <1>1, <1>4, <1>6, <2>1 DEF PollerInv, PollTyped, Poller!TypeOK
<1>8. PollTyped'
  BY <1>1, <1>2, <1>4, <1>7 DEF PollerInv, PollTyped
<1>9. ProcessKnows /\ last = boundary /\ pollerBaselined /\ items[at] > last
  BY <1>1, <1>5 DEF PollerInv, ProcessKnows
<1>10. ProcessKnows'
  <2>1. \A j \in 1 .. Len(items) : j < at' => j < at \/ j = at
    BY <1>1, <1>4
  <2>2. \A j \in 1 .. Len(items) : j < at' => items[j] \in judged'
    BY <1>1, <1>6, <1>9, <2>1 DEF ProcessKnows
  <2>3. pollerPc' = "mirror" => items[at'] \in judged'
    BY <1>1, <1>6
  <2> QED
    BY <1>1, <1>2, <1>9, <2>2, <2>3 DEF ProcessKnows
<1>11. PagingKnows' /\ BaselineKnows' /\ SilenceKept' /\ Poller!NothingJumpedOver'
  BY <1>1, <1>2, <1>6 DEF PollerInv, PagingKnows, BaselineKnows, SilenceKept,
                          Poller!BaselineSilent, Poller!NothingJumpedOver
<1>12. AcceptedKnown'
  <2>1. \A id \in Poller!Ids :
          times[id] # 0 /\ id \notin lapsed => times[id] = 1 /\ (id <= boundary \/ id \in Alive)
    BY DEF PollerInv, AcceptedKnown
  <2>2. ~(items[at] <= boundary)
    <3>1. boundary \in Int /\ items[at] \in Int
      BY <1>5, PollerTypes
    <3> QED
      BY <1>9, <3>1
  <2>3. items[at] \notin Alive => times[items[at]] = 0 \/ items[at] \in lapsed
    BY <1>5, <2>1, <2>2
  <2> QED
    BY <1>1, <1>6, <2>1, <2>3 DEF AcceptedKnown
<1> QED
  BY <1>8, <1>10, <1>11, <1>12 DEF PollerInv

LEMMA AcceptStep ==
  ASSUME PollerInv, Poller!AcceptItem
  PROVE  PollerInv'
<1>1. PICK n \in Nat : n = Len(feed)
  BY PollerTypes
<1>2. pollerPc = "mirror" /\ pollerPc' = "process" /\ at' = at + 1
  BY DEF Poller!AcceptItem
<1>3. at \in 1 .. Len(items) /\ Len(items) \in Nat /\ at' \in 1 .. Len(items) + 1
  <2>1. at <= Len(items)
    BY <1>2 DEF PollerInv, PollTyped
  <2> QED
    BY <1>2, <2>1, PollerTypes
<1>4. PICK x : x = items[at]
  OBVIOUS
<1>5. x \in Poller!Ids /\ x \in Seen /\ x \in 1 .. n
  BY <1>1, <1>3, <1>4, PollerTypes
<1>6. /\ mirrored' \in {mirrored, mirrored \cup {x}}
      /\ \/ pollerFaults' = pollerFaults
         \/ pollerFaults < PollFaults /\ pollerFaults' = pollerFaults + 1
      /\ pollerQueue' = IF Len(pollerQueue) < Capacity THEN Append(pollerQueue, x) ELSE pollerQueue
      /\ times' = [times EXCEPT ![x] = @ + 1]
      /\ UNCHANGED <<feed, etag, pollerBaselined, boundary, pollerDeliveries, aged, tag,
                     items, pages, last, top, beyond, judged, cut, born, lapsed>>
  BY <1>4 DEF Poller!AcceptItem, Poller!Push, Poller!conditional, Poller!poll, Poller!dedup
<1>7. /\ Seen' = Seen /\ Alive' = Alive
      /\ \A id : Poller!Tracked(id)' = Poller!Tracked(id)
  BY <1>6 DEF Seen, Poller!Elements, Poller!Tracked, Alive
<1>8. Poller!TypeOK /\ times \in [Poller!Ids -> Nat]
  BY DEF PollerInv, PollTyped, Poller!TypeOK
<1>9. /\ times' \in [Poller!Ids -> Nat] /\ times'[x] = times[x] + 1
      /\ \A id \in Poller!Ids : id # x => times'[id] = times[id]
  <2>1. times[x] \in Nat /\ times[x] + 1 \in Nat
    BY <1>5, <1>8
  <2> QED
    BY <1>5, <1>6, <1>8, <2>1
<1>10. Poller!TypeOK'
  <2>1. pollerQueue' \in Seq(Poller!Ids) /\ Len(pollerQueue') <= Capacity
    BY <1>5, <1>6, <1>8, PollerNumbers DEF Poller!TypeOK
  <2>2. pollerFaults' \in 0 .. PollFaults
    BY <1>6, <1>8, PollerNumbers DEF Poller!TypeOK
  <2>3. mirrored' \subseteq Poller!Ids /\ pollerPc' \in Poller!Pcs
    BY <1>2, <1>5, <1>6, <1>8 DEF Poller!TypeOK, Poller!Pcs
  <2> QED
    BY <1>3, <1>6, <1>8, <1>9, <2>1, <2>2, <2>3 DEF Poller!TypeOK
<1>11. PollTyped'
  BY <1>2, <1>6, <1>7, <1>10 DEF PollerInv, PollTyped
<1>12. /\ ProcessKnows /\ pollerBaselined /\ x > born /\ x \in judged
       /\ x \in Alive /\ (times[x] = 0 \/ x \in lapsed)
  BY <1>2, <1>4, <1>5 DEF PollerInv, ProcessKnows, AcceptedKnown
<1>13. ProcessKnows'
  <2>1. \A j \in 1 .. Len(items) : j < at' => j < at \/ j = at
    BY <1>2, <1>3
  <2>2. \A j \in 1 .. Len(items) : j < at' => items[j] \in judged
    BY <1>2, <1>4, <1>12, <2>1 DEF ProcessKnows
  <2> QED
    BY <1>2, <1>6, <1>7, <1>12, <2>2 DEF ProcessKnows
<1>14. PagingKnows' /\ BaselineKnows' /\ Poller!NothingJumpedOver'
  BY <1>2, <1>6, <1>7 DEF PollerInv, PagingKnows, BaselineKnows, Poller!NothingJumpedOver
<1>15. SilenceKept'
  <2>1. \A id \in 1 .. born : id \in Poller!Ids /\ id # x
    <3>1. born \in 0 .. n /\ 1 .. born \subseteq Poller!Ids
      BY <1>1, PollerTypes
    <3> QED
      BY <1>5, <1>12, <3>1
  <2> QED
    BY <1>6, <1>9, <1>12, <2>1 DEF PollerInv, SilenceKept, Poller!BaselineSilent
<1>16. AcceptedKnown'
  <2>1. ASSUME NEW id \in Poller!Ids, times'[id] # 0, id \notin lapsed
        PROVE  times'[id] = 1 /\ (id <= boundary \/ id \in Alive)
    <3>1. CASE id = x
      BY <1>9, <1>12, <2>1, <3>1
    <3>2. CASE id # x
      BY <1>9, <2>1, <3>2 DEF PollerInv, AcceptedKnown
    <3> QED
      BY <3>1, <3>2
  <2> QED
    BY <1>2, <1>6, <1>7, <2>1 DEF AcceptedKnown
<1> QED
  BY <1>11, <1>13, <1>14, <1>15, <1>16 DEF PollerInv

(* The boundary moves over what was judged, and over what is beyond the    *)
(* page cap.                                                               *)
LEMMA AdvanceStep ==
  ASSUME PollerInv, Poller!Advance
  PROVE  PollerInv'
<1>1. /\ pollerPc = "process" /\ pollerPc' = "store" /\ at > Len(items)
      /\ boundary' = IF boundary >= top THEN boundary ELSE top
      /\ cut' = cut \cup (last + 1 .. beyond)
      /\ UNCHANGED <<feed, etag, pollerBaselined, pollerDeliveries, aged, pollerQueue, mirrored, tag,
                     at, items, pages, last, top, beyond, pollerFaults, judged, born, times, lapsed>>
  BY DEF Poller!Advance, Poller!Newer, Poller!poll, Poller!dedup
<1>2. Seen' = Seen /\ Alive' = Alive /\ \A id : Poller!Tracked(id)' = Poller!Tracked(id)
  BY <1>1 DEF Seen, Poller!Elements, Poller!Tracked, Alive
<1>3. PICK n \in Nat : n = Len(feed)
  BY PollerTypes
<1>4. /\ last \in 0 .. n /\ beyond \in 0 .. n /\ born \in 0 .. n /\ boundary \in 0 .. n
      /\ top \in 0 .. n /\ n <= FeedLength /\ FeedLength \in Nat
  BY <1>3, PollerTypes, PollerNumbers
<1>5. boundary' \in 0 .. n /\ boundary <= boundary' /\ (boundary' = boundary \/ boundary' = top)
  BY <1>1, <1>4
<1>6. Poller!TypeOK'
  <2>1. cut' \subseteq Poller!Ids
    <3>1. last + 1 .. beyond \subseteq Poller!Ids
      BY <1>4 DEF Poller!Ids
    <3>2. cut \subseteq Poller!Ids
      BY DEF PollerInv, PollTyped, Poller!TypeOK
    <3> QED
      BY <1>1, <3>1, <3>2
  <2>2. pollerPc' \in Poller!Pcs /\ boundary' \in 0 .. FeedLength
    BY <1>1, <1>4, <1>5 DEF Poller!Pcs
  <2> QED
    BY <1>1, <2>1, <2>2 DEF PollerInv, PollTyped, Poller!TypeOK
<1>7. PollTyped'
  BY <1>1, <1>2, <1>3, <1>5, <1>6 DEF PollerInv, PollTyped
<1>8. /\ pollerBaselined /\ last = boundary
      /\ \A id \in 1 .. n :
           id <= top /\ id > last /\ Poller!Tracked(id) => id \in Seen \/ id <= beyond
      /\ \A j \in 1 .. Len(items) : j < at => items[j] \in judged
  BY <1>1, <1>3 DEF PollerInv, ProcessKnows
<1>9. \A id \in Seen : id \in judged
  <2>1. \A j \in 1 .. Len(items) : j < at
    BY <1>1, PollerTypes
  <2> QED
    BY <1>8, <2>1, PollerTypes
<1>10. Poller!NothingJumpedOver'
  <2>1. ASSUME NEW id \in 1 .. n, id <= boundary', Poller!Tracked(id)
        PROVE  id \in judged \/ id \in cut' \/ id <= born
    <3>1. CASE id <= boundary
      BY <1>1, <1>3, <1>8, <2>1, <3>1 DEF PollerInv, Poller!NothingJumpedOver
    <3>2. CASE id > boundary
      <4>1. id <= top /\ id > last
        BY <1>4, <1>5, <1>8, <2>1, <3>2
      <4>2. CASE id <= beyond
        <5>1. id \in last + 1 .. beyond
          BY <1>4, <4>1, <4>2
        <5> QED
          BY <1>1, <5>1
      <4> QED
        BY <1>8, <1>9, <2>1, <4>1, <4>2
    <3> QED
      BY <1>4, <3>1, <3>2
  <2> QED
    BY <1>1, <1>2, <1>3, <2>1 DEF Poller!NothingJumpedOver
<1>11. \A id \in Int : id <= boundary => id <= boundary'
  BY <1>4, <1>5
<1>12. SilenceKept' /\ AcceptedKnown'
  <2>1. SilenceKept'
    BY <1>1, <1>8, <1>11 DEF PollerInv, SilenceKept, Poller!BaselineSilent
  <2>2. AcceptedKnown'
    BY <1>1, <1>2, <1>11 DEF PollerInv, AcceptedKnown, Poller!Ids
  <2> QED
    BY <2>1, <2>2
<1>13. PagingKnows' /\ ProcessKnows' /\ BaselineKnows'
  BY <1>1 DEF PagingKnows, ProcessKnows, BaselineKnows
<1> QED
  BY <1>7, <1>10, <1>12, <1>13 DEF PollerInv

LEMMA PollerStep ==
  ASSUME PollerInv, [Poller!Next]_Poller!vars
  PROVE  PollerInv'
<1>1. CASE Poller!Poll
  BY <1>1, BeginPollStep, NextPageStep, BaselineItemStep, RaiseStep, MarkBaselinedStep, JudgeStep,
     AcceptStep, AdvanceStep, ForgetStep
     DEF Poller!Poll
<1>2. CASE Poller!NoNews
  BY <1>2, IdleStep DEF Poller!NoNews
<1> QED
  BY <1>1, <1>2, ForgetStep, PublishStep, IdleStep DEF Poller!Next

(* What the poller promises. *)
LEMMA PollerAccounts ==
  ASSUME PollerInv
  PROVE  /\ Poller!TypeOK
         /\ Poller!NothingJumpedOver /\ Poller!AcceptedOnce /\ Poller!BaselineSilent
<1>1. Poller!AcceptedOnce
  BY DEF PollerInv, AcceptedKnown, Poller!AcceptedOnce
<1> QED
  BY <1>1 DEF PollerInv, PollTyped, SilenceKept

-----------------------------------------------------------------------------
(***************************************************************************)
(* The theorems.                                                           *)
(***************************************************************************)

IngressInv == GateInv /\ PollerInv /\ IntakeInv /\ CiInv

(* The four components keep their invariants, whichever of them moves. *)
LEMMA IngressInvHolds == Spec => []IngressInv
<1>1. Init => IngressInv
  BY GateInitially, PollerInitially, IntakeInitially, CiInitially DEF Init, IngressInv
<1>2. IngressInv /\ [Next]_vars => IngressInv'
  BY ComponentSteps, GateStep, PollerStep, IntakeStep, CiStep DEF IngressInv
<1> QED
  BY <1>1, <1>2, PTL DEF Spec

(* The ingress is well typed, and the loop's queue, the poller's queue and *)
(* keys, the batch of a tick and the followed SHAs stay within the         *)
(* capacities that push, take and prune enforce.                           *)
THEOREM IngressTyped == Spec => []IngressTypeOK
<1>1. IngressInv => IngressTypeOK
  BY PollerAccounts, CiFollowed DEF IngressInv, GateInv, IntakeInv, IngressTypeOK
<1> QED
  BY <1>1, IngressInvHolds, PTL

(* No event the loop's queue accepted disappears between the peek and the  *)
(* drain of the kick-off gate; and poll_one jumps over no event, accepts   *)
(* none twice within the redelivery window and none from before its        *)
(* baseline, for every page size, page cap and feed, wherever events       *)
(* arrive between two pages and wherever a poll fails.                     *)
THEOREM EventsAreAccounted == Spec => []EventsAccounted
<1>1. IngressInv => EventsAccounted
  BY PollerAccounts DEF IngressInv, GateInv, EventsAccounted
<1> QED
  BY <1>1, IngressInvHolds, PTL

(* An event attach_issue is done with is complete on the board, after any  *)
(* failed call, crash and edit; and the CI lane follows every SHA that the *)
(* answer it works from reports in flight, at the cap as well.             *)
THEOREM LanesAreComplete == Spec => []LanesComplete
<1>1. IngressInv => LanesComplete
  BY CiFollowed DEF IngressInv, IntakeInv, LanesComplete
<1> QED
  BY <1>1, IngressInvHolds, PTL

(* attach_issue overwrites no field that somebody set before it looked,    *)
(* on whatever path and after however many failed attempts.                *)
THEOREM PromotionsAreKept == Spec => PromotionsKept
<1>1. IngressInv /\ [Next]_vars
        => [\A i \in Issues, f \in Intake!Fields :
              /\ board[i][f] = Intake!Promoted[f] /\ board'[i][f] # Intake!Promoted[f]
              => f \in raced]_Intake!vars
  BY ComponentSteps, PromotionStep DEF IngressInv
<1> QED
  BY <1>1, IngressInvHolds, PTL DEF Spec, PromotionsKept, Intake!PromotionsKept

=============================================================================
