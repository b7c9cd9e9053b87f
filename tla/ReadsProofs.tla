----------------------------- MODULE ReadsProofs -----------------------------
(***************************************************************************)
(* What is read through the tools, for every value of the constants: the   *)
(* walk over the blockers, the merge verdict, the expansion of references, *)
(* the index of a repository, and the record of a worker's thoughts.       *)
(***************************************************************************)
EXTENDS Tools, FiniteSetTheorems, SequenceTheorems, WellFoundedInduction, TLAPS

(* A nonempty set of natural numbers has a least member. *)
LEMMA LeastOf ==
  ASSUME NEW S, S \subseteq Nat, S # {}
  PROVE  \E m \in S : \A n \in S : m <= n
<1>1. IsWellFoundedOn(OpToRel(<, Nat), Nat)
  BY NatLessThanWellFounded
<1>2. PICK m \in S : \A n \in S : ~(<<n, m>> \in OpToRel(<, Nat))
  BY <1>1, WFMin
<1>3. \A n \in S : ~(n < m)
  BY <1>2 DEF OpToRel
<1> QED
  BY <1>3

-----------------------------------------------------------------------------
(***************************************************************************)
(* The thoughts.                                                           *)
(***************************************************************************)

ThoughtReasons == {"accepted", "thought-budget-exhausted", "revision-target-unknown",
                   "thought-number-regressed", "branching-not-supported", "thought-empty",
                   "thought-too-large", "secret-shaped-content"}
ThoughtRow == [number : Nat, revision : BOOLEAN, next : BOOLEAN, sequence : Nat, reason : ThoughtReasons]

ThoughtTypes ==
  /\ chain \in [highest : Nat, count : Nat, run : Nat, sequence : Nat, closed : BOOLEAN]
  /\ records \in Seq(ThoughtRow)

(* The chain knows what the records say: how many thoughts were accepted,   *)
(* the present sequence and the highest number in it, and that the last     *)
(* thought of a closed sequence said so.                                    *)
ChainKnows ==
  /\ chain.run <= MAX_THOUGHTS_PER_RUN
  /\ Cardinality(Accepted) = chain.run
  /\ \A k \in Accepted :
       /\ records[k].sequence <= chain.sequence
       /\ records[k].sequence = chain.sequence /\ ~records[k].revision => records[k].number <= chain.highest
  /\ chain.closed => \E k \in Accepted : ~records[k].next /\ records[k].sequence = chain.sequence
  /\ chain.sequence > 1 => \E k \in Accepted : records[k].sequence = chain.sequence

ThoughtInv == ThoughtTypes /\ ChainKnows /\ RecordsReadable

LEMMA ThoughtCounts == MAX_THOUGHTS_PER_RUN \in Nat /\ MaxNumber \in Nat
BY ToolsAssumption DEF ToolsAssumption

LEMMA ThoughtsInitially ==
  ASSUME ThoughtInit
  PROVE  ThoughtInv
<1>1. chain \in [highest : Nat, count : Nat, run : Nat, sequence : Nat, closed : BOOLEAN] /\ records = <<>>
  BY DEF ThoughtInit, NewChain
<1>2. chain.run = 0 /\ chain.closed = FALSE /\ chain.sequence = 1
  BY DEF ThoughtInit, NewChain
<1>3. Accepted = {} /\ records \in Seq(ThoughtRow)
  BY <1>1 DEF Accepted
<1>4. Cardinality(Accepted) = 0
  BY <1>3, FS_EmptySet
<1> QED
  BY <1>1, <1>2, <1>3, <1>4, ThoughtCounts
     DEF ThoughtInv, ThoughtTypes, ChainKnows, RecordsReadable

(* One record more: the accepted ones are those of before and, if it is    *)
(* one, the new one.                                                       *)
LEMMA OneMoreRecord ==
  ASSUME ThoughtTypes, NEW r \in ThoughtRow, records' = Append(records, r)
  PROVE  /\ records' \in Seq(ThoughtRow)
         /\ Accepted' = IF r.reason = "accepted" THEN Accepted \cup {Len(records) + 1}
                                 ELSE Accepted
         /\ Accepted \subseteq 1 .. Len(records)
         /\ \A k \in Accepted : records'[k] = records[k]
         /\ records'[Len(records) + 1] = r /\ Len(records) \in Nat
         /\ \A k \in Accepted : records[k] \in ThoughtRow
         /\ IsFiniteSet(Accepted)
<1>1. records \in Seq(ThoughtRow) /\ Len(records) \in Nat
  BY DEF ThoughtTypes
<1>2. /\ records' \in Seq(ThoughtRow) /\ Len(records') = Len(records) + 1
      /\ \A k \in 1 .. Len(records) : records'[k] = records[k]
      /\ records'[Len(records) + 1] = r
  BY <1>1
<1>3. Accepted \subseteq 1 .. Len(records)
  BY DEF Accepted
<1>4. IsFiniteSet(Accepted)
  <2>1. IsFiniteSet(1 .. Len(records))
    BY <1>1, FS_Interval
  <2> QED
    BY <2>1, <1>3, FS_Subset
<1>5. 1 .. Len(records') = (1 .. Len(records)) \cup {Len(records) + 1}
  BY <1>1, <1>2
<1>6. Accepted' = IF r.reason = "accepted" THEN Accepted \cup {Len(records) + 1}
                           ELSE Accepted
  BY <1>2, <1>5 DEF Accepted
<1>7. \A k \in Accepted : records[k] \in ThoughtRow
  BY <1>1, <1>3
<1> QED
  BY <1>1, <1>2, <1>3, <1>4, <1>6, <1>7

LEMMA RefusedThought ==
  ASSUME ThoughtInv, NEW why \in ThoughtReasons, why # "accepted", Refuse(why)
  PROVE  ThoughtInv'
<1>1. PICK r \in ThoughtRow : r.reason = why /\ records' = Append(records, r) /\ chain' = chain
  BY DEF Refuse, ThoughtRecord, ThoughtInv, ThoughtTypes, ThoughtRow
<1>2. /\ records' \in Seq(ThoughtRow) /\ Accepted' = Accepted
      /\ \A k \in Accepted : records'[k] = records[k]
  BY <1>1, OneMoreRecord DEF ThoughtInv
<1>3. ThoughtTypes' /\ ChainKnows'
  BY <1>1, <1>2 DEF ThoughtInv, ThoughtTypes, ChainKnows
<1>4. RecordsReadable'
  BY <1>2, ThoughtCounts DEF ThoughtInv, RecordsReadable
<1> QED
  BY <1>3, <1>4 DEF ThoughtInv

(* What the validation lets through. *)
LEMMA ValidThought ==
  ASSUME ThoughtTypes, NEW number \in Nat, NEW total, NEW revision \in BOOLEAN, NEW target \in Nat,
         Validate(number, total, revision, target) = "accepted"
  PROVE  /\ chain.run < MAX_THOUGHTS_PER_RUN
         /\ ~revision => (number = 1 /\ chain.closed) \/ number > chain.highest
         /\ revision => number <= chain.highest
<1>1. chain.run \in Nat /\ chain.highest \in Nat /\ chain.closed \in BOOLEAN
  BY DEF ThoughtTypes
<1>2. ~(chain.run >= MAX_THOUGHTS_PER_RUN)
  BY DEF Validate
<1>3. CASE revision
  <2>1. ValidateRevision(number, target) = "accepted"
    BY <1>2, <1>3 DEF Validate
  <2>2. ~(target > chain.highest \/ number = 0 \/ number > chain.highest)
    BY <2>1, <1>1 DEF ValidateRevision
  <2> QED
    BY <1>1, <1>2, <1>3, <2>2, ThoughtCounts
<1>4. CASE ~revision
  <2>1. ValidateThought(number, total) = "accepted"
    BY <1>2, <1>4 DEF Validate
  <2>2. (number = 1 /\ chain.closed) \/ ~(number <= chain.highest)
    BY <2>1, <1>1 DEF ValidateThought
  <2> QED
    BY <1>1, <1>2, <1>4, <2>2, ThoughtCounts
<1> QED
  BY <1>3, <1>4

LEMMA AcceptedThought ==
  ASSUME ThoughtInv, NEW number \in Nat, NEW revision \in BOOLEAN, NEW more \in BOOLEAN,
         chain.run < MAX_THOUGHTS_PER_RUN,
         ~revision => (number = 1 /\ chain.closed) \/ number > chain.highest,
         revision => number <= chain.highest,
         chain' = Accept(number, more, revision),
         records' = Append(records, ThoughtRecord(number, revision, more, chain'.sequence, "accepted"))
  PROVE  ThoughtInv'
<1>0. chain.highest \in Nat /\ chain.count \in Nat /\ chain.run \in Nat /\ chain.sequence \in Nat
      /\ chain.closed \in BOOLEAN
  BY DEF ThoughtInv, ThoughtTypes
<1>1. PICK opens \in BOOLEAN : opens <=> (~revision /\ number = 1 /\ chain.closed)
  OBVIOUS
<1>2. PICK h \in Nat, q \in Nat, c \in Nat, t \in BOOLEAN :
        /\ chain' = [highest |-> h, count |-> c, run |-> chain.run + 1, sequence |-> q, closed |-> t]
        /\ q = IF opens THEN chain.sequence + 1 ELSE chain.sequence
        /\ h = IF opens THEN 1 ELSE IF number > chain.highest THEN number ELSE chain.highest
        /\ t <=> ~more
  <2>1. PICK t \in BOOLEAN : t = ~more
    OBVIOUS
  <2>2. CASE opens
    <3>1. chain' = [highest |-> 1, count |-> 0 + 1, run |-> chain.run + 1, sequence |-> chain.sequence + 1,
                    closed |-> t]
      BY <2>1, <2>2, <1>1 DEF Accept
    <3>2. chain.sequence + 1 \in Nat /\ 0 + 1 \in Nat /\ 1 \in Nat
      BY <1>0
    <3> QED
      BY <2>1, <2>2, <3>1, <3>2
  <2>3. CASE ~opens
    <3>1. PICK h : h = IF number > chain.highest THEN number ELSE chain.highest
      OBVIOUS
    <3>2. chain' = [highest |-> h, count |-> chain.count + 1, run |-> chain.run + 1,
                    sequence |-> chain.sequence, closed |-> t]
      BY <2>1, <2>3, <3>1, <1>1 DEF Accept
    <3>3. h \in Nat /\ chain.count + 1 \in Nat
      BY <1>0, <3>1
    <3> QED
      BY <2>1, <2>3, <3>1, <3>2, <3>3, <1>0
  <2> QED
    BY <2>2, <2>3
<1>21. /\ chain'.run = chain.run + 1 /\ (chain'.closed <=> ~more) /\ chain'.sequence = q /\ chain'.highest = h
       /\ chain' \in [highest : Nat, count : Nat, run : Nat, sequence : Nat, closed : BOOLEAN]
  BY <1>0, <1>2
<1>3. PICK r \in ThoughtRow : /\ r.number = number /\ (r.revision <=> revision) /\ (r.next <=> more)
                              /\ r.sequence = q /\ r.reason = "accepted"
                              /\ records' = Append(records, r)
  <2>1. PICK r : r = [number |-> number, revision |-> revision, next |-> more, sequence |-> q,
                      reason |-> "accepted"]
    OBVIOUS
  <2>2. r \in ThoughtRow
    BY <2>1 DEF ThoughtRow, ThoughtReasons
  <2> QED
    BY <2>1, <2>2, <1>21 DEF ThoughtRecord
<1>4. PICK n, A, B : n = Len(records) + 1 /\ A = Accepted /\ B = Accepted'
  OBVIOUS
<1>5. /\ n \in Nat /\ records' \in Seq(ThoughtRow) /\ B = A \cup {n} /\ IsFiniteSet(A)
      /\ \A k \in A : k \in Nat /\ k < n /\ records'[k] = records[k] /\ records[k] \in ThoughtRow
      /\ records'[n] = r
  BY <1>3, <1>4, OneMoreRecord DEF ThoughtInv
<1>6. Cardinality(A) = chain.run /\ Cardinality(B) = chain.run + 1
  <2>1. n \notin A /\ Cardinality(A) = chain.run
    BY <1>4, <1>5 DEF ThoughtInv, ChainKnows
  <2> QED
    BY <2>1, <1>5, FS_AddElement
<1>7. /\ \A k \in A : /\ records[k].sequence <= chain.sequence
                      /\ records[k].sequence = chain.sequence /\ ~records[k].revision
                           => records[k].number <= chain.highest
      /\ chain.closed => \E k \in A : ~records[k].next /\ records[k].sequence = chain.sequence
      /\ chain.sequence > 1 => \E k \in A : records[k].sequence = chain.sequence
  BY <1>4 DEF ThoughtInv, ChainKnows
<1>8. \A k \in A : records[k].sequence \in Nat /\ records[k].number \in Nat
  BY <1>5 DEF ThoughtRow
<1>9. ThoughtTypes' /\ ChainKnows'
  <2>1. chain'.run <= MAX_THOUGHTS_PER_RUN
    BY <1>0, <1>2, <1>21, ThoughtCounts
  <2>2. ASSUME NEW k \in B
        PROVE  /\ records'[k].sequence <= chain'.sequence
               /\ records'[k].sequence = chain'.sequence /\ ~records'[k].revision
                    => records'[k].number <= chain'.highest
    <3>1. CASE k = n
      <4>1. records'[k].sequence = q /\ records'[k].number = number
        BY <3>1, <1>3, <1>5
      <4>2. number <= h
        BY <1>0, <1>1, <1>2
      <4>3. chain'.sequence = q /\ chain'.highest = h /\ q <= q
        BY <1>21
      <4> QED
        BY <4>1, <4>2, <4>3
    <3>2. CASE k \in A
      <4>1. records'[k] = records[k]
        BY <3>2, <1>5
      <4>2. PICK x \in Nat, y \in Nat : x = records[k].sequence /\ y = records[k].number
        BY <3>2, <1>8
      <4>3. x <= chain.sequence /\ (x = chain.sequence /\ ~records[k].revision => y <= chain.highest)
        BY <3>2, <4>2, <1>7
      <4>4. x <= q /\ (x = q /\ ~records[k].revision => y <= h)
        BY <4>3, <1>0, <1>2
      <4> QED
        BY <4>1, <4>2, <4>4, <1>21
    <3> QED
      BY <3>1, <3>2, <1>5
  <2>3. n \in B /\ records'[n].sequence = chain'.sequence /\ (records'[n].next <=> more)
    BY <1>21, <1>3, <1>5
  <2> QED
    BY <1>2, <1>21, <1>4, <1>5, <1>6, <2>1, <2>2, <2>3 DEF ThoughtTypes, ChainKnows
<1>10. RecordsReadable'
  <2>1. ASSUME NEW j \in B, NEW k \in B, j < k, records'[j].sequence = records'[k].sequence,
               ~records'[j].revision, ~records'[k].revision
        PROVE  records'[j].number < records'[k].number
    <3>1. j \in A
      BY <2>1, <1>5
    <3>2. records'[j] = records[j]
      BY <3>1, <1>5
    <3>3. CASE k \in A
      BY <3>1, <3>2, <3>3, <2>1, <1>4, <1>5 DEF ThoughtInv, RecordsReadable
    <3>4. CASE k = n
      <4>0. records[j].sequence = q /\ records[j].sequence <= chain.sequence
        BY <3>1, <3>2, <3>4, <2>1, <1>3, <1>5, <1>7
      <4>1. ~opens /\ records[j].sequence = chain.sequence
        BY <4>0, <1>0, <1>2
      <4>2. records[j].number <= chain.highest /\ number > chain.highest
        BY <4>1, <3>1, <3>2, <3>4, <2>1, <1>1, <1>3, <1>5, <1>7
      <4> QED
        <5>1. records'[k].number = number /\ records[j].number \in Nat
          BY <3>1, <3>4, <1>3, <1>5, <1>8
        <5>2. PICK a \in Nat, m \in Nat : a = records[j].number /\ m = chain.highest
          BY <5>1, <1>0
        <5>3. a < number
          BY <4>2, <5>2
        <5>4. records'[j].number = a
          BY <3>2, <5>2
        <5> QED
          BY <5>1, <5>3, <5>4
    <3> QED
      BY <3>3, <3>4, <1>5
  <2>2. ASSUME NEW k \in B, records'[k].sequence > 1,
               \A j \in B : j < k => records'[j].sequence < records'[k].sequence
        PROVE  \E j \in B : j < k /\ ~records'[j].next /\ records'[j].sequence = records'[k].sequence - 1
    <3>1. CASE k \in A
      <4>1. PICK j \in A : j < k /\ ~records[j].next /\ records[j].sequence = records[k].sequence - 1
        BY <3>1, <2>2, <1>4, <1>5 DEF ThoughtInv, RecordsReadable
      <4> QED
        BY <3>1, <4>1, <1>5
    <3>2. CASE k = n
      <4>1. CASE opens
        <5>1. PICK j \in A : ~records[j].next /\ records[j].sequence = chain.sequence
          BY <4>1, <1>1, <1>7
        <5>2. records'[j] = records[j] /\ j < k /\ j \in B
          BY <5>1, <3>2, <1>5
        <5>3. records'[k].sequence - 1 = chain.sequence
          <6>1. PICK x \in Nat : x = chain.sequence
            BY <1>0
          <6>2. q - 1 = x
            BY <6>1, <4>1, <1>2
          <6>3. records'[k].sequence = q
            BY <3>2, <1>3, <1>5
          <6> QED
            BY <6>1, <6>2, <6>3
        <5> QED
          BY <5>1, <5>2, <5>3
      <4>2. CASE ~opens
        <5>1. PICK j \in A : records[j].sequence = chain.sequence
          BY <3>2, <4>2, <2>2, <1>2, <1>21, <1>3, <1>5, <1>7
        <5>2. records'[j] = records[j] /\ j < k /\ j \in B
          BY <5>1, <3>2, <1>5
        <5>3. records'[k].sequence = chain.sequence
          BY <3>2, <4>2, <1>2, <1>3, <1>5
        <5>4. records'[j].sequence < records'[k].sequence
          BY <2>2, <5>2
        <5>5. PICK x \in Nat : x = chain.sequence
          BY <1>0
        <5>6. x < x
          BY <5>1, <5>2, <5>3, <5>4, <5>5
        <5> QED
          BY <5>6
      <4> QED
        BY <4>1, <4>2
    <3> QED
      BY <3>1, <3>2, <1>5
  <2>3. Cardinality(B) <= MAX_THOUGHTS_PER_RUN
    BY <1>0, <1>6, ThoughtCounts
  <2> QED
    BY <2>1, <2>2, <2>3, <1>4, ThoughtCounts DEF RecordsReadable
<1> QED
  BY <1>9, <1>10 DEF ThoughtInv

LEMMA ThoughtStep ==
  ASSUME ThoughtInv, [ThoughtNext]_thoughtVars
  PROVE  ThoughtInv'
<1>1. CASE UNCHANGED thoughtVars
  <2>1. chain' = chain /\ records' = records
    BY <1>1 DEF thoughtVars
  <2>2. Accepted' = Accepted
    BY <2>1 DEF Accepted
  <2> QED
    BY <2>1, <2>2 DEF ThoughtInv, ThoughtTypes, ChainKnows, RecordsReadable
<1>2. CASE RefuseContent
  <2>1. PICK why \in {"branching-not-supported", "thought-empty", "thought-too-large",
                      "secret-shaped-content"} : Refuse(why)
    BY <1>2 DEF RefuseContent
  <2>2. why \in ThoughtReasons /\ why # "accepted"
    BY <2>1 DEF ThoughtReasons
  <2> QED
    BY <2>1, <2>2, RefusedThought
<1>3. CASE Think
  <2>0. PICK number \in Nat, total \in Nat, target \in Nat, revision \in BOOLEAN, more \in BOOLEAN :
          IF Validate(number, total, revision, target) = "accepted"
          THEN /\ chain' = Accept(number, more, revision)
               /\ records' = Append(records,
                    ThoughtRecord(number, revision, more, chain'.sequence,
                                           Validate(number, total, revision, target)))
          ELSE Refuse(Validate(number, total, revision, target))
    BY <1>3, ThoughtCounts DEF Think
  <2>1. PICK reason : reason = Validate(number, total, revision, target)
    OBVIOUS
  <2>2. CASE reason = "accepted"
    <3>1. /\ chain.run < MAX_THOUGHTS_PER_RUN
          /\ ~revision => (number = 1 /\ chain.closed) \/ number > chain.highest
          /\ revision => number <= chain.highest
      BY <2>1, <2>2, ValidThought DEF ThoughtInv
    <3>2. chain' = Accept(number, more, revision)
      BY <2>0, <2>1, <2>2
    <3>3. records' = Append(records, ThoughtRecord(number, revision, more, chain'.sequence, "accepted"))
      BY <2>0, <2>1, <2>2
    <3> QED
      BY <3>1, <3>2, <3>3, AcceptedThought
  <2>3. CASE reason # "accepted"
    <3>1. reason \in ThoughtReasons
      BY <2>1 DEF Validate, ValidateRevision, ValidateThought, ThoughtReasons
    <3>2. Refuse(reason)
      BY <2>0, <2>1, <2>3
    <3> QED
      BY <2>3, <3>1, <3>2, RefusedThought
  <2> QED
    BY <2>2, <2>3
<1> QED
  BY <1>1, <1>2, <1>3 DEF ThoughtNext

-----------------------------------------------------------------------------
(***************************************************************************)
(* The merge verdict.                                                      *)
(***************************************************************************)

CheckRun == [check : Checks, started : Nat, bucket : Buckets \cup {"pass", "pending"}]
PullRequest ==
  [head : Oids, base : Oids, draft : {"no", "yes"}, state : {"OPEN", "CLOSED"},
   decision : Reads!Decisions, thread : Reads!Threads, checked : {"all", "some"}]
PrView ==
  [head : Oids, base : Oids, draft : {"no", "yes", "null"}, state : {"OPEN", "CLOSED", "null"},
   decision : Reads!Decisions, thread : Reads!Threads, checked : {"all", "some"}]
PrSnap ==
  [view : {Reads!Unread} \cup PrView, errors : BOOLEAN, checks : SUBSET {"read", "all_passed", "any_pending"},
   count : Nat, thread : Reads!Threads \cup {Reads!Unread}, checked : {"all", "some", Reads!Unread},
   record : BOOLEAN]

StatusTypes ==
  /\ pr \in PullRequest /\ runs \in [Oids -> Seq(CheckRun)] /\ snap \in PrSnap /\ ticks \in Nat
  /\ DOMAIN files = {Prefix(o) : o \in Oids}

(* A file that says CLEAN was written for the pair it names. *)
FilesKnown == \A f \in DOMAIN files : files[f].verdict = "CLEAN" => <<files[f].head, files[f].base>> \in cleaned

(* Every check among the first n runs has one that passes among them. *)
PassedUpTo(s, n) ==
  \A k \in 1 .. n : \E j \in 1 .. n :
    s[j].check = s[k].check /\ Reads!Classify(s[j]) \in {"pass", "not-applicable"}

(* What was read is of the view's head and base, and stays true of them. *)
SnapKnows ==
  /\ statusPc = "view" => snap = Reads!NoSnap
  /\ statusPc \in {"checks", "threads", "body", "record", "anchors"} => snap.view \in PrView
  /\ "all_passed" \in snap.checks =>
       /\ snap.view \in PrView /\ snap.count \in 1 .. Len(runs[snap.view.head])
       /\ PassedUpTo(runs[snap.view.head], snap.count)
  /\ snap.record => snap.view \in PrView /\ <<snap.view.head, snap.view.base>> \in cleaned

(* A verdict is given once, of the head and the base it was read of. *)
VerdictKnows ==
  verdict.json =>
    /\ statusPc = "done"
    /\ verdict.reasons = {} =>
         /\ verdict.kind = "verdict" /\ "all_passed" \in snap.checks /\ snap.record
         /\ pr.head = snap.view.head /\ pr.base = snap.view.base

StatusInv == StatusTypes /\ FilesKnown /\ SnapKnows /\ VerdictKnows

LEMMA StatusHolds ==
  ASSUME StatusInv
  PROVE  Reads!VerdictOfOneSnapshot
<1>1. SUFFICES ASSUME Reads!Mergeable
               PROVE  /\ verdict.kind = "verdict" /\ <<pr.head, pr.base>> \in cleaned
                      /\ snap.count > 0 /\ snap.view.head = pr.head
                      /\ PassedUpTo(runs[pr.head], snap.count)
  BY DEF Reads!VerdictOfOneSnapshot, PassedUpTo
<1>2. /\ verdict.kind = "verdict" /\ "all_passed" \in snap.checks /\ snap.record
      /\ pr.head = snap.view.head /\ pr.base = snap.view.base
  BY <1>1 DEF Reads!Mergeable, StatusInv, VerdictKnows
<1>3. <<pr.head, pr.base>> \in cleaned
  BY <1>2 DEF StatusInv, SnapKnows
<1>4. snap.count \in 1 .. Len(runs[pr.head]) /\ PassedUpTo(runs[pr.head], snap.count)
  BY <1>2 DEF StatusInv, SnapKnows
<1>5. snap.count > 0
  <2>1. pr.head \in Oids /\ runs[pr.head] \in Seq(CheckRun)
    BY DEF StatusInv, StatusTypes, PullRequest
  <2>2. Len(runs[pr.head]) \in Nat
    BY <2>1
  <2> QED
    BY <1>4, <2>2
<1> QED
  BY <1>2, <1>3, <1>4, <1>5

(* Of the values at some places up to n one is the greatest. *)
LEMMA GreatestOf ==
  ASSUME NEW n \in Nat, NEW P, P \subseteq 1 .. n, P # {}, NEW h \in [1 .. n -> Nat]
  PROVE  \E j \in P : \A i \in P : h[i] <= h[j]
<1> DEFINE Up(m) == {i \in P : i <= m}
           Has(m) == \E j \in Up(m) : \A i \in Up(m) : h[i] <= h[j]
           N == {m \in 0 .. n : Up(m) # {} /\ ~Has(m)}
<1>0. \A i \in P : i \in Nat /\ 1 <= i /\ i <= n
  OBVIOUS
<1>1. N = {}
  <2>1. SUFFICES ASSUME N # {} PROVE FALSE
    OBVIOUS
  <2>2. PICK m \in N : \A x \in N : m <= x
    <3>1. N \subseteq Nat
      OBVIOUS
    <3> QED
      BY <2>1, <3>1, LeastOf
  <2>3. m \in Nat /\ m <= n /\ Up(m) # {} /\ ~Has(m)
    BY <2>2
  <2>4. m # 0
    <3>1. PICK i \in P : i <= m
      BY <2>3
    <3> QED
      BY <3>1, <2>3, <1>0
  <2>5. m - 1 \in 0 .. n /\ m - 1 \notin N
    BY <2>2, <2>3, <2>4
  <2>6. Up(m) = IF m \in P THEN Up(m - 1) \cup {m} ELSE Up(m - 1)
    <3>1. \A i \in P : i <= m <=> (i <= m - 1 \/ i = m)
      BY <2>3, <1>0
    <3>2. ~(m <= m - 1)
      BY <2>3
    <3> QED
      BY <3>1, <3>2
  <2>7. CASE Up(m - 1) = {}
    <3>1. Up(m) = {m} /\ m \in P
      BY <2>3, <2>6, <2>7
    <3>2. h[m] <= h[m]
      BY <3>1
    <3> QED
      BY <2>3, <3>1, <3>2
  <2>8. CASE Up(m - 1) # {}
    <3>1. PICK j \in Up(m - 1) : \A i \in Up(m - 1) : h[i] <= h[j]
      BY <2>5, <2>8
    <3>2. j \in Up(m)
      BY <2>6
    <3>3. CASE m \notin P
      BY <2>3, <2>6, <3>1, <3>3
    <3>4. CASE m \in P
      <4>1. h[m] \in Nat /\ h[j] \in Nat /\ \A i \in Up(m - 1) : h[i] \in Nat
        BY <3>4
      <4>2. CASE h[m] <= h[j]
        BY <2>3, <2>6, <3>1, <3>2, <3>4, <4>2
      <4>3. CASE ~(h[m] <= h[j])
        <5>1. ASSUME NEW i \in Up(m) PROVE h[i] <= h[m]
          <6>1. CASE i = m
            BY <6>1, <4>1
          <6>2. CASE i \in Up(m - 1)
            <7>1. h[i] \in Nat /\ h[i] <= h[j]
              BY <6>2, <3>1, <4>1
            <7>2. PICK a \in Nat, b \in Nat, c \in Nat : a = h[i] /\ b = h[j] /\ c = h[m]
              BY <4>1, <7>1
            <7>3. a <= b /\ ~(c <= b)
              BY <4>3, <7>1, <7>2
            <7>4. a <= c
              BY <7>3
            <7> QED
              BY <7>2, <7>4
          <6> QED
            BY <6>1, <6>2, <2>6, <3>4
        <5>2. m \in Up(m)
          BY <3>4, <2>6
        <5> QED
          BY <2>3, <5>1, <5>2
      <4> QED
        BY <4>2, <4>3
    <3> QED
      BY <3>3, <3>4
  <2> QED
    BY <2>7, <2>8
<1>2. Up(n) = P
  BY <1>0
<1>3. n \in 0 .. n
  OBVIOUS
<1> QED
  BY <1>1, <1>2, <1>3

(* The newest run of a check that has one. *)
LEMMA NewestIsOne ==
  ASSUME NEW s \in Seq(CheckRun), NEW k \in 1 .. Len(s)
  PROVE  \E j \in 1 .. Len(s) : Reads!Newest(s, s[k].check) = s[j] /\ s[j].check = s[k].check
<1>1. Len(s) \in Nat /\ \A i \in 1 .. Len(s) : s[i] \in CheckRun /\ s[i].started \in Nat
  <2>1. Len(s) \in Nat /\ \A i \in 1 .. Len(s) : s[i] \in CheckRun
    OBVIOUS
  <2> QED
    BY <2>1 DEF CheckRun
<1>2. PICK h : h = [i \in 1 .. Len(s) |-> s[i].started]
  OBVIOUS
<1>3. PICK P : P = {i \in 1 .. Len(s) : s[i].check = s[k].check}
  OBVIOUS
<1>4. PICK j \in P : \A i \in P : h[i] <= h[j]
  <2>1. h \in [1 .. Len(s) -> Nat]
    BY <1>1, <1>2
  <2>2. P \subseteq 1 .. Len(s) /\ k \in P
    BY <1>3
  <2> QED
    BY <1>1, <2>1, <2>2, GreatestOf
<1>5. s[j] \in {s[i] : i \in 1 .. Len(s)} /\ s[j].check = s[k].check
      /\ \A i \in 1 .. Len(s) : s[i].check = s[k].check => s[i].started <= s[j].started
  BY <1>2, <1>3, <1>4
<1>6. /\ Reads!Newest(s, s[k].check) \in {s[i] : i \in 1 .. Len(s)}
      /\ Reads!Newest(s, s[k].check).check = s[k].check
  BY <1>5 DEF Reads!Newest
<1> QED
  BY <1>6

(* All checks passed: each run's check has a run that passes. *)
LEMMA AllPassed ==
  ASSUME NEW s \in Seq(CheckRun), "all_passed" \in Reads!AggregateChecks(Reads!Dedupe(s))
  PROVE  Len(s) \in 1 .. Len(s) /\ PassedUpTo(s, Len(s))
<1>1. Reads!Dedupe(s) # {} /\ \A r \in Reads!Dedupe(s) : Reads!Classify(r) \in {"pass", "not-applicable"}
  BY DEF Reads!AggregateChecks
<1>2. Len(s) \in Nat /\ \E k \in 1 .. Len(s) : TRUE
  BY <1>1 DEF Reads!Dedupe
<1>3. ASSUME NEW k \in 1 .. Len(s)
      PROVE  \E j \in 1 .. Len(s) : /\ s[j].check = s[k].check
                                    /\ Reads!Classify(s[j]) \in {"pass", "not-applicable"}
  <2>1. Reads!Newest(s, s[k].check) \in Reads!Dedupe(s)
    BY DEF Reads!Dedupe
  <2>2. PICK j \in 1 .. Len(s) : Reads!Newest(s, s[k].check) = s[j] /\ s[j].check = s[k].check
    BY NewestIsOne
  <2> QED
    BY <1>1, <2>1, <2>2
<1> QED
  BY <1>2, <1>3 DEF PassedUpTo

LEMMA StatusInitially ==
  ASSUME Reads!StatusInit
  PROVE  StatusInv
<1>1. pr \in PullRequest /\ ticks \in Nat
  BY ToolsAssumption DEF ToolsAssumption, Reads!StatusInit, PullRequest, Reads!Decisions, Reads!Threads
<1>2. PICK S : S = {[check |-> c, started |-> 1, bucket |-> "pass"] : c \in Checks}
  OBVIOUS
<1>3. S \subseteq CheckRun /\ IsFiniteSet(S)
  <2>1. S \subseteq CheckRun
    BY <1>2 DEF CheckRun
  <2>2. PICK f : f = [c \in Checks |-> [check |-> c, started |-> 1, bucket |-> "pass"]]
    OBVIOUS
  <2>3. f \in Surjection(Checks, S)
    BY <1>2, <2>2 DEF Surjection
  <2>4. IsFiniteSet(Checks)
    BY ToolsAssumption DEF ToolsAssumption
  <2> QED
    BY <2>1, <2>3, <2>4, FS_Surjection
<1>4. Reads!SetToSeq(S) \in Seq(CheckRun)
  <2>1. Cardinality(S) \in Nat /\ Reads!Cardinality(S) = Cardinality(S)
    BY <1>3, FS_CardinalityType DEF Reads!Cardinality, Cardinality
  <2>2. PICK f \in [1 .. Cardinality(S) -> S] : \A a, b \in DOMAIN f : f[a] = f[b] => a = b
    <3>1. ExistsBijection(1 .. Cardinality(S), S)
      BY <1>3, FS_CardinalityType
    <3> QED
      BY <3>1 DEF ExistsBijection, Bijection, Injection, IsInjective
  <2>3. Reads!SetToSeq(S) \in [1 .. Cardinality(S) -> S]
    BY <2>1, <2>2 DEF Reads!SetToSeq, Reads!IsInjective
  <2>4. Reads!SetToSeq(S) \in [1 .. Cardinality(S) -> CheckRun]
    BY <1>3, <2>3
  <2> QED
    BY <2>1, <2>4
<1>5. runs \in [Oids -> Seq(CheckRun)]
  <2>1. <<>> \in Seq(CheckRun)
    OBVIOUS
  <2> QED
    BY <1>2, <1>4, <2>1 DEF Reads!StatusInit
<1>6. snap = Reads!NoSnap /\ snap \in PrSnap
  BY DEF Reads!StatusInit, Reads!NoSnap, PrSnap
<1>7. FilesKnown /\ DOMAIN files = {Prefix(o) : o \in Oids}
  BY DEF Reads!StatusInit, FilesKnown, Reads!NoFile
<1>8. SnapKnows
  <2>1. snap.checks = {} /\ snap.record = FALSE /\ statusPc = "view"
    BY DEF Reads!StatusInit, Reads!NoSnap
  <2> QED
    BY <1>6, <2>1 DEF SnapKnows
<1>9. VerdictKnows
  BY DEF Reads!StatusInit, VerdictKnows, Reads!NoVerdict
<1> QED
  BY <1>1, <1>5, <1>6, <1>7, <1>8, <1>9 DEF StatusInv, StatusTypes

(* What happens to the pull request meanwhile only adds to its runs and to  *)
(* the reviews recorded.                                                    *)
WorldGrew ==
  /\ pr' \in PullRequest /\ runs' \in [Oids -> Seq(CheckRun)] /\ ticks' \in Nat
  /\ DOMAIN files' = DOMAIN files /\ FilesKnown' /\ cleaned \subseteq cleaned'
  /\ \A o \in Oids : /\ Len(runs[o]) <= Len(runs'[o])
                     /\ \A k \in 1 .. Len(runs[o]) : runs'[o][k] = runs[o][k]

LEMMA OneMoreRun ==
  ASSUME runs \in [Oids -> Seq(CheckRun)], NEW o \in Oids, NEW r \in CheckRun,
         runs' = [runs EXCEPT ![o] = Append(@, r)]
  PROVE  /\ runs' \in [Oids -> Seq(CheckRun)]
         /\ \A q \in Oids : /\ Len(runs[q]) <= Len(runs'[q])
                            /\ \A k \in 1 .. Len(runs[q]) : runs'[q][k] = runs[q][k]
<1>1. runs[o] \in Seq(CheckRun) /\ runs'[o] = Append(runs[o], r)
  OBVIOUS
<1>2. /\ Append(runs[o], r) \in Seq(CheckRun) /\ Len(runs[o]) \in Nat
      /\ Len(Append(runs[o], r)) = Len(runs[o]) + 1
      /\ \A k \in 1 .. Len(runs[o]) : Append(runs[o], r)[k] = runs[o][k]
  BY <1>1
<1>3. ASSUME NEW q \in Oids, q # o
      PROVE  runs'[q] = runs[q] /\ Len(runs[q]) \in Nat
  BY <1>3
<1>4. runs' \in [Oids -> Seq(CheckRun)]
  BY <1>2
<1>5. ASSUME NEW q \in Oids
      PROVE  /\ Len(runs[q]) <= Len(runs'[q])
             /\ \A k \in 1 .. Len(runs[q]) : runs'[q][k] = runs[q][k]
  <2>1. CASE q = o
    BY <2>1, <1>1, <1>2
  <2>2. CASE q # o
    BY <2>2, <1>3
  <2> QED
    BY <2>1, <2>2
<1> QED
  BY <1>4, <1>5

LEMMA WorldStays ==
  ASSUME StatusInv, UNCHANGED <<pr, runs, files, ticks, cleaned>>
  PROVE  WorldGrew
<1>1. pr' \in PullRequest /\ runs' \in [Oids -> Seq(CheckRun)] /\ ticks' \in Nat /\ DOMAIN files' = DOMAIN files
  BY DEF StatusInv, StatusTypes
<1>2. FilesKnown' /\ cleaned \subseteq cleaned'
  BY DEF StatusInv, FilesKnown
<1>3. \A o \in Oids : runs'[o] = runs[o] /\ Len(runs[o]) \in Nat
  BY DEF StatusInv, StatusTypes
<1> QED
  BY <1>1, <1>2, <1>3 DEF WorldGrew

LEMMA WorldMoves ==
  ASSUME StatusInv, Reads!PrMoves
  PROVE  WorldGrew
<1>0. /\ pr \in PullRequest /\ runs \in [Oids -> Seq(CheckRun)] /\ ticks \in Nat
      /\ pr.head \in Oids /\ pr.base \in Oids
  BY DEF StatusInv, StatusTypes, PullRequest
<1>1. CASE pr' \in PullRequest /\ UNCHANGED <<runs, files, ticks, cleaned>>
  <2>1. FilesKnown' /\ cleaned \subseteq cleaned' /\ DOMAIN files' = DOMAIN files
    BY <1>1 DEF StatusInv, FilesKnown
  <2>2. \A o \in Oids : runs'[o] = runs[o] /\ Len(runs[o]) \in Nat
    BY <1>0, <1>1
  <2> QED
    BY <1>0, <1>1, <2>1, <2>2 DEF WorldGrew
<1>2. CASE \E o \in Oids, r \in CheckRun :
             /\ runs' = [runs EXCEPT ![o] = Append(@, r)]
             /\ ticks' \in Nat /\ UNCHANGED <<pr, files, cleaned>>
  <2>1. PICK o \in Oids, r \in CheckRun : runs' = [runs EXCEPT ![o] = Append(@, r)]
    BY <1>2
  <2>2. FilesKnown' /\ cleaned \subseteq cleaned' /\ DOMAIN files' = DOMAIN files
    BY <1>2 DEF StatusInv, FilesKnown
  <2> QED
    BY <1>0, <1>2, <2>1, <2>2, OneMoreRun DEF WorldGrew
<1>3. ASSUME NEW v \in {"CLEAN", "FINDINGS"},
             files' = [files EXCEPT ![Prefix(pr.head)] = [head |-> pr.head, base |-> pr.base, verdict |-> v]],
             cleaned' = IF v = "CLEAN" THEN cleaned \cup {<<pr.head, pr.base>>} ELSE cleaned,
             UNCHANGED <<pr, runs, ticks>>
      PROVE  WorldGrew
  <2>1. DOMAIN files' = DOMAIN files /\ cleaned \subseteq cleaned'
    BY <1>3
  <2>2. ASSUME NEW f \in DOMAIN files', files'[f].verdict = "CLEAN"
        PROVE  <<files'[f].head, files'[f].base>> \in cleaned'
    <3>1. CASE f = Prefix(pr.head)
      BY <1>3, <2>2, <3>1, <2>1
    <3>2. CASE f # Prefix(pr.head)
      <4>1. files'[f] = files[f] /\ f \in DOMAIN files
        BY <1>3, <2>1, <3>2
      <4> QED
        BY <2>1, <2>2, <4>1 DEF StatusInv, FilesKnown
    <3> QED
      BY <3>1, <3>2
  <2>3. \A o \in Oids : runs'[o] = runs[o] /\ Len(runs[o]) \in Nat
    BY <1>0, <1>3
  <2> QED
    BY <1>0, <1>3, <2>1, <2>2, <2>3 DEF WorldGrew, FilesKnown
<1>4. ASSUME NEW o \in Oids, pr' \in {[pr EXCEPT !.head = o], [pr EXCEPT !.base = o]}
      PROVE  pr' \in PullRequest
  BY <1>0, <1>4 DEF PullRequest
<1>5. ASSUME pr' \in {[pr EXCEPT !.draft = "yes"], [pr EXCEPT !.state = "CLOSED"],
                     [pr EXCEPT !.checked = IF @ = "all" THEN "some" ELSE "all"]}
      PROVE  pr' \in PullRequest
  BY <1>0, <1>5 DEF PullRequest
<1>6. ASSUME NEW d \in Reads!Decisions, pr' = [pr EXCEPT !.decision = d]
      PROVE  pr' \in PullRequest
  BY <1>0, <1>6 DEF PullRequest
<1>7. ASSUME NEW t \in Reads!Threads, pr' = [pr EXCEPT !.thread = t]
      PROVE  pr' \in PullRequest
  BY <1>0, <1>7 DEF PullRequest
<1>8. ASSUME NEW o \in Oids, NEW c \in Checks, NEW b \in Buckets,
             runs' = [runs EXCEPT ![o] = Append(@, [check |-> c, started |-> ticks + 1, bucket |-> b])],
             ticks' = ticks + 1, UNCHANGED <<pr, files, cleaned>>
      PROVE  WorldGrew
  <2>1. [check |-> c, started |-> ticks + 1, bucket |-> b] \in CheckRun /\ ticks' \in Nat
    BY <1>0, <1>8 DEF CheckRun
  <2> QED
    BY <1>2, <1>8, <2>1
<1>9. ASSUME NEW o \in Oids, NEW c \in Checks,
             runs' = [runs EXCEPT ![o] = Append(@, [check |-> c, started |-> 0, bucket |-> "pending"])],
             UNCHANGED <<pr, files, ticks, cleaned>>
      PROVE  WorldGrew
  <2>1. [check |-> c, started |-> 0, bucket |-> "pending"] \in CheckRun /\ ticks' \in Nat
    BY <1>0, <1>9 DEF CheckRun
  <2> QED
    BY <1>2, <1>9, <2>1
<1> QED
  BY <1>1, <1>3, <1>4, <1>5, <1>6, <1>7, <1>8, <1>9 DEF Reads!PrMoves

(* What the snapshot says of the runs and of the reviews stays true while   *)
(* they grow.                                                               *)
LEMMA SnapStays ==
  ASSUME StatusInv, WorldGrew, NEW s \in PrSnap,
         "all_passed" \in s.checks =>
           /\ s.view \in PrView /\ s.count \in 1 .. Len(runs[s.view.head])
           /\ PassedUpTo(runs[s.view.head], s.count),
         s.record => s.view \in PrView /\ <<s.view.head, s.view.base>> \in cleaned
  PROVE  /\ "all_passed" \in s.checks =>
              /\ s.view \in PrView /\ s.count \in 1 .. Len(runs'[s.view.head])
              /\ PassedUpTo(runs'[s.view.head], s.count)
         /\ s.record => s.view \in PrView /\ <<s.view.head, s.view.base>> \in cleaned'
<1>1. ASSUME "all_passed" \in s.checks
      PROVE  s.count \in 1 .. Len(runs'[s.view.head]) /\ PassedUpTo(runs'[s.view.head], s.count)
  <2>1. PICK o \in Oids : o = s.view.head
    BY <1>1 DEF PrView
  <2>2. PICK n \in Nat : n = s.count
    BY DEF PrSnap
  <2>3. n \in 1 .. Len(runs[o]) /\ PassedUpTo(runs[o], n)
    BY <1>1, <2>1, <2>2
  <2>4. /\ Len(runs[o]) \in Nat /\ Len(runs'[o]) \in Nat /\ Len(runs[o]) <= Len(runs'[o])
        /\ \A k \in 1 .. Len(runs[o]) : runs'[o][k] = runs[o][k]
    BY DEF StatusInv, StatusTypes, WorldGrew
  <2>5. \A k \in 1 .. n : runs'[o][k] = runs[o][k]
    BY <2>3, <2>4
  <2>6. PassedUpTo(runs'[o], n)
    BY <2>3, <2>5 DEF PassedUpTo
  <2>7. n \in 1 .. Len(runs'[o])
    BY <2>3, <2>4
  <2> QED
    BY <2>1, <2>2, <2>6, <2>7
<1>2. cleaned \subseteq cleaned'
  BY DEF WorldGrew
<1> QED
  BY <1>1, <1>2

(* A read adds one field to the snapshot; the verdict is still to come. *)
LEMMA OneRead ==
  ASSUME StatusInv, WorldGrew, UNCHANGED verdict, ~verdict.json, snap' \in PrSnap,
         statusPc' \in {"checks", "threads", "body", "record", "anchors"}, snap'.view \in PrView,
         "all_passed" \in snap'.checks =>
           /\ snap'.count \in 1 .. Len(runs[snap'.view.head])
           /\ PassedUpTo(runs[snap'.view.head], snap'.count),
         snap'.record => <<snap'.view.head, snap'.view.base>> \in cleaned
  PROVE  StatusInv'
<1>1. PICK s \in PrSnap : s = snap'
  OBVIOUS
<1>2. /\ "all_passed" \in s.checks =>
           /\ s.view \in PrView /\ s.count \in 1 .. Len(runs'[s.view.head])
           /\ PassedUpTo(runs'[s.view.head], s.count)
      /\ s.record => s.view \in PrView /\ <<s.view.head, s.view.base>> \in cleaned'
  BY <1>1, SnapStays
<1>3. SnapKnows'
  BY <1>1, <1>2 DEF SnapKnows
<1>4. VerdictKnows'
  BY DEF VerdictKnows
<1>5. StatusTypes' /\ FilesKnown'
  BY DEF WorldGrew, StatusInv, StatusTypes
<1> QED
  BY <1>3, <1>4, <1>5 DEF StatusInv

(* The call ends without a verdict. *)
LEMMA NoVerdictGiven ==
  ASSUME StatusInv, NEW kind, Reads!FailWith(kind), UNCHANGED Reads!World
  PROVE  StatusInv'
<1>1. WorldGrew
  BY WorldStays DEF Reads!World
<1>2. snap' = snap /\ statusPc' = "done" /\ ~verdict'.json
  BY DEF Reads!FailWith, Reads!Step, Reads!NoVerdict
<1>3. PICK s \in PrSnap : s = snap
  BY DEF StatusInv, StatusTypes
<1>4. /\ "all_passed" \in s.checks =>
           /\ s.view \in PrView /\ s.count \in 1 .. Len(runs'[s.view.head])
           /\ PassedUpTo(runs'[s.view.head], s.count)
      /\ s.record => s.view \in PrView /\ <<s.view.head, s.view.base>> \in cleaned'
  BY <1>1, <1>3, SnapStays DEF StatusInv, SnapKnows
<1>5. SnapKnows'
  BY <1>2, <1>3, <1>4 DEF SnapKnows
<1>6. VerdictKnows'
  BY <1>2 DEF VerdictKnows
<1>7. StatusTypes' /\ FilesKnown'
  BY <1>1, <1>2 DEF WorldGrew, StatusInv, StatusTypes
<1> QED
  BY <1>5, <1>6, <1>7 DEF StatusInv

LEMMA StatusStep ==
  ASSUME StatusInv, [Reads!StatusNext]_Reads!statusVars
  PROVE  StatusInv'
<1>0. /\ pr \in PullRequest /\ snap \in PrSnap /\ runs \in [Oids -> Seq(CheckRun)]
      /\ statusPc # "done" => ~verdict.json
      /\ \A x \in {"checks", "threads", "body", "record", "anchors"} : statusPc = x => snap.view \in PrView
      /\ "all_passed" \in snap.checks =>
           /\ snap.view \in PrView /\ snap.count \in 1 .. Len(runs[snap.view.head])
           /\ PassedUpTo(runs[snap.view.head], snap.count)
      /\ snap.record => snap.view \in PrView /\ <<snap.view.head, snap.view.base>> \in cleaned
  BY DEF StatusInv, StatusTypes, SnapKnows, VerdictKnows
<1>1. CASE UNCHANGED Reads!statusVars
  BY <1>1 DEF Reads!statusVars, StatusInv, StatusTypes, FilesKnown, SnapKnows, VerdictKnows
<1>2. CASE Reads!ReadView
  <2>0. WorldGrew
    BY <1>2, WorldStays DEF Reads!ReadView, Reads!World
  <2>1. CASE \E kind \in Reads!ViewFailures : Reads!FailWith(kind)
    BY <1>2, <2>1, NoVerdictGiven DEF Reads!ReadView
  <2>2. ASSUME NEW e \in BOOLEAN, NEW nulls \in SUBSET {"decision", "draft", "state"},
               snap' = [snap EXCEPT !.errors = e,
                          !.view = [pr EXCEPT !.decision = IF "decision" \in nulls THEN "" ELSE @,
                                              !.draft = IF "draft" \in nulls THEN "null" ELSE @,
                                              !.state = IF "state" \in nulls THEN "null" ELSE @]],
               Reads!Step("checks"), UNCHANGED verdict
        PROVE  StatusInv'
    <3>1. PICK v : v = [pr EXCEPT !.decision = IF "decision" \in nulls THEN "" ELSE @,
                                  !.draft = IF "draft" \in nulls THEN "null" ELSE @,
                                  !.state = IF "state" \in nulls THEN "null" ELSE @]
      OBVIOUS
    <3>2. v \in PrView
      BY <1>0, <3>1 DEF PullRequest, PrView, Reads!Decisions
    <3>3. snap' = [snap EXCEPT !.errors = e, !.view = v]
      BY <2>2, <3>1
    <3>4. snap' \in PrSnap /\ snap'.view = v /\ snap'.checks = snap.checks /\ snap'.record = snap.record
      BY <1>0, <3>2, <3>3 DEF PrSnap
    <3>5. snap = Reads!NoSnap
      BY <1>2 DEF Reads!ReadView, StatusInv, SnapKnows
    <3>6. snap'.checks = {} /\ snap'.record = FALSE
      BY <3>4, <3>5 DEF Reads!NoSnap
    <3>7. ~verdict.json /\ statusPc' = "checks"
      BY <1>0, <1>2, <2>2 DEF Reads!ReadView, Reads!Step
    <3> QED
      BY <2>0, <2>2, <3>2, <3>4, <3>6, <3>7, OneRead
  <2> QED
    BY <1>2, <2>1, <2>2 DEF Reads!ReadView
<1>3. CASE Reads!ReadChecks
  <2>1. WorldGrew /\ UNCHANGED verdict /\ ~verdict.json /\ statusPc' = "threads" /\ snap.view \in PrView
    BY <1>0, <1>3, WorldStays DEF Reads!ReadChecks, Reads!World, Reads!Step
  <2>2. CASE UNCHANGED snap
    BY <1>0, <2>1, <2>2, OneRead
  <2>3. ASSUME snap' = [snap EXCEPT
                 !.checks = {"read"} \cup Reads!AggregateChecks(Reads!Dedupe(runs[snap.view.head])),
                 !.count = Len(runs[snap.view.head])]
        PROVE  StatusInv'
    <3>1. PICK s \in Seq(CheckRun) : s = runs[snap.view.head]
      BY <1>0, <2>1 DEF PrView
    <3>2. PICK c : c = {"read"} \cup Reads!AggregateChecks(Reads!Dedupe(s))
      OBVIOUS
    <3>3. c \in SUBSET {"read", "all_passed", "any_pending"}
      BY <3>2 DEF Reads!AggregateChecks
    <3>4. PICK n \in Nat : n = Len(s)
      OBVIOUS
    <3>5. snap' = [snap EXCEPT !.checks = c, !.count = n]
      BY <2>3, <3>1, <3>2, <3>4
    <3>6. /\ snap' \in PrSnap /\ snap'.view = snap.view /\ snap'.checks = c /\ snap'.count = n
          /\ snap'.record = snap.record
      BY <1>0, <3>3, <3>5 DEF PrSnap
    <3>7. "all_passed" \in c => n \in 1 .. n /\ PassedUpTo(s, n)
      BY <3>2, <3>4, AllPassed
    <3>8. /\ "all_passed" \in snap'.checks =>
               /\ snap'.count \in 1 .. Len(runs[snap'.view.head])
               /\ PassedUpTo(runs[snap'.view.head], snap'.count)
          /\ snap'.record => <<snap'.view.head, snap'.view.base>> \in cleaned
      BY <1>0, <3>1, <3>4, <3>6, <3>7
    <3>9. snap'.view \in PrView
      BY <2>1, <3>6
    <3> QED
      BY <2>1, <3>6, <3>8, <3>9, OneRead
  <2> QED
    BY <1>3, <2>2, <2>3 DEF Reads!ReadChecks
<1>4. CASE Reads!ReadThreads
  <2>1. WorldGrew /\ UNCHANGED verdict /\ ~verdict.json /\ statusPc' = "body" /\ snap.view \in PrView
    BY <1>0, <1>4, WorldStays DEF Reads!ReadThreads, Reads!World, Reads!Step
  <2>2. CASE UNCHANGED snap
    BY <1>0, <2>1, <2>2, OneRead
  <2>3. CASE snap' = [snap EXCEPT !.thread = pr.thread]
    <3>1. pr.thread \in Reads!Threads
      BY <1>0 DEF PullRequest
    <3>2. /\ snap' \in PrSnap /\ snap'.view = snap.view /\ snap'.checks = snap.checks
          /\ snap'.count = snap.count /\ snap'.record = snap.record
      BY <1>0, <2>3, <3>1 DEF PrSnap
    <3> QED
      BY <1>0, <2>1, <3>2, OneRead
  <2> QED
    BY <1>4, <2>2, <2>3 DEF Reads!ReadThreads
<1>5. CASE Reads!ReadBody
  <2>1. WorldGrew /\ UNCHANGED verdict /\ ~verdict.json /\ statusPc' = "record" /\ snap.view \in PrView
    BY <1>0, <1>5, WorldStays DEF Reads!ReadBody, Reads!World, Reads!Step
  <2>2. CASE UNCHANGED snap
    BY <1>0, <2>1, <2>2, OneRead
  <2>3. CASE snap' = [snap EXCEPT !.checked = pr.checked]
    <3>1. pr.checked \in {"all", "some"}
      BY <1>0 DEF PullRequest
    <3>2. /\ snap' \in PrSnap /\ snap'.view = snap.view /\ snap'.checks = snap.checks
          /\ snap'.count = snap.count /\ snap'.record = snap.record
      BY <1>0, <2>3, <3>1 DEF PrSnap
    <3> QED
      BY <1>0, <2>1, <3>2, OneRead
  <2> QED
    BY <1>5, <2>2, <2>3 DEF Reads!ReadBody
<1>6. CASE Reads!ReadReviewRecord
  <2>1. WorldGrew /\ UNCHANGED verdict /\ ~verdict.json /\ statusPc' = "anchors" /\ snap.view \in PrView
    BY <1>0, <1>6, WorldStays DEF Reads!ReadReviewRecord, Reads!World, Reads!Step
  <2>2. CASE UNCHANGED snap
    BY <1>0, <2>1, <2>2, OneRead
  <2>3. CASE snap' = [snap EXCEPT !.record = Reads!RecordClean(files[Prefix(snap.view.head)])]
    <3>1. PICK b \in BOOLEAN : b = Reads!RecordClean(files[Prefix(snap.view.head)])
      BY DEF Reads!RecordClean
    <3>2. /\ snap' \in PrSnap /\ snap'.view = snap.view /\ snap'.checks = snap.checks
          /\ snap'.count = snap.count /\ snap'.record = b
      BY <1>0, <2>3, <3>1 DEF PrSnap
    <3>3. ASSUME b PROVE <<snap.view.head, snap.view.base>> \in cleaned
      <4>1. PICK f \in DOMAIN files : f = Prefix(snap.view.head)
        BY <2>1 DEF PrView, StatusInv, StatusTypes
      <4>2. files[f].verdict = "CLEAN" /\ files[f].head = snap.view.head /\ files[f].base = snap.view.base
        BY <3>1, <3>3, <4>1 DEF Reads!RecordClean
      <4> QED
        BY <4>2 DEF StatusInv, FilesKnown
    <3> QED
      BY <1>0, <2>1, <3>2, <3>3, OneRead
  <2> QED
    BY <1>6, <2>2, <2>3 DEF Reads!ReadReviewRecord
<1>7. CASE Reads!CheckAnchors
  <2>1. CASE \E kind \in Reads!ViewFailures : Reads!FailWith(kind)
    BY <1>7, <2>1, NoVerdictGiven DEF Reads!CheckAnchors
  <2>2. CASE Reads!FailWith("concurrent-edit")
    BY <1>7, <2>2, NoVerdictGiven DEF Reads!CheckAnchors
  <2>3. ASSUME Reads!AnchorsStable, Reads!Step("done"), UNCHANGED snap,
               verdict' = [kind |-> IF Reads!UnreadSubchecks = {} THEN "verdict" ELSE "unrecoverable",
                           json |-> TRUE, reasons |-> Reads!Reasons]
        PROVE  StatusInv'
    <3>1. pr' = pr /\ runs' = runs /\ files' = files /\ ticks' = ticks /\ cleaned' = cleaned
      BY <1>7 DEF Reads!CheckAnchors, Reads!World
    <3>2. statusPc' = "done" /\ snap' = snap
      BY <2>3 DEF Reads!Step
    <3>3. StatusTypes' /\ FilesKnown' /\ SnapKnows'
      BY <3>1, <3>2 DEF StatusInv, StatusTypes, FilesKnown, SnapKnows
    <3>4. ASSUME verdict'.reasons = {}
          PROVE  /\ verdict'.kind = "verdict" /\ "all_passed" \in snap.checks /\ snap.record
                 /\ pr.head = snap.view.head /\ pr.base = snap.view.base
      <4>1. Reads!Reasons = {}
        BY <2>3, <3>4
      <4>2. /\ Reads!UnreadSubchecks = {}
            /\ "agent_review_not_clean_at_head" \notin Reads!Reasons /\ "checks_not_passing" \notin Reads!Reasons
        BY <4>1 DEF Reads!Reasons
      <4>3. snap.record /\ ("read" \in snap.checks => "all_passed" \in snap.checks)
        BY <4>2 DEF Reads!Reasons
      <4>4. "read" \in snap.checks
        BY <4>2 DEF Reads!UnreadSubchecks
      <4> QED
        BY <2>3, <4>2, <4>3, <4>4 DEF Reads!AnchorsStable
    <3>5. VerdictKnows'
      BY <3>1, <3>2, <3>4 DEF VerdictKnows
    <3> QED
      BY <3>3, <3>5 DEF StatusInv
  <2> QED
    BY <1>7, <2>1, <2>2, <2>3 DEF Reads!CheckAnchors
<1>8. CASE Reads!PrMoves
  <2>1. WorldGrew /\ snap' = snap /\ verdict' = verdict /\ statusPc' = statusPc /\ ~verdict.json
    BY <1>0, <1>8, WorldMoves DEF Reads!PrMoves
  <2>2. PICK s \in PrSnap : s = snap
    BY <1>0
  <2>3. /\ "all_passed" \in s.checks =>
             /\ s.view \in PrView /\ s.count \in 1 .. Len(runs'[s.view.head])
             /\ PassedUpTo(runs'[s.view.head], s.count)
        /\ s.record => s.view \in PrView /\ <<s.view.head, s.view.base>> \in cleaned'
    BY <1>0, <2>1, <2>2, SnapStays
  <2>4. SnapKnows'
    BY <2>1, <2>2, <2>3 DEF StatusInv, SnapKnows
  <2>5. VerdictKnows' /\ StatusTypes' /\ FilesKnown'
    BY <1>0, <2>1 DEF WorldGrew, StatusInv, StatusTypes, VerdictKnows
  <2> QED
    BY <2>4, <2>5 DEF StatusInv
<1> QED
  BY <1>1, <1>2, <1>3, <1>4, <1>5, <1>6, <1>7, <1>8 DEF Reads!StatusNext

-----------------------------------------------------------------------------
(***************************************************************************)
(* The repository index.                                                   *)
(***************************************************************************)

IxShape(ix) == ix = [paths |-> ix.paths, blobs |-> ix.blobs, symbols |-> ix.symbols, calls |-> ix.calls]

(* Every content is under one path, its blob's, and every path has a blob;  *)
(* a symbol is one its content defines; and a blob that never left its path *)
(* has all its symbols there.                                               *)
IxKnows(ix) ==
  /\ \A d \in DOMAIN ix.blobs : Index!Having(ix.paths, d) = {ix.blobs[d].path}
  /\ \A f \in DOMAIN ix.paths : ix.paths[f] \in DOMAIN ix.blobs
  /\ \A id \in DOMAIN ix.symbols :
       ix.symbols[id] \in DOMAIN ix.blobs /\ id[2] \in Definitions(ix.symbols[id])
  /\ \A d \in DOMAIN ix.blobs : ix.blobs[d].still =>
       \A x \in Definitions(d) :
         /\ <<ix.blobs[d].path, x>> \in DOMAIN ix.symbols
         /\ ix.symbols[<<ix.blobs[d].path, x>>] = d

(* The files read in this pass: the copy has what was read of them, and no  *)
(* content read is under a path that was not.                               *)
PassKnows(ix, s) ==
  /\ \A f \in DOMAIN s : f \in DOMAIN ix.paths => ix.paths[f] = s[f]
  /\ \A f \in DOMAIN s : s[f] \in DOMAIN ix.blobs /\ ix.blobs[s[f]].path \in DOMAIN s

IndexInv ==
  /\ IxShape(index) /\ IxKnows(index) /\ IxShape(next) /\ IxKnows(next)
  /\ PassKnows(next, contextSeen)
  /\ walked \subseteq IndexFiles /\ todo \subseteq walked
  /\ DOMAIN contextSeen = walked \ todo
  /\ Index!IndexSound

LEMMA IndexInitially ==
  ASSUME Index!ContextInit
  PROVE  IndexInv
<1>1. /\ index = [paths |-> Index!Empty, blobs |-> Index!Empty, symbols |-> Index!Empty, calls |-> {}]
      /\ next = index /\ walked = {} /\ todo = {} /\ contextSeen = Index!Empty /\ basis = Index!Empty
  BY DEF Index!ContextInit
<1>2. DOMAIN Index!Empty = {}
  BY DEF Index!Empty
<1>3. IxShape(index) /\ IxKnows(index)
  BY <1>1, <1>2 DEF IxShape, IxKnows
<1>4. PassKnows(next, contextSeen)
  BY <1>1, <1>2 DEF PassKnows
<1>5. Index!IndexSound
  <2>1. {basis[f] : f \in DOMAIN basis} = {}
    BY <1>1, <1>2
  <2> QED
    BY <1>1, <1>2, <2>1 DEF Index!IndexSound
<1> QED
  BY <1>1, <1>2, <1>3, <1>4, <1>5 DEF IndexInv

(* remove_path: the paths go, and what they had goes with them, since no    *)
(* other path has it.                                                       *)
LostWith(ix, S) == {ix.paths[f] : f \in S \cap DOMAIN ix.paths}

LEMMA PathsRemoved ==
  ASSUME NEW ix, IxShape(ix), IxKnows(ix), NEW S, NEW r, r = Index!RemovePaths(ix, S)
  PROVE  /\ IxShape(r) /\ IxKnows(r)
         /\ DOMAIN r.paths = DOMAIN ix.paths \ S /\ \A f \in DOMAIN r.paths : r.paths[f] = ix.paths[f]
         /\ DOMAIN r.blobs = DOMAIN ix.blobs \ LostWith(ix, S)
         /\ \A d \in DOMAIN r.blobs : r.blobs[d] = ix.blobs[d]
<1>0. PICK D : D = {ix.paths[f] : f \in S \cap DOMAIN ix.paths} /\ D = LostWith(ix, S)
  BY DEF LostWith
<1>1. PICK P : P = Index!Without(ix.paths, S)
  OBVIOUS
<1>2. DOMAIN P = DOMAIN ix.paths \ S /\ \A f \in DOMAIN P : P[f] = ix.paths[f]
  BY <1>1 DEF Index!Without
<1>3. PICK left : left = [ix EXCEPT !.paths = P]
  OBVIOUS
<1>4. left = [paths |-> P, blobs |-> ix.blobs, symbols |-> ix.symbols, calls |-> ix.calls]
  BY <1>3 DEF IxShape
<1>5. {d \in {ix.paths[f] : f \in S \cap DOMAIN ix.paths} : Index!Having(left.paths, d) = {}} = D
  <2>1. ASSUME NEW f \in S \cap DOMAIN ix.paths
        PROVE  Index!Having(P, ix.paths[f]) = {}
    <3>1. PICK p : Index!Having(ix.paths, ix.paths[f]) = {p}
      BY <2>1 DEF IxKnows
    <3>2. f \in Index!Having(ix.paths, ix.paths[f])
      BY DEF Index!Having
    <3> QED
      BY <3>1, <3>2, <1>2 DEF Index!Having
  <2>2. left.paths = P
    BY <1>4
  <2> QED
    BY <2>1, <2>2, <1>0
<1>6. r = Index!PurgeDigestData(left, D)
  BY <1>1, <1>3, <1>5 DEF Index!RemovePaths
<1>7. PICK Y : Y = Index!Without(ix.symbols, {id \in DOMAIN ix.symbols : ix.symbols[id] \in D})
  OBVIOUS
<1>8. /\ DOMAIN Y = {id \in DOMAIN ix.symbols : ix.symbols[id] \notin D}
      /\ \A id \in DOMAIN Y : Y[id] = ix.symbols[id]
  BY <1>7 DEF Index!Without
<1>9. PICK B : B = Index!Without(ix.blobs, D)
  OBVIOUS
<1>10. DOMAIN B = DOMAIN ix.blobs \ D /\ \A d \in DOMAIN B : B[d] = ix.blobs[d]
  BY <1>9 DEF Index!Without
<1>11. r = [paths |-> P, blobs |-> B, symbols |-> Y, calls |-> ix.calls]
  <2>1. left.symbols = ix.symbols /\ left.blobs = ix.blobs
    BY <1>4
  <2>2. r = [left EXCEPT !.symbols = Y, !.blobs = B]
    BY <1>6, <1>7, <1>9, <2>1 DEF Index!PurgeDigestData
  <2> QED
    BY <1>4, <2>2
<1>12. r.paths = P /\ r.blobs = B /\ r.symbols = Y
  BY <1>11
<1>13. IxShape(r)
  BY <1>11 DEF IxShape
<1>14. ASSUME NEW d \in DOMAIN B
       PROVE  Index!Having(P, d) = {B[d].path}
  <2>1. Index!Having(ix.paths, d) = {ix.blobs[d].path}
    BY <1>10 DEF IxKnows
  <2>2. Index!Having(P, d) = Index!Having(ix.paths, d)
    <3>1. \A f \in Index!Having(ix.paths, d) : f \notin S
      BY <1>0, <1>10 DEF Index!Having
    <3> QED
      BY <3>1, <1>2 DEF Index!Having
  <2> QED
    BY <2>1, <2>2, <1>10
<1>15. ASSUME NEW f \in DOMAIN P
       PROVE  P[f] \in DOMAIN B
  <2>1. P[f] = ix.paths[f] /\ f \in DOMAIN ix.paths /\ f \notin S /\ ix.paths[f] \in DOMAIN ix.blobs
    BY <1>2 DEF IxKnows
  <2>2. ix.paths[f] \notin D
    <3>1. SUFFICES ASSUME NEW g \in S \cap DOMAIN ix.paths, ix.paths[f] = ix.paths[g] PROVE FALSE
      BY <1>0
    <3>2. PICK p : Index!Having(ix.paths, ix.paths[f]) = {p}
      BY <2>1 DEF IxKnows
    <3>3. f \in Index!Having(ix.paths, ix.paths[f]) /\ g \in Index!Having(ix.paths, ix.paths[f])
      BY <2>1, <3>1 DEF Index!Having
    <3> QED
      BY <2>1, <3>2, <3>3
  <2> QED
    BY <2>1, <2>2, <1>10
<1>16. \A id \in DOMAIN Y : Y[id] \in DOMAIN B /\ id[2] \in Definitions(Y[id])
  BY <1>8, <1>10 DEF IxKnows
<1>17. ASSUME NEW d \in DOMAIN B, B[d].still, NEW x \in Definitions(d)
       PROVE  <<B[d].path, x>> \in DOMAIN Y /\ Y[<<B[d].path, x>>] = d
  <2>1. B[d] = ix.blobs[d] /\ d \in DOMAIN ix.blobs /\ d \notin D
    BY <1>10
  <2>2. <<ix.blobs[d].path, x>> \in DOMAIN ix.symbols /\ ix.symbols[<<ix.blobs[d].path, x>>] = d
    BY <1>17, <2>1 DEF IxKnows
  <2> QED
    BY <2>1, <2>2, <1>8
<1>18. IxKnows(r)
  BY <1>12, <1>14, <1>15, <1>16, <1>17 DEF IxKnows
<1> QED
  BY <1>0, <1>2, <1>10, <1>12, <1>13, <1>18

(* upsert_blob: the content is under the path it was last read at, and only *)
(* content that is new is parsed.                                           *)
LEMMA BlobUpserted ==
  ASSUME NEW ix, IxShape(ix), IxKnows(ix), NEW f, NEW d, f \in DOMAIN ix.paths => ix.paths[f] = d,
         NEW r, r = Index!UpsertBlob(ix, f, d, Index!Reused(ix, f, d))
  PROVE  /\ IxShape(r) /\ IxKnows(r)
         /\ f \in DOMAIN r.paths /\ r.paths[f] = d
         /\ \A g \in DOMAIN r.paths : g # f => g \in DOMAIN ix.paths /\ r.paths[g] = ix.paths[g]
         /\ d \in DOMAIN r.blobs /\ r.blobs[d].path = f
         /\ \A e \in DOMAIN ix.blobs : e # d => e \in DOMAIN r.blobs /\ r.blobs[e] = ix.blobs[e]
<1>0. PICK reused \in BOOLEAN : reused = Index!Reused(ix, f, d) /\ (reused <=> d \in DOMAIN ix.blobs)
  BY DEF Index!Reused, IxKnows
<1>1. PICK blob : blob = [path |-> f, age |-> IF reused THEN "reused" ELSE "current",
                          still |-> reused => ix.blobs[d].still /\ ix.blobs[d].path = f]
  OBVIOUS
<1>2. blob.path = f /\ (blob.still => (reused => ix.blobs[d].still /\ ix.blobs[d].path = f))
  BY <1>1
<1>3. PICK B : B = Index!With(ix.blobs, d, blob)
  OBVIOUS
<1>4. DOMAIN B = {d} \cup DOMAIN ix.blobs /\ B[d] = blob /\ \A e \in DOMAIN B : e # d => B[e] = ix.blobs[e]
  BY <1>3 DEF Index!With
<1>5. PICK P : P = Index!With(Index!Without(ix.paths, Index!Having(ix.paths, d)), f, d)
  OBVIOUS
<1>6. /\ DOMAIN P = {f} \cup (DOMAIN ix.paths \ Index!Having(ix.paths, d)) /\ P[f] = d
      /\ \A g \in DOMAIN P : g # f => P[g] = ix.paths[g]
  BY <1>5 DEF Index!With, Index!Without
<1>7. PICK mid : mid = [ix EXCEPT !.blobs = B]
  OBVIOUS
<1>8. mid = [paths |-> ix.paths, blobs |-> B, symbols |-> ix.symbols, calls |-> ix.calls] /\ mid.paths = ix.paths
  BY <1>7 DEF IxShape
<1>9. PICK kept : kept = Index!ReassociatePath(mid, f, d)
  OBVIOUS
<1>10. kept = [paths |-> P, blobs |-> B, symbols |-> ix.symbols, calls |-> ix.calls]
  <2>1. kept = [mid EXCEPT !.paths = P]
    BY <1>5, <1>8, <1>9 DEF Index!ReassociatePath
  <2> QED
    BY <1>8, <2>1
<1>11. r = IF reused THEN kept ELSE Index!ParseBlob(kept, f, d)
  BY <1>0, <1>1, <1>3, <1>7, <1>9 DEF Index!UpsertBlob
<1>12. ASSUME NEW e \in DOMAIN B
       PROVE  Index!Having(P, e) = {B[e].path}
  <2>1. CASE e = d
    <3>1. \A g \in DOMAIN P : g # f => P[g] # d
      BY <1>6 DEF Index!Having
    <3> QED
      BY <1>2, <1>4, <1>6, <2>1, <3>1 DEF Index!Having
  <2>2. CASE e # d
    <3>1. e \in DOMAIN ix.blobs /\ B[e] = ix.blobs[e] /\ Index!Having(ix.paths, e) = {ix.blobs[e].path}
      BY <1>4, <2>2 DEF IxKnows
    <3>2. Index!Having(P, e) = Index!Having(ix.paths, e)
      <4>1. ASSUME NEW g PROVE g \in Index!Having(P, e) <=> g \in Index!Having(ix.paths, e)
        BY <1>6, <2>2 DEF Index!Having
      <4> QED
        BY <4>1
    <3> QED
      BY <3>1, <3>2
  <2> QED
    BY <2>1, <2>2
<1>13. \A g \in DOMAIN P : P[g] \in DOMAIN B
  BY <1>4, <1>6 DEF IxKnows
<1>14. CASE reused
  <2>1. r = [paths |-> P, blobs |-> B, symbols |-> ix.symbols, calls |-> ix.calls]
    BY <1>10, <1>11, <1>14
  <2>2. r.paths = P /\ r.blobs = B /\ r.symbols = ix.symbols /\ IxShape(r)
    BY <2>1 DEF IxShape
  <2>3. \A id \in DOMAIN ix.symbols :
          ix.symbols[id] \in DOMAIN B /\ id[2] \in Definitions(ix.symbols[id])
    BY <1>4 DEF IxKnows
  <2>4. ASSUME NEW e \in DOMAIN B, B[e].still, NEW x \in Definitions(e)
        PROVE  <<B[e].path, x>> \in DOMAIN ix.symbols /\ ix.symbols[<<B[e].path, x>>] = e
    <3>1. e \in DOMAIN ix.blobs /\ ix.blobs[e].still /\ ix.blobs[e].path = B[e].path
      BY <1>0, <1>2, <1>4, <1>14, <2>4
    <3> QED
      BY <3>1 DEF IxKnows
  <2>5. IxKnows(r)
    BY <1>12, <1>13, <2>2, <2>3, <2>4 DEF IxKnows
  <2> QED
    BY <1>2, <1>4, <1>6, <2>2, <2>5
<1>15. CASE ~reused
  <2>1. PICK new : new = {<<f, x>> : x \in Definitions(d)}
    OBVIOUS
  <2>2. PICK Y : Y = [id \in new \cup DOMAIN ix.symbols |-> IF id \in new THEN d ELSE ix.symbols[id]]
    OBVIOUS
  <2>3. r = [paths |-> P, blobs |-> B, symbols |-> Y, calls |-> ix.calls]
    <3>1. kept.symbols = ix.symbols
      BY <1>10
    <3>2. r = [kept EXCEPT !.symbols = Y]
      BY <1>11, <1>15, <2>1, <2>2, <3>1 DEF Index!ParseBlob
    <3> QED
      BY <1>10, <3>2
  <2>4. r.paths = P /\ r.blobs = B /\ r.symbols = Y /\ IxShape(r)
    BY <2>3 DEF IxShape
  <2>5. ASSUME NEW id \in DOMAIN Y
        PROVE  Y[id] \in DOMAIN B /\ id[2] \in Definitions(Y[id])
    <3>1. CASE id \in new
      <4>1. PICK x \in Definitions(d) : id = <<f, x>>
        BY <2>1, <3>1
      <4> QED
        BY <1>4, <2>2, <3>1, <4>1
    <3>2. CASE id \notin new
      BY <1>4, <2>2, <3>2 DEF IxKnows
    <3> QED
      BY <3>1, <3>2
  <2>6. ASSUME NEW e \in DOMAIN B, B[e].still, NEW x \in Definitions(e)
        PROVE  <<B[e].path, x>> \in DOMAIN Y /\ Y[<<B[e].path, x>>] = e
    <3>1. CASE e = d
      BY <1>2, <1>4, <2>1, <2>2, <3>1
    <3>2. CASE e # d
      <4>1. e \in DOMAIN ix.blobs /\ B[e] = ix.blobs[e]
        BY <1>4, <3>2
      <4>2. /\ <<B[e].path, x>> \in DOMAIN ix.symbols /\ ix.symbols[<<B[e].path, x>>] = e
            /\ Index!Having(ix.paths, e) = {B[e].path}
        BY <2>6, <4>1 DEF IxKnows
      <4>3. B[e].path # f
        BY <3>2, <4>2 DEF Index!Having
      <4>4. <<B[e].path, x>> \notin new
        BY <2>1, <4>3
      <4> QED
        BY <2>2, <4>2, <4>4
    <3> QED
      BY <3>1, <3>2
  <2>7. IxKnows(r)
    BY <1>12, <1>13, <2>4, <2>5, <2>6 DEF IxKnows
  <2> QED
    BY <1>2, <1>4, <1>6, <2>4, <2>7
<1> QED
  BY <1>14, <1>15

(* The path's former content is detached; nothing read in this pass goes. *)
LEMMA PathDetached ==
  ASSUME NEW ix, IxShape(ix), IxKnows(ix), NEW s, PassKnows(ix, s), NEW f, f \notin DOMAIN s, NEW d,
         NEW r, r = Index!Detached(ix, f, d)
  PROVE  /\ IxShape(r) /\ IxKnows(r) /\ PassKnows(r, s)
         /\ f \in DOMAIN r.paths => r.paths[f] = d
<1>1. CASE ~(f \in DOMAIN ix.paths /\ ix.paths[f] # d)
  BY <1>1 DEF Index!Detached
<1>2. CASE f \in DOMAIN ix.paths /\ ix.paths[f] # d
  <2>1. r = Index!RemovePaths(ix, {f})
    BY <1>2 DEF Index!Detached
  <2>2. PICK S : S = {f} /\ r = Index!RemovePaths(ix, S)
    BY <2>1
  <2>3. PICK D : D = LostWith(ix, S) /\ D = {ix.paths[f]}
    BY <1>2, <2>2 DEF LostWith
  <2>4. /\ IxShape(r) /\ IxKnows(r)
        /\ DOMAIN r.paths = DOMAIN ix.paths \ S /\ \A g \in DOMAIN r.paths : r.paths[g] = ix.paths[g]
        /\ DOMAIN r.blobs = DOMAIN ix.blobs \ D /\ \A e \in DOMAIN r.blobs : r.blobs[e] = ix.blobs[e]
    BY <2>2, <2>3, PathsRemoved
  <2>5. ASSUME NEW g \in DOMAIN s
        PROVE  s[g] \in DOMAIN r.blobs /\ r.blobs[s[g]].path \in DOMAIN s
    <3>1. s[g] \in DOMAIN ix.blobs /\ ix.blobs[s[g]].path \in DOMAIN s
      BY DEF PassKnows
    <3>2. Index!Having(ix.paths, ix.paths[f]) = {ix.blobs[ix.paths[f]].path}
      BY <1>2 DEF IxKnows
    <3>3. f = ix.blobs[ix.paths[f]].path
      BY <1>2, <3>2 DEF Index!Having
    <3>4. s[g] # ix.paths[f]
      BY <3>1, <3>3
    <3> QED
      BY <2>3, <2>4, <3>1, <3>4
  <2>6. PassKnows(r, s)
    BY <2>4, <2>5 DEF PassKnows
  <2> QED
    BY <2>2, <2>4, <2>6
<1> QED
  BY <1>1, <1>2

LEMMA FirstToRead ==
  ASSUME todo # {}, todo \subseteq IndexFiles
  PROVE  Index!Min(todo) \in todo
<1>1. PICK m \in todo : \A n \in todo : m <= n
  BY ToolsAssumption, LeastOf DEF ToolsAssumption
<1> QED
  BY <1>1 DEF Index!Min

(* A pass that read every file gives the index of what it read. *)
LEMMA PassEnded ==
  ASSUME IndexInv, Index!EndPass
  PROVE  IndexInv'
<1>1. /\ index' = Index!Rebuilt(Index!EvictOrphanedPaths(next)) /\ basis' = contextSeen /\ todo = {}
      /\ walked' = {} /\ next' = index' /\ contextSeen' = Index!Empty /\ todo' = todo
  BY DEF Index!EndPass
<1>2. DOMAIN contextSeen = walked /\ IxShape(next) /\ IxKnows(next) /\ PassKnows(next, contextSeen)
  BY <1>1 DEF IndexInv
<1>3. PICK r : r = Index!EvictOrphanedPaths(next)
  OBVIOUS
<1>4. PICK S : S = DOMAIN next.paths \ walked
  OBVIOUS
<1>5. PICK D : D = LostWith(next, S) /\ D = {next.paths[f] : f \in S}
  BY <1>4 DEF LostWith
<1>6. /\ IxShape(r) /\ IxKnows(r)
      /\ DOMAIN r.paths = DOMAIN next.paths \ S /\ \A f \in DOMAIN r.paths : r.paths[f] = next.paths[f]
      /\ DOMAIN r.blobs = DOMAIN next.blobs \ D /\ \A d \in DOMAIN r.blobs : r.blobs[d] = next.blobs[d]
  <2>1. r = Index!RemovePaths(next, S)
    BY <1>3, <1>4 DEF Index!EvictOrphanedPaths
  <2>2. /\ IxShape(r) /\ IxKnows(r)
        /\ DOMAIN r.paths = DOMAIN next.paths \ S /\ \A f \in DOMAIN r.paths : r.paths[f] = next.paths[f]
        /\ DOMAIN r.blobs = DOMAIN next.blobs \ LostWith(next, S)
        /\ \A d \in DOMAIN r.blobs : r.blobs[d] = next.blobs[d]
    BY <1>2, <2>1, PathsRemoved
  <2> QED
    BY <1>5, <2>2
<1>7. \A f \in DOMAIN r.paths : f \in DOMAIN contextSeen /\ r.paths[f] = contextSeen[f]
  BY <1>2, <1>4, <1>6 DEF PassKnows
<1>8. DOMAIN r.blobs = {contextSeen[f] : f \in DOMAIN contextSeen}
  <2>1. ASSUME NEW d \in DOMAIN r.blobs
        PROVE  \E f \in DOMAIN contextSeen : d = contextSeen[f]
    <3>1. r.blobs[d].path \in Index!Having(r.paths, d)
      BY <1>6 DEF IxKnows
    <3> QED
      BY <1>7, <3>1 DEF Index!Having
  <2>2. ASSUME NEW f \in DOMAIN contextSeen
        PROVE  contextSeen[f] \in DOMAIN r.blobs
    <3>1. contextSeen[f] \in DOMAIN next.blobs /\ next.blobs[contextSeen[f]].path \in walked
      BY <1>2 DEF PassKnows
    <3>2. contextSeen[f] \notin D
      <4>1. SUFFICES ASSUME NEW g \in DOMAIN next.paths, g \notin walked, contextSeen[f] = next.paths[g]
                     PROVE  FALSE
        BY <1>4, <1>5
      <4>2. Index!Having(next.paths, contextSeen[f]) = {next.blobs[contextSeen[f]].path}
        BY <1>2, <3>1 DEF IxKnows
      <4>3. g \in Index!Having(next.paths, contextSeen[f])
        BY <4>1 DEF Index!Having
      <4> QED
        BY <3>1, <4>1, <4>2, <4>3
    <3> QED
      BY <1>6, <3>1, <3>2
  <2> QED
    BY <2>1, <2>2
<1>9. PICK C : C = {e \in (DOMAIN r.symbols) \X (DOMAIN r.symbols) :
                      e[1] # e[2] /\ e[2][2][2] \in Mentions(r.symbols[e[1]], e[1][2][2])}
  OBVIOUS
<1>10. index' = [r EXCEPT !.calls = C]
  BY <1>1, <1>3, <1>9 DEF Index!Rebuilt
<1>11. index' = [paths |-> r.paths, blobs |-> r.blobs, symbols |-> r.symbols, calls |-> C]
  BY <1>6, <1>10 DEF IxShape
<1>12. /\ index'.paths = r.paths /\ index'.blobs = r.blobs /\ index'.symbols = r.symbols
       /\ index'.calls = C
  BY <1>11
<1>13. IxShape(index')
  BY <1>11 DEF IxShape
<1>14. IxKnows(index')
  BY <1>6, <1>12 DEF IxKnows
<1>15. Index!IndexSound'
  <2>1. DOMAIN index'.blobs = {basis'[f] : f \in DOMAIN basis'}
    BY <1>1, <1>8, <1>12
  <2>2. \A f \in DOMAIN index'.paths : f \in DOMAIN basis' /\ index'.paths[f] = basis'[f]
    BY <1>1, <1>7, <1>12
  <2>3. \A d \in DOMAIN index'.blobs : Index!Having(index'.paths, d) = {index'.blobs[d].path}
    BY <1>14 DEF IxKnows
  <2>4. ASSUME NEW id \in DOMAIN index'.symbols
        PROVE  /\ index'.symbols[id] \in DOMAIN index'.blobs
               /\ id[2] \in Definitions(index'.symbols[id])
               /\ {e[1] : e \in {e \in index'.calls : e[2] = id}} \subseteq DOMAIN index'.symbols
    <3>1. {e[1] : e \in {e \in C : e[2] = id}} \subseteq DOMAIN r.symbols
      BY <1>9
    <3> QED
      BY <1>12, <1>14, <3>1 DEF IxKnows
  <2>5. ASSUME NEW d \in DOMAIN index'.blobs, index'.blobs[d].still, NEW x \in Definitions(d)
        PROVE  /\ index'.blobs[d].path \in
                    {f \in DOMAIN index'.paths : \E y \in Definitions(index'.paths[f]) : y[2] = x[2]}
               /\ <<index'.blobs[d].path, x>> \in {id \in DOMAIN index'.symbols : id[2][2] = x[2]}
               /\ index'.symbols[<<index'.blobs[d].path, x>>] = d
    <3>1. /\ <<index'.blobs[d].path, x>> \in DOMAIN index'.symbols
          /\ index'.symbols[<<index'.blobs[d].path, x>>] = d
      BY <1>14, <2>5 DEF IxKnows
    <3>2. index'.blobs[d].path \in Index!Having(index'.paths, d)
      BY <2>3
    <3>3. index'.blobs[d].path \in DOMAIN index'.paths /\ index'.paths[index'.blobs[d].path] = d
      BY <3>2 DEF Index!Having
    <3>4. <<index'.blobs[d].path, x>>[2][2] = x[2]
      OBVIOUS
    <3> QED
      BY <3>1, <3>3, <3>4
  <2> QED
    BY <2>1, <2>2, <2>3, <2>4, <2>5
    DEF Index!IndexSound, Index!SearchText, Index!FindSymbol, Index!CallersOf
<1>16. PassKnows(next', contextSeen') /\ DOMAIN contextSeen' = {}
  BY <1>1 DEF PassKnows, Index!Empty
<1> QED
  BY <1>1, <1>13, <1>14, <1>15, <1>16 DEF IndexInv

LEMMA IndexStep ==
  ASSUME IndexInv, [Index!ContextNext]_Index!contextVars
  PROVE  IndexInv'
<1>1. CASE UNCHANGED <<index, basis>> /\ next' = index /\ contextSeen' = Index!Empty
           /\ walked' \subseteq IndexFiles /\ todo' = walked'
  <2>1. Index!IndexSound'
    BY <1>1 DEF IndexInv, Index!IndexSound, Index!SearchText, Index!FindSymbol, Index!CallersOf
  <2>2. PassKnows(next', contextSeen') /\ DOMAIN contextSeen' = {}
    BY <1>1 DEF PassKnows, Index!Empty
  <2>3. IxShape(index') /\ IxKnows(index') /\ IxShape(next') /\ IxKnows(next')
    BY <1>1 DEF IndexInv
  <2>4. walked' \ todo' = {} /\ todo' \subseteq walked'
    BY <1>1
  <2> QED
    BY <1>1, <2>1, <2>2, <2>3, <2>4 DEF IndexInv
<1>2. CASE UNCHANGED <<index, next, walked, todo, contextSeen, basis>>
  <2>1. Index!IndexSound'
    BY <1>2 DEF IndexInv, Index!IndexSound, Index!SearchText, Index!FindSymbol, Index!CallersOf
  <2> QED
    BY <1>2, <2>1 DEF IndexInv
<1>3. CASE Index!IndexPath
  <2>1. PICK f : f = Index!Min(todo)
    OBVIOUS
  <2>2. f \in todo /\ f \in walked /\ f \notin DOMAIN contextSeen
    BY <1>3, <2>1, FirstToRead DEF Index!IndexPath, IndexInv
  <2>3. PICK d : d = disk[f]
    OBVIOUS
  <2>4. PICK ix : ix = Index!Detached(next, f, d)
    OBVIOUS
  <2>5. /\ IxShape(ix) /\ IxKnows(ix) /\ PassKnows(ix, contextSeen)
        /\ f \in DOMAIN ix.paths => ix.paths[f] = d
    BY <2>2, <2>4, PathDetached DEF IndexInv
  <2>8. /\ next' = Index!UpsertBlob(ix, f, d, Index!Reused(ix, f, d))
        /\ todo' = todo \ {f} /\ contextSeen' = Index!With(contextSeen, f, d)
        /\ index' = index /\ walked' = walked /\ basis' = basis
    BY <1>3, <2>1, <2>3, <2>4 DEF Index!IndexPath
  <2>9. PICK r : r = next' /\ r = Index!UpsertBlob(ix, f, d, Index!Reused(ix, f, d))
    BY <2>8
  <2>10. /\ IxShape(r) /\ IxKnows(r)
         /\ f \in DOMAIN r.paths /\ r.paths[f] = d
         /\ \A g \in DOMAIN r.paths : g # f => g \in DOMAIN ix.paths /\ r.paths[g] = ix.paths[g]
         /\ d \in DOMAIN r.blobs /\ r.blobs[d].path = f
         /\ \A e \in DOMAIN ix.blobs : e # d => e \in DOMAIN r.blobs /\ r.blobs[e] = ix.blobs[e]
    BY <2>5, <2>9, BlobUpserted
  <2>11. PICK s : s = Index!With(contextSeen, f, d)
    OBVIOUS
  <2>12. /\ DOMAIN s = {f} \cup DOMAIN contextSeen /\ s[f] = d
         /\ \A g \in DOMAIN contextSeen : g # f => s[g] = contextSeen[g]
    BY <2>11 DEF Index!With
  <2>13. ASSUME NEW g \in DOMAIN s
         PROVE  /\ g \in DOMAIN r.paths => r.paths[g] = s[g]
                /\ s[g] \in DOMAIN r.blobs /\ r.blobs[s[g]].path \in DOMAIN s
    <3>1. CASE g = f
      BY <2>10, <2>12, <3>1
    <3>2. CASE g # f
      <4>1. /\ g \in DOMAIN contextSeen /\ s[g] = contextSeen[g]
            /\ g \in DOMAIN ix.paths => ix.paths[g] = s[g]
            /\ s[g] \in DOMAIN ix.blobs /\ ix.blobs[s[g]].path \in DOMAIN contextSeen
        BY <2>5, <2>12, <3>2 DEF PassKnows
      <4>2. CASE s[g] = d
        BY <2>10, <2>12, <3>2, <4>1, <4>2
      <4>3. CASE s[g] # d
        BY <2>10, <2>12, <3>2, <4>1, <4>3
      <4> QED
        BY <4>2, <4>3
    <3> QED
      BY <3>1, <3>2
  <2>14. PassKnows(next', contextSeen')
    BY <2>8, <2>9, <2>11, <2>13 DEF PassKnows
  <2>15. DOMAIN contextSeen' = walked' \ todo' /\ todo' \subseteq walked' /\ walked' \subseteq IndexFiles
    BY <2>2, <2>8, <2>11, <2>12 DEF IndexInv
  <2>16. Index!IndexSound' /\ IxShape(index') /\ IxKnows(index')
    BY <2>8 DEF IndexInv, Index!IndexSound, Index!SearchText, Index!FindSymbol, Index!CallersOf
  <2> QED
    BY <2>9, <2>10, <2>14, <2>15, <2>16 DEF IndexInv
<1>4. CASE Index!BeginPass
  BY <1>1, <1>4 DEF Index!BeginPass
<1>5. CASE Index!PassFails
  BY <1>1, <1>5 DEF Index!PassFails
<1>6. CASE Index!EndPass
  BY <1>6, PassEnded
<1>7. CASE Index!Edit
  BY <1>2, <1>7 DEF Index!Edit
<1>8. CASE UNCHANGED Index!contextVars
  BY <1>2, <1>8 DEF Index!contextVars
<1> QED
  BY <1>3, <1>4, <1>5, <1>6, <1>7, <1>8 DEF Index!ContextNext

-----------------------------------------------------------------------------
(***************************************************************************)
(* The expansion of references.                                            *)
(***************************************************************************)

Accumulates(g, n, h) == g = [m \in 0 .. n |-> IF m = 0 THEN 0 ELSE g[m - 1] + h[m]]

(* Running totals: there is one sequence of them. *)
LEMMA TotalsExist ==
  ASSUME NEW n \in Nat, NEW h \in [1 .. n -> Nat]
  PROVE  \E g \in [0 .. n -> Nat] : Accumulates(g, n, h)
<1> DEFINE Right(g, m) == \A j \in 0 .. m : g[j] = IF j = 0 THEN 0 ELSE g[j - 1] + h[j]
           N == {m \in 0 .. n : ~\E g \in [0 .. n -> Nat] : Right(g, m)}
<1>1. N = {}
  <2>1. SUFFICES ASSUME N # {} PROVE FALSE
    OBVIOUS
  <2>2. PICK m \in N : \A x \in N : m <= x
    <3>1. N \subseteq Nat
      OBVIOUS
    <3> QED
      BY <2>1, <3>1, LeastOf
  <2>3. m \in Nat /\ m <= n /\ ~\E g \in [0 .. n -> Nat] : Right(g, m)
    BY <2>2
  <2>4. m # 0
    <3>1. [j \in 0 .. n |-> 0] \in [0 .. n -> Nat] /\ Right([j \in 0 .. n |-> 0], 0)
      OBVIOUS
    <3> QED
      BY <2>3, <3>1
  <2>5. m - 1 \in 0 .. n /\ m - 1 \notin N
    <3>1. m - 1 \in 0 .. n /\ ~(m <= m - 1)
      BY <2>3, <2>4
    <3> HIDE DEF N
    <3> QED
      BY <2>2, <3>1
  <2>6. PICK g \in [0 .. n -> Nat] : Right(g, m - 1)
    BY <2>5
  <2>7. PICK f : f = [j \in 0 .. n |-> IF j = m THEN g[m - 1] + h[m] ELSE g[j]]
    OBVIOUS
  <2>8. g[m - 1] \in Nat /\ h[m] \in Nat
    BY <2>3, <2>4, <2>5
  <2>9. f \in [0 .. n -> Nat]
    BY <2>7, <2>8
  <2>10. ASSUME NEW j \in 0 .. m
         PROVE  f[j] = IF j = 0 THEN 0 ELSE f[j - 1] + h[j]
    <3>1. CASE j = m
      <4>1. j \in 0 .. n /\ j - 1 \in 0 .. n /\ j - 1 # m /\ j # 0
        BY <2>3, <2>4, <3>1
      <4> QED
        BY <2>7, <3>1, <4>1
    <3>2. CASE j # m
      <4>1. j \in 0 .. n /\ j \in 0 .. m - 1 /\ (j # 0 => j - 1 \in 0 .. n /\ j - 1 # m)
        BY <2>3, <2>4, <2>10, <3>2
      <4>2. g[j] = IF j = 0 THEN 0 ELSE g[j - 1] + h[j]
        BY <2>6, <4>1
      <4> QED
        BY <2>7, <3>2, <4>1, <4>2
    <3> QED
      BY <3>1, <3>2
  <2> QED
    BY <2>3, <2>9, <2>10
<1>2. PICK g \in [0 .. n -> Nat] : Right(g, n)
  <2>1. n \in 0 .. n
    OBVIOUS
  <2> QED
    BY <1>1, <2>1
<1>3. g = [m \in 0 .. n |-> g[m]]
  OBVIOUS
<1>4. Accumulates(g, n, h)
  BY <1>2, <1>3 DEF Accumulates
<1> QED
  BY <1>4

LEMMA TotalsUnique ==
  ASSUME NEW n \in Nat, NEW h \in [1 .. n -> Nat], NEW g, Accumulates(g, n, h), NEW f, Accumulates(f, n, h)
  PROVE  g = f
<1> DEFINE N == {m \in 0 .. n : g[m] # f[m]}
<1>0. /\ g = [m \in 0 .. n |-> g[m]] /\ f = [m \in 0 .. n |-> f[m]]
      /\ \A m \in 0 .. n : /\ g[m] = IF m = 0 THEN 0 ELSE g[m - 1] + h[m]
                           /\ f[m] = IF m = 0 THEN 0 ELSE f[m - 1] + h[m]
  BY DEF Accumulates
<1>1. N = {}
  <2>1. SUFFICES ASSUME N # {} PROVE FALSE
    OBVIOUS
  <2>2. PICK m \in N : \A x \in N : m <= x
    <3>1. N \subseteq Nat
      OBVIOUS
    <3> QED
      BY <2>1, <3>1, LeastOf
  <2>3. m \in Nat /\ m <= n /\ g[m] # f[m] /\ m # 0
    <3>1. m \in 0 .. n /\ g[m] # f[m]
      BY <2>2
    <3>0. 0 \in 0 .. n
      OBVIOUS
    <3>2. g[0] = 0 /\ f[0] = 0
      BY <3>0 DEF Accumulates
    <3> QED
      BY <3>1, <3>2
  <2>4. m - 1 \in 0 .. n /\ m - 1 \notin N
    BY <2>2, <2>3
  <2>5. g[m - 1] = f[m - 1]
    BY <2>4
  <2>6. g[m] = g[m - 1] + h[m] /\ f[m] = f[m - 1] + h[m]
    BY <1>0, <2>3
  <2> QED
    BY <2>3, <2>5, <2>6
<1>2. \A m \in 0 .. n : g[m] = f[m]
  BY <1>1
<1> QED
  BY <1>0, <1>2

(* A new term moves the total by what it is. *)
Totals(g, n, h) == n \in Nat /\ h \in [1 .. n -> Nat] /\ g \in [0 .. n -> Nat] /\ Accumulates(g, n, h)
OneNewTerm(w, h, k, n) == k \in 1 .. n /\ h[k] = 0 /\ \A j \in 1 .. n : j # k => w[j] = h[j]

LEMMA TotalsGrow ==
  ASSUME NEW n, NEW h, NEW g, Totals(g, n, h), NEW w, NEW f, Totals(f, n, w), NEW k, OneNewTerm(w, h, k, n)
  PROVE  f[n] = g[n] + w[k]
<1> USE DEF Totals, OneNewTerm
<1>0. PICK a \in Nat : a = w[k]
  OBVIOUS
<1>1. PICK q : q = [m \in 0 .. n |-> IF m >= k THEN g[m] + a ELSE g[m]]
  OBVIOUS
<1>4. ASSUME NEW m \in 0 .. n
      PROVE  q[m] = IF m = 0 THEN 0 ELSE q[m - 1] + w[m]
  <2>1. g[m] = IF m = 0 THEN 0 ELSE g[m - 1] + h[m]
    BY DEF Accumulates
  <2>2. CASE m = 0
    BY <1>1, <2>1, <2>2
  <2>3. CASE m # 0
    <3>1. m \in 1 .. n /\ m - 1 \in 0 .. n
      BY <2>3
    <3>2. PICK x \in Nat, y \in Nat : x = g[m - 1] /\ y = h[m]
      BY <3>1
    <3>3. g[m] = x + y
      BY <2>1, <2>3, <3>2
    <3>4. CASE m < k
      <4>1. q[m] = x + y /\ q[m - 1] = x /\ w[m] = y
        BY <1>1, <3>1, <3>2, <3>3, <3>4
      <4> QED
        BY <2>3, <4>1
    <3>5. CASE m = k
      <4>1. q[m] = x + y + a /\ q[m - 1] = x /\ w[m] = a /\ y = 0
        BY <1>0, <1>1, <3>1, <3>2, <3>3, <3>5
      <4> QED
        BY <2>3, <3>2, <4>1
    <3>6. CASE m > k
      <4>0. m >= k /\ m - 1 >= k /\ m # k
        BY <3>1, <3>6
      <4>1. q[m] = x + y + a /\ q[m - 1] = x + a /\ w[m] = y
        BY <1>1, <3>1, <3>2, <3>3, <4>0
      <4> QED
        BY <2>3, <3>2, <4>1
    <3> QED
      BY <3>4, <3>5, <3>6
  <2> QED
    BY <2>2, <2>3
<1>5. Accumulates(q, n, w)
  <2>1. q = [m \in 0 .. n |-> q[m]]
    BY <1>1
  <2> QED
    BY <1>4, <2>1 DEF Accumulates
<1>6. f = q
  BY <1>5, TotalsUnique
<1>7. n \in 0 .. n /\ n >= k
  OBVIOUS
<1> QED
  BY <1>0, <1>1, <1>6, <1>7

SubstKinds == {"literal", "notice", "block", "failure"}
RefTypes ==
  /\ spans \in Seq(Refs) /\ raw \in [Refs -> Nat] /\ subst \in [1 .. Len(spans) -> SubstKinds]
  /\ queue \subseteq Reads!Unique(spans) /\ site \in Nat /\ pass_chars \in Nat

(* What each place adds. *)
PlaceChars ==
  [k \in 1 .. Len(spans) |-> IF subst[k] \in {"block", "failure"} THEN Reads!BlockLen(spans[k]) ELSE 0]

LEMMA BlocksHaveLengths ==
  ASSUME RefTypes, NEW r \in Refs
  PROVE  Reads!BlockLen(r) \in Nat
<1>1. raw[r] \in Nat
  BY DEF RefTypes
<1> QED
  BY <1>1, ToolsAssumption DEF ToolsAssumption, Reads!BlockLen

(* The places' total is the one of their lengths. *)
LEMMA AddedIs ==
  RefTypes =>
    /\ PlaceChars \in [1 .. Len(spans) -> Nat] /\ Len(spans) \in Nat
    /\ Reads!Added \in [0 .. Len(spans) -> Nat] /\ Accumulates(Reads!Added, Len(spans), PlaceChars)
<1>1. SUFFICES ASSUME RefTypes
               PROVE  /\ PlaceChars \in [1 .. Len(spans) -> Nat] /\ Len(spans) \in Nat
                      /\ Reads!Added \in [0 .. Len(spans) -> Nat]
                      /\ Accumulates(Reads!Added, Len(spans), PlaceChars)
  OBVIOUS
<1>2. PICK n \in Nat : n = Len(spans)
  BY <1>1 DEF RefTypes
<1>3. \A k \in 1 .. n : spans[k] \in Refs /\ Reads!BlockLen(spans[k]) \in Nat
  BY <1>1, <1>2, BlocksHaveLengths DEF RefTypes
<1>4. PICK h : h = PlaceChars
  OBVIOUS
<1>5. h \in [1 .. n -> Nat]
  BY <1>2, <1>3, <1>4 DEF PlaceChars
<1> DEFINE Running(g) ==
      g = [m \in 0 .. n |->
             IF m = 0 THEN 0
             ELSE g[m - 1] + IF subst[m] \in {"block", "failure"} THEN Reads!BlockLen(spans[m]) ELSE 0]
<1>6. ASSUME NEW g
      PROVE  Accumulates(g, n, h) <=> Running(g)
  <2>1. ASSUME NEW m \in 0 .. n, m # 0
        PROVE  h[m] = IF subst[m] \in {"block", "failure"} THEN Reads!BlockLen(spans[m]) ELSE 0
    <3>1. m \in 1 .. Len(spans)
      BY <1>2, <2>1
    <3> QED
      BY <1>4, <3>1 DEF PlaceChars
  <2>2. [m \in 0 .. n |-> IF m = 0 THEN 0 ELSE g[m - 1] + h[m]]
          = [m \in 0 .. n |->
               IF m = 0 THEN 0
               ELSE g[m - 1] + IF subst[m] \in {"block", "failure"} THEN Reads!BlockLen(spans[m]) ELSE 0]
    BY <2>1
  <2> QED
    BY <2>2 DEF Accumulates
<1>7. Reads!Added = CHOOSE g : Accumulates(g, n, h)
  <2>1. Reads!Added = CHOOSE g : Running(g)
    BY <1>2 DEF Reads!Added
  <2>2. (CHOOSE g : Accumulates(g, n, h)) = CHOOSE g : Running(g)
    <3> HIDE DEF Running
    <3> QED
      BY <1>6
  <2> QED
    BY <2>1, <2>2
<1>8. PICK g \in [0 .. n -> Nat] : Accumulates(g, n, h)
  BY <1>5, TotalsExist
<1>9. Accumulates(Reads!Added, n, h)
  BY <1>7, <1>8
<1>10. Reads!Added = g
  BY <1>5, <1>8, <1>9, TotalsUnique
<1> QED
  BY <1>2, <1>4, <1>5, <1>8, <1>9, <1>10

LEMMA AddedIsNext ==
  RefTypes' =>
    /\ PlaceChars' \in [1 .. Len(spans') -> Nat] /\ Len(spans') \in Nat
    /\ Reads!Added' \in [0 .. Len(spans') -> Nat] /\ Accumulates(Reads!Added', Len(spans'), PlaceChars')
<1>1. (RefTypes =>
         /\ PlaceChars \in [1 .. Len(spans) -> Nat] /\ Len(spans) \in Nat
         /\ Reads!Added \in [0 .. Len(spans) -> Nat] /\ Accumulates(Reads!Added, Len(spans), PlaceChars))'
  BY AddedIs, PTL
<1> QED
  BY <1>1

(* Literals are settled in order.  A settled literal keeps what it was      *)
(* settled with; a place of one that is not is as it was, unless it belongs *)
(* to the literal in hand and was done.                                     *)
RefKnows ==
  /\ DOMAIN outcomes = {spans[k] : k \in Reads!Unique(spans) \ queue}
  /\ \A k \in 1 .. Len(spans) : spans[k] \in DOMAIN outcomes =>
       /\ subst[k] # "literal"
       /\ outcomes[spans[k]] = "expanded" => subst[k] = "block"
  /\ \A r \in DOMAIN outcomes : outcomes[r] = "budget-exceeded" =>
       \E k \in 1 .. Len(spans) : spans[k] = r /\ subst[k] = "notice"
  /\ queue # {} =>
       \A k \in 1 .. Len(spans) :
         /\ spans[k] = Reads!Current /\ k <= site =>
              subst[k] # "literal" /\ (raw[Reads!Current] # 0 => subst[k] # "failure")
         /\ spans[k] \notin DOMAIN outcomes /\ ~(spans[k] = Reads!Current /\ k <= site) => subst[k] = "literal"
  /\ queue = {} => \A k \in 1 .. Len(spans) : spans[k] \in DOMAIN outcomes

RefInv ==
  /\ RefTypes /\ RefKnows
  /\ Reads!Added[Len(spans)] = pass_chars /\ pass_chars <= MAX_PASS_CHARS

(* Every place names a literal that has a first place. *)
LEMMA FirstPlaces ==
  ASSUME NEW s \in Seq(Refs)
  PROVE  /\ \A k \in 1 .. Len(s) : \E q \in Reads!Unique(s) : s[q] = s[k]
         /\ \A p, q \in Reads!Unique(s) : s[p] = s[q] => p = q
         /\ Reads!Unique(s) \subseteq 1 .. Len(s)
<1>1. ASSUME NEW k \in 1 .. Len(s)
      PROVE  \E q \in Reads!Unique(s) : s[q] = s[k]
  <2>1. PICK Q : Q = {q \in 1 .. Len(s) : s[q] = s[k]}
    OBVIOUS
  <2>2. PICK q \in Q : \A p \in Q : q <= p
    <3>1. Q \subseteq Nat /\ k \in Q
      BY <2>1
    <3> QED
      BY <3>1, LeastOf
  <2>3. ASSUME NEW j \in 1 .. q - 1 PROVE s[j] # s[q]
    <3>1. j \in 1 .. Len(s) /\ ~(q <= j)
      BY <2>1, <2>2
    <3> QED
      BY <2>1, <2>2, <3>1
  <2> QED
    BY <2>1, <2>2, <2>3 DEF Reads!Unique
<1>2. ASSUME NEW p \in Reads!Unique(s), NEW q \in Reads!Unique(s), s[p] = s[q]
      PROVE  p = q
  <2>1. p \in 1 .. Len(s) /\ q \in 1 .. Len(s)
    BY DEF Reads!Unique
  <2>2. ~(p < q)
    <3>1. SUFFICES ASSUME p < q PROVE FALSE
      OBVIOUS
    <3>2. p \in 1 .. q - 1
      BY <2>1, <3>1
    <3> QED
      BY <1>2, <3>2 DEF Reads!Unique
  <2>3. ~(q < p)
    <3>1. SUFFICES ASSUME q < p PROVE FALSE
      OBVIOUS
    <3>2. q \in 1 .. p - 1
      BY <2>1, <3>1
    <3> QED
      BY <1>2, <3>2 DEF Reads!Unique
  <2> QED
    BY <2>1, <2>2, <2>3
<1> QED
  BY <1>1, <1>2 DEF Reads!Unique

LEMMA RefsHold ==
  ASSUME RefInv
  PROVE  Reads!ExpansionAccounted
<1>1. Reads!ToSet(spans) = {spans[k] : k \in 1 .. Len(spans)}
  BY DEF RefInv, RefTypes, Reads!ToSet
<1>2. ASSUME queue = {}
      PROVE  DOMAIN outcomes = Reads!ToSet(spans)
  <2>1. DOMAIN outcomes = {spans[k] : k \in Reads!Unique(spans)}
    BY <1>2 DEF RefInv, RefKnows
  <2>2. /\ \A k \in 1 .. Len(spans) : \E q \in Reads!Unique(spans) : spans[q] = spans[k]
        /\ Reads!Unique(spans) \subseteq 1 .. Len(spans)
    BY FirstPlaces DEF RefInv, RefTypes
  <2> QED
    BY <1>1, <2>1, <2>2
<1>3. ASSUME queue = {}
      PROVE  /\ \A k \in 1 .. Len(spans) :
                  subst[k] # "literal" /\ (outcomes[spans[k]] = "expanded" => subst[k] = "block")
             /\ \A r \in Reads!ToSet(spans) : outcomes[r] = "budget-exceeded" =>
                  \E k \in 1 .. Len(spans) : spans[k] = r /\ subst[k] = "notice"
  BY <1>2, <1>3 DEF RefInv, RefKnows
<1> QED
  BY <1>2, <1>3 DEF RefInv, Reads!ExpansionAccounted

(* The literal in hand is the one of the least place in the queue, and has  *)
(* no outcome yet.                                                          *)
LEMMA InHand ==
  ASSUME RefTypes, RefKnows, queue # {}
  PROVE  /\ Reads!Least(queue) \in queue /\ Reads!Least(queue) \in Reads!Unique(spans)
         /\ Reads!Least(queue) \in 1 .. Len(spans)
         /\ Reads!Current = spans[Reads!Least(queue)] /\ Reads!Current \in Refs
         /\ Reads!Current \notin DOMAIN outcomes
<1>1. Reads!Unique(spans) \subseteq 1 .. Len(spans)
  BY FirstPlaces DEF RefTypes
<1>2. queue \subseteq Nat
  BY <1>1 DEF RefTypes
<1>3. PICK m \in queue : \A n \in queue : m <= n
  BY <1>2, LeastOf
<1>4. Reads!Least(queue) \in queue
  BY <1>3 DEF Reads!Least
<1>5. Reads!Current = spans[Reads!Least(queue)]
  BY DEF Reads!Current
<1>6. Reads!Least(queue) \in Reads!Unique(spans) /\ Reads!Least(queue) \in 1 .. Len(spans)
  BY <1>1, <1>4 DEF RefTypes
<1>7. Reads!Current \in Refs
  BY <1>5, <1>6 DEF RefTypes
<1>8. ASSUME NEW k \in Reads!Unique(spans) \ queue
      PROVE  spans[k] # Reads!Current
  BY <1>4, <1>5, <1>6, FirstPlaces DEF RefTypes
<1> QED
  BY <1>4, <1>5, <1>6, <1>7, <1>8 DEF RefKnows

LEMMA RefsInitially ==
  ASSUME Reads!RefInit
  PROVE  RefInv
<1>1. PICK n \in 0 .. MaxSpans : spans \in [1 .. n -> Refs]
  BY DEF Reads!RefInit, Reads!Payloads
<1>2. n \in Nat
  BY <1>1, ToolsAssumption DEF ToolsAssumption
<1>3. spans \in Seq(Refs) /\ Len(spans) = n
  BY <1>1, <1>2
<1>4. raw \in [Refs -> Nat]
  <2>1. Reads!BlockChars \subseteq Nat
    BY ToolsAssumption DEF ToolsAssumption, Reads!BlockChars
  <2> QED
    BY <2>1 DEF Reads!RefInit
<1>5. \A k \in 1 .. n : subst[k] = "literal"
  BY <1>3 DEF Reads!RefInit
<1>6. RefTypes
  BY <1>3, <1>4 DEF Reads!RefInit, RefTypes, SubstKinds
<1>7. queue = Reads!Unique(spans) /\ site = 0 /\ DOMAIN outcomes = {} /\ pass_chars = 0
  BY DEF Reads!RefInit
<1>8. RefKnows
  <2>1. {spans[k] : k \in Reads!Unique(spans) \ queue} = {}
    BY <1>7
  <2>2. \A k \in 1 .. Len(spans) : ~(k <= site)
    BY <1>2, <1>3, <1>7
  <2>3. queue = {} => \A k \in 1 .. Len(spans) : FALSE
    BY <1>3, <1>7, FirstPlaces
  <2> QED
    BY <1>3, <1>5, <1>7, <2>1, <2>2, <2>3 DEF RefKnows
<1>9. Reads!Added[Len(spans)] = 0
  <2>1. PICK h \in [1 .. n -> Nat] : h = PlaceChars
    BY <1>3, <1>6, AddedIs
  <2>2. PICK g : g = Reads!Added /\ Accumulates(g, n, h)
    BY <1>3, <1>6, <2>1, AddedIs
  <2>3. PICK z : z = [m \in 0 .. n |-> 0]
    OBVIOUS
  <2>4. \A m \in 1 .. n : h[m] = 0
    BY <1>3, <1>5, <2>1 DEF PlaceChars
  <2>5. ASSUME NEW m \in 0 .. n
        PROVE  0 = IF m = 0 THEN 0 ELSE z[m - 1] + h[m]
    <3>1. CASE m # 0
      <4>1. m - 1 \in 0 .. n /\ m \in 1 .. n
        BY <1>2, <3>1
      <4> QED
        BY <2>3, <2>4, <4>1
    <3> QED
      BY <3>1
  <2>6. Accumulates(z, n, h)
    BY <2>3, <2>5 DEF Accumulates
  <2>7. g = z
    BY <1>2, <2>2, <2>6, TotalsUnique
  <2>8. n \in 0 .. n
    BY <1>2
  <2> QED
    BY <1>3, <2>2, <2>3, <2>7, <2>8
<1>10. MAX_PASS_CHARS \in Nat
  BY ToolsAssumption DEF ToolsAssumption
<1> QED
  BY <1>6, <1>7, <1>8, <1>9, <1>10 DEF RefInv

(* Where no place begins or ceases to hold a block, the total stays. *)
LEMMA AddedStays ==
  ASSUME RefTypes, RefTypes', spans' = spans, raw' = raw,
         \A k \in 1 .. Len(spans) : subst'[k] \in {"block", "failure"} <=> subst[k] \in {"block", "failure"}
  PROVE  Reads!Added'[Len(spans')] = Reads!Added[Len(spans)]
<1>1. PlaceChars' = PlaceChars
  <2>1. \A r : Reads!BlockLen(r)' = Reads!BlockLen(r)
    BY DEF Reads!BlockLen
  <2>2. ASSUME NEW k \in 1 .. Len(spans)
        PROVE  PlaceChars'[k] = PlaceChars[k]
    BY <2>1 DEF PlaceChars, Reads!BlockLen
  <2>3. PlaceChars = [k \in 1 .. Len(spans) |-> PlaceChars[k]] /\ PlaceChars' = [k \in 1 .. Len(spans) |-> PlaceChars'[k]]
    BY DEF PlaceChars
  <2> QED
    BY <2>2, <2>3
<1>2. PICK n \in Nat : n = Len(spans)
  BY DEF RefTypes
<1>3. PICK h \in [1 .. n -> Nat] : h = PlaceChars
  BY <1>2, AddedIs
<1>4. PICK g : g = Reads!Added /\ Accumulates(g, n, h)
  BY <1>2, <1>3, AddedIs
<1>5. PICK f : f = Reads!Added' /\ Accumulates(f, n, h)
  BY <1>1, <1>2, <1>3, AddedIsNext
<1>6. f = g
  BY <1>4, <1>5, TotalsUnique
<1> QED
  BY <1>2, <1>4, <1>5, <1>6

(* A literal is settled once all its places are done. *)
LEMMA LiteralSettled ==
  ASSUME RefInv, queue # {}, NEW outcome, Reads!Settle(outcome), spans' = spans, raw' = raw, site' = 0,
         pass_chars' = pass_chars, subst' \in [1 .. Len(spans) -> SubstKinds],
         \A k \in 1 .. Len(spans) :
           IF spans[k] = Reads!Current
           THEN subst'[k] # "literal" /\ (outcome = "expanded" => subst'[k] = "block")
           ELSE subst'[k] = subst[k],
         outcome = "budget-exceeded" =>
           \E k \in 1 .. Len(spans) : spans[k] = Reads!Current /\ subst'[k] = "notice"
  PROVE  RefTypes' /\ RefKnows'
<1>1. PICK c : c = Reads!Current
  OBVIOUS
<1>2. PICK q : q = Reads!Least(queue)
  OBVIOUS
<1>3. q \in queue /\ q \in Reads!Unique(spans) /\ c = spans[q] /\ c \notin DOMAIN outcomes
  BY <1>1, <1>2, InHand DEF RefInv
<1>4. queue' = queue \ {q}
  BY <1>2 DEF Reads!Settle
<1>5. /\ DOMAIN outcomes' = DOMAIN outcomes \cup {c}
      /\ outcomes'[c] = outcome /\ \A r \in DOMAIN outcomes : r # c => outcomes'[r] = outcomes[r]
  BY <1>1 DEF Reads!Settle
<1>6. RefTypes'
  BY <1>4 DEF RefInv, RefTypes
<1>7. DOMAIN outcomes' = {spans[k] : k \in Reads!Unique(spans) \ queue'}
  <2>1. DOMAIN outcomes = {spans[k] : k \in Reads!Unique(spans) \ queue}
    BY DEF RefInv, RefKnows
  <2> QED
    BY <1>3, <1>4, <1>5, <2>1
<1>8. ASSUME NEW k \in 1 .. Len(spans), spans[k] \in DOMAIN outcomes'
      PROVE  subst'[k] # "literal" /\ (outcomes'[spans[k]] = "expanded" => subst'[k] = "block")
  <2>1. CASE spans[k] = c
    BY <1>1, <1>5, <2>1
  <2>2. CASE spans[k] # c
    <3>1. spans[k] \in DOMAIN outcomes /\ outcomes'[spans[k]] = outcomes[spans[k]] /\ subst'[k] = subst[k]
      BY <1>1, <1>5, <1>8, <2>2
    <3> QED
      BY <3>1 DEF RefInv, RefKnows
  <2> QED
    BY <2>1, <2>2
<1>9. ASSUME NEW r \in DOMAIN outcomes', outcomes'[r] = "budget-exceeded"
      PROVE  \E k \in 1 .. Len(spans) : spans[k] = r /\ subst'[k] = "notice"
  <2>1. CASE r = c
    BY <1>1, <1>5, <1>9, <2>1
  <2>2. CASE r # c
    <3>1. r \in DOMAIN outcomes /\ outcomes[r] = "budget-exceeded"
      BY <1>5, <1>9, <2>2
    <3>2. PICK k \in 1 .. Len(spans) : spans[k] = r /\ subst[k] = "notice"
      BY <3>1 DEF RefInv, RefKnows
    <3>3. subst'[k] = subst[k]
      BY <1>1, <2>2, <3>2
    <3> QED
      BY <3>2, <3>3
  <2> QED
    BY <2>1, <2>2
<1>10. ASSUME NEW k \in 1 .. Len(spans)
       PROVE  /\ ~(k <= site')
              /\ spans[k] \notin DOMAIN outcomes' => subst'[k] = "literal"
  <2>1. k \in Nat /\ k >= 1
    BY DEF RefInv, RefTypes
  <2>2. ASSUME spans[k] \notin DOMAIN outcomes'
        PROVE  subst'[k] = "literal"
    <3>1. spans[k] \notin DOMAIN outcomes /\ spans[k] # c /\ subst'[k] = subst[k]
      BY <1>1, <1>5, <2>2
    <3> QED
      BY <1>1, <3>1 DEF RefInv, RefKnows
  <2> QED
    BY <2>1, <2>2
<1>11. ASSUME queue' = {}, NEW k \in 1 .. Len(spans)
       PROVE  spans[k] \in DOMAIN outcomes'
  BY <1>7, <1>11, FirstPlaces DEF RefInv, RefTypes
<1> QED
  BY <1>6, <1>7, <1>8, <1>9, <1>10, <1>11 DEF RefKnows

(* The next place of the literal in hand gets its block, or a notice. *)
LEMMA SiteFilled ==
  ASSUME RefInv, Reads!FillSite
  PROVE  RefInv'
<1>1. queue # {} /\ Reads!NextSite # {}
  BY DEF Reads!FillSite
<1>2. PICK c \in Refs : c = Reads!Current
  BY <1>1, InHand DEF RefInv
<1>3. c \notin DOMAIN outcomes
  BY <1>1, <1>2, InHand DEF RefInv
<1>4. PICK k : k = Reads!Least(Reads!NextSite)
  OBVIOUS
<1>5. /\ k \in 1 .. Len(spans) /\ k > site /\ spans[k] = c
      /\ \A j \in 1 .. Len(spans) : j > site /\ spans[j] = c => k <= j
  <2>1. Reads!NextSite = {j \in 1 .. Len(spans) : j > site /\ spans[j] = c}
    BY <1>2 DEF Reads!NextSite
  <2>2. Reads!NextSite \subseteq Nat
    BY <2>1
  <2>3. PICK m \in Reads!NextSite : \A n \in Reads!NextSite : m <= n
    BY <1>1, <2>2, LeastOf
  <2>4. k \in Reads!NextSite /\ \A n \in Reads!NextSite : k <= n
    BY <1>4, <2>3 DEF Reads!Least
  <2> QED
    BY <2>1, <2>4
<1>6. /\ site' = k /\ spans' = spans /\ raw' = raw /\ queue' = queue /\ outcomes' = outcomes
  BY <1>4 DEF Reads!FillSite
<1>7. PICK what \in {"notice", "block", "failure"} :
        /\ subst' = [subst EXCEPT ![k] = what] /\ (raw[c] # 0 => what # "failure")
        /\ IF Reads!Fits(k) THEN what # "notice" /\ pass_chars' = pass_chars + Reads!BlockLen(c)
           ELSE what = "notice" /\ pass_chars' = pass_chars
  <2>1. CASE Reads!Fits(k)
    <3>1. /\ subst' = [subst EXCEPT ![k] = IF raw[c] = 0 THEN "failure" ELSE "block"]
          /\ pass_chars' = pass_chars + Reads!BlockLen(c)
      BY <1>2, <1>4, <2>1 DEF Reads!FillSite, Reads!Put
    <3>2. PICK w : w = IF raw[c] = 0 THEN "failure" ELSE "block"
      OBVIOUS
    <3>3. /\ w \in {"notice", "block", "failure"} /\ w # "notice" /\ (raw[c] # 0 => w # "failure")
          /\ subst' = [subst EXCEPT ![k] = w]
      BY <3>1, <3>2
    <3> QED
      BY <2>1, <3>1, <3>3
  <2>2. CASE ~Reads!Fits(k)
    <3>1. subst' = [subst EXCEPT ![k] = "notice"] /\ pass_chars' = pass_chars
      BY <1>4, <2>2 DEF Reads!FillSite, Reads!Put
    <3> QED
      BY <2>2, <3>1
  <2> QED
    BY <2>1, <2>2
<1>8. /\ subst' \in [1 .. Len(spans) -> SubstKinds] /\ subst'[k] = what
      /\ \A j \in 1 .. Len(spans) : j # k => subst'[j] = subst[j]
  BY <1>5, <1>7 DEF RefInv, RefTypes, SubstKinds
<1>9. PICK b \in Nat : b = Reads!BlockLen(c)
  BY BlocksHaveLengths DEF RefInv
<1>10. PICK p \in Nat : p = pass_chars
  BY DEF RefInv, RefTypes
<1>11. pass_chars' \in Nat
  BY <1>7, <1>9, <1>10
<1>12. RefTypes'
  <2>1. k \in Nat
    BY <1>5 DEF RefInv, RefTypes
  <2> QED
    BY <1>6, <1>8, <1>11, <2>1 DEF RefInv, RefTypes
<1>13. subst[k] = "literal"
  <2>1. k \in Nat /\ site \in Nat /\ ~(k <= site)
    BY <1>5 DEF RefInv, RefTypes
  <2> QED
    BY <1>1, <1>3, <1>5, <2>1 DEF RefInv, RefKnows
<1>14. RefKnows'
  <2>1. Reads!Current' = c
    BY <1>2, <1>6 DEF Reads!Current, Reads!Least
  <2>2. ASSUME NEW j \in 1 .. Len(spans), spans[j] \in DOMAIN outcomes
        PROVE  subst'[j] # "literal" /\ (outcomes[spans[j]] = "expanded" => subst'[j] = "block")
    BY <1>3, <1>5, <1>8, <2>2 DEF RefInv, RefKnows
  <2>3. ASSUME NEW r \in DOMAIN outcomes, outcomes[r] = "budget-exceeded"
        PROVE  \E j \in 1 .. Len(spans) : spans[j] = r /\ subst'[j] = "notice"
    <3>1. PICK j \in 1 .. Len(spans) : spans[j] = r /\ subst[j] = "notice"
      BY <2>3 DEF RefInv, RefKnows
    <3> QED
      BY <1>3, <1>5, <1>8, <3>1
  <2>4. ASSUME NEW j \in 1 .. Len(spans), spans[j] = c, j <= k
        PROVE  subst'[j] # "literal" /\ (raw[c] # 0 => subst'[j] # "failure")
    <3>1. CASE j = k
      BY <1>7, <1>8, <3>1
    <3>2. CASE j # k
      <4>1. k \in Nat /\ site \in Nat /\ j \in Nat
        BY <1>5 DEF RefInv, RefTypes
      <4>2. j <= site
        BY <1>5, <2>4, <3>2, <4>1
      <4> QED
        BY <1>1, <1>2, <1>8, <2>4, <3>2, <4>2 DEF RefInv, RefKnows
    <3> QED
      BY <3>1, <3>2
  <2>5. ASSUME NEW j \in 1 .. Len(spans), spans[j] \notin DOMAIN outcomes, ~(spans[j] = c /\ j <= k)
        PROVE  subst'[j] = "literal"
    <3>1. k \in Nat /\ site \in Nat /\ j \in Nat
      BY <1>5 DEF RefInv, RefTypes
    <3>2. ~(spans[j] = c /\ j <= site) /\ j # k
      BY <1>5, <2>5, <3>1
    <3> QED
      BY <1>1, <1>2, <1>8, <2>5, <3>2 DEF RefInv, RefKnows
  <2>6. DOMAIN outcomes' = {spans'[j] : j \in Reads!Unique(spans') \ queue'}
    BY <1>6 DEF RefInv, RefKnows
  <2> QED
    BY <1>1, <1>6, <2>1, <2>2, <2>3, <2>4, <2>5, <2>6 DEF RefKnows
<1>15. Reads!Added'[Len(spans')] = pass_chars' /\ pass_chars' <= MAX_PASS_CHARS
  <2>1. CASE ~Reads!Fits(k)
    <3>1. what = "notice" /\ pass_chars' = pass_chars
      BY <1>7, <2>1
    <3>2. \A j \in 1 .. Len(spans) : subst'[j] \in {"block", "failure"} <=> subst[j] \in {"block", "failure"}
      BY <1>8, <1>13, <3>1
    <3>3. Reads!Added'[Len(spans')] = Reads!Added[Len(spans)]
      BY <1>6, <1>12, <3>2, AddedStays DEF RefInv
    <3> QED
      BY <3>1, <3>3 DEF RefInv
  <2>2. CASE Reads!Fits(k)
    <3>1. what \in {"block", "failure"} /\ pass_chars' = p + b
      BY <1>7, <1>9, <1>10, <2>2
    <3>2. p + b <= MAX_PASS_CHARS
      BY <1>5, <1>9, <1>10, <2>2 DEF Reads!Fits
    <3>3. PICK n \in Nat : n = Len(spans)
      BY DEF RefInv, RefTypes
    <3>4. PICK h \in [1 .. n -> Nat] : h = PlaceChars
      BY <3>3, AddedIs DEF RefInv
    <3>5. PICK g \in [0 .. n -> Nat] : g = Reads!Added /\ Accumulates(g, n, h)
      BY <3>3, <3>4, AddedIs DEF RefInv
    <3>6. /\ PlaceChars' \in [1 .. n -> Nat] /\ k \in 1 .. n
          /\ h[k] = 0 /\ \A j \in 1 .. n : PlaceChars'[j] = IF j = k THEN b ELSE h[j]
      <4>1. \A j \in 1 .. n : Reads!BlockLen(spans[j])' = Reads!BlockLen(spans[j])
        BY <1>6 DEF Reads!BlockLen
      <4>2. PlaceChars' = [j \in 1 .. n |-> IF subst'[j] \in {"block", "failure"} THEN Reads!BlockLen(spans[j]) ELSE 0]
        BY <1>6, <3>3 DEF PlaceChars, Reads!BlockLen
      <4>3. h = [j \in 1 .. n |-> IF subst[j] \in {"block", "failure"} THEN Reads!BlockLen(spans[j]) ELSE 0]
        BY <3>3, <3>4 DEF PlaceChars
      <4>4. h[k] = 0
        BY <1>5, <1>13, <3>3, <4>3
      <4>5. ASSUME NEW j \in 1 .. n
            PROVE  PlaceChars'[j] = IF j = k THEN b ELSE h[j]
        <5>1. CASE j = k
          BY <1>5, <1>8, <1>9, <3>1, <4>2, <4>4, <5>1
        <5>2. CASE j # k
          BY <1>8, <3>3, <4>2, <4>3, <5>2
        <5> QED
          BY <5>1, <5>2
      <4>6. PlaceChars' \in [1 .. n -> Nat]
        BY <1>6, <1>12, <3>3, AddedIsNext
      <4> QED
        BY <1>5, <3>3, <4>4, <4>5, <4>6
    <3>w. PICK w \in [1 .. n -> Nat] :
            w = PlaceChars' /\ w[k] = b /\ OneNewTerm(w, h, k, n)
      BY <3>6 DEF OneNewTerm
    <3>7. PICK f : f = Reads!Added' /\ Accumulates(f, n, w)
      BY <1>6, <1>12, <3>3, <3>w, AddedIsNext
    <3>8. k \in 1 .. n
      BY <1>5, <3>3
    <3>t. OneNewTerm(w, h, k, n) /\ Totals(f, n, w) /\ Totals(g, n, h)
      BY <1>6, <1>12, <3>3, <3>5, <3>w, <3>7, AddedIsNext DEF Totals
    <3>9. f[n] = g[n] + w[k]
      BY <3>t, TotalsGrow
    <3>10. g[n] = p
      BY <1>10, <3>3, <3>5 DEF RefInv
    <3> QED
      BY <1>6, <3>w, <3>1, <3>2, <3>3, <3>7, <3>9, <3>10
  <2> QED
    BY <2>1, <2>2
<1> QED
  BY <1>12, <1>14, <1>15 DEF RefInv

LEMMA RefStep ==
  ASSUME RefInv, [Reads!RefNext]_Reads!refVars
  PROVE  RefInv'
<1>1. CASE UNCHANGED <<spans, raw, queue, site, subst, pass_chars, outcomes>>
  <2>1. RefTypes'
    BY <1>1 DEF RefInv, RefTypes
  <2>2. RefKnows'
    BY <1>1 DEF RefInv, RefKnows, Reads!Current, Reads!Least
  <2>3. Reads!Added'[Len(spans')] = Reads!Added[Len(spans)]
    BY <1>1, <2>1, AddedStays DEF RefInv
  <2> QED
    BY <1>1, <2>1, <2>2, <2>3 DEF RefInv
<1>2. CASE Reads!SkipReference
  <2>1. /\ queue # {} /\ site = 0 /\ Reads!Settle("budget-exceeded") /\ spans' = spans /\ raw' = raw
        /\ site' = 0 /\ pass_chars' = pass_chars
        /\ subst' = [k \in 1 .. Len(spans) |-> IF spans[k] = Reads!Current THEN "notice" ELSE subst[k]]
    BY <1>2 DEF Reads!SkipReference
  <2>2. subst' \in [1 .. Len(spans) -> SubstKinds]
    BY <2>1 DEF RefInv, RefTypes, SubstKinds
  <2>3. \A k \in 1 .. Len(spans) :
          IF spans[k] = Reads!Current THEN subst'[k] = "notice" ELSE subst'[k] = subst[k]
    BY <2>1
  <2>4. \E k \in 1 .. Len(spans) : spans[k] = Reads!Current
    BY <2>1, InHand DEF RefInv
  <2>5. RefTypes' /\ RefKnows'
    <3>1. PICK o : o = "budget-exceeded"
      OBVIOUS
    <3>2. /\ o # "expanded" /\ Reads!Settle(o)
          /\ \E k \in 1 .. Len(spans) : spans[k] = Reads!Current /\ subst'[k] = "notice"
      BY <2>1, <2>3, <2>4, <3>1
    <3> QED
      BY <2>1, <2>2, <2>3, <3>2, LiteralSettled
  <2>6. ASSUME NEW k \in 1 .. Len(spans)
        PROVE  subst'[k] \in {"block", "failure"} <=> subst[k] \in {"block", "failure"}
    <3>1. CASE spans[k] = Reads!Current
      <4>1. ~(k <= site)
        BY <2>1 DEF RefInv, RefTypes
      <4>2. spans[k] \notin DOMAIN outcomes
        BY <2>1, <3>1, InHand DEF RefInv
      <4>3. subst[k] = "literal"
        BY <2>1, <4>1, <4>2 DEF RefInv, RefKnows
      <4> QED
        BY <2>3, <3>1, <4>3
    <3>2. CASE spans[k] # Reads!Current
      BY <2>3, <3>2
    <3> QED
      BY <3>1, <3>2
  <2>7. Reads!Added'[Len(spans')] = Reads!Added[Len(spans)]
    BY <2>1, <2>5, <2>6, AddedStays DEF RefInv
  <2> QED
    BY <2>1, <2>5, <2>7 DEF RefInv
<1>3. CASE Reads!Fetch
  BY <1>1, <1>3 DEF Reads!Fetch
<1>4. CASE Reads!FillSite
  BY <1>4, SiteFilled
<1>5. CASE Reads!SettleReference
  <2>1. PICK o : o = IF raw[Reads!Current] = 0 THEN "failed"
                     ELSE IF \E k \in 1 .. Len(spans) : spans[k] = Reads!Current /\ subst[k] = "notice"
                          THEN "budget-exceeded" ELSE "expanded"
    OBVIOUS
  <2>2. /\ queue # {} /\ Reads!NextSite = {} /\ Reads!Settle(o) /\ spans' = spans /\ raw' = raw
        /\ site' = 0 /\ pass_chars' = pass_chars /\ subst' = subst
    BY <1>5, <2>1 DEF Reads!SettleReference
  <2>3. subst' \in [1 .. Len(spans) -> SubstKinds]
    BY <2>2 DEF RefInv, RefTypes
  <2>4. ASSUME NEW k \in 1 .. Len(spans), spans[k] = Reads!Current
        PROVE  subst[k] # "literal" /\ (o = "expanded" => subst[k] = "block")
    <3>1. k \in Nat /\ site \in Nat
      BY DEF RefInv, RefTypes
    <3>2. k <= site
      BY <2>2, <2>4, <3>1 DEF Reads!NextSite
    <3>3. subst[k] # "literal" /\ (raw[Reads!Current] # 0 => subst[k] # "failure")
      BY <2>2, <2>4, <3>2 DEF RefInv, RefKnows
    <3>4. subst[k] \in SubstKinds
      BY DEF RefInv, RefTypes
    <3>5. o = "expanded" => raw[Reads!Current] # 0 /\ subst[k] # "notice"
      BY <2>1, <2>4
    <3> QED
      BY <3>3, <3>4, <3>5 DEF SubstKinds
  <2>5. o = "budget-exceeded" => \E k \in 1 .. Len(spans) : spans[k] = Reads!Current /\ subst[k] = "notice"
    BY <2>1
  <2>6. RefTypes' /\ RefKnows'
    BY <2>2, <2>3, <2>4, <2>5, LiteralSettled
  <2>7. Reads!Added'[Len(spans')] = Reads!Added[Len(spans)]
    BY <2>2, <2>6, AddedStays DEF RefInv
  <2> QED
    BY <2>2, <2>6, <2>7 DEF RefInv
<1>6. CASE UNCHANGED Reads!refVars
  BY <1>1, <1>6 DEF Reads!refVars
<1> QED
  BY <1>2, <1>3, <1>4, <1>5, <1>6 DEF Reads!RefNext

-----------------------------------------------------------------------------
(***************************************************************************)
(* The walk over the blockers.                                             *)
(***************************************************************************)

LEMMA ReadsCount == \A S : Reads!Cardinality(S) = Cardinality(S)
BY DEF Reads!Cardinality, Cardinality

Descends(s, S) ==
  /\ s \in [1 .. Cardinality(S) -> S]
  /\ \A j, k \in 1 .. Cardinality(S) : j < k => s[j] > s[k]

(* A finite set of natural numbers can be listed from the largest to the    *)
(* least.                                                                   *)
LEMMA DescendingList ==
  ASSUME NEW S, IsFiniteSet(S), S \subseteq Nat
  PROVE  \E s : Descends(s, S)
<1> DEFINE N == {Cardinality(T) : T \in {U \in SUBSET S : ~\E s : Descends(s, U)}}
<1>1. \A T \in SUBSET S : IsFiniteSet(T) /\ Cardinality(T) \in Nat
  BY FS_Subset, FS_CardinalityType
<1>2. SUFFICES ASSUME N # {} PROVE FALSE
  OBVIOUS
<1>3. PICK n \in N : \A m \in N : n <= m
  <2>1. N \subseteq Nat
    BY <1>1
  <2> HIDE DEF N
  <2> QED
    BY <1>2, <2>1, LeastOf
<1>4. PICK T \in SUBSET S : n = Cardinality(T) /\ ~\E s : Descends(s, T)
  BY <1>3
<1>5. n \in Nat
  BY <1>1, <1>4
<1>6. T # {}
  <2>1. SUFFICES ASSUME T = {} PROVE FALSE
    OBVIOUS
  <2>2. Cardinality(T) = 0
    BY <2>1, FS_EmptySet
  <2>3. <<>> \in [1 .. Cardinality(T) -> T] /\ \A j, k \in 1 .. Cardinality(T) : FALSE
    BY <2>1, <2>2
  <2> QED
    BY <1>4, <2>3 DEF Descends
<1>7. PICK a \in T : \A b \in T : a <= b
  BY <1>6, LeastOf
<1>8. PICK U \in SUBSET S : U = T \ {a}
  OBVIOUS
<1>9. Cardinality(U) = n - 1 /\ n # 0
  <2>1. Cardinality(U) = n - 1
    BY <1>1, <1>4, <1>8, FS_RemoveElement
  <2>2. n # 0
    BY <1>1, <1>4, <1>6, FS_EmptySet
  <2> QED
    BY <2>1, <2>2
<1>10. PICK s : Descends(s, U)
  <2>1. Cardinality(U) \notin N
    <3>1. ~(n <= Cardinality(U))
      BY <1>5, <1>9
    <3> HIDE DEF N
    <3> QED
      BY <1>3, <3>1
  <2> QED
    BY <2>1
<1>11. PICK r : r = [k \in 1 .. n |-> IF k = n THEN a ELSE s[k]]
  OBVIOUS
<1>12. \A k \in 1 .. n : k # n => k \in 1 .. Cardinality(U)
  BY <1>5, <1>9
<1>13. s \in [1 .. Cardinality(U) -> U] /\ \A j, k \in 1 .. Cardinality(U) : j < k => s[j] > s[k]
  BY <1>10 DEF Descends
<1>14. r \in [1 .. n -> T]
  BY <1>8, <1>11, <1>12, <1>13
<1>15. ASSUME NEW j \in 1 .. n, NEW k \in 1 .. n, j < k
       PROVE  r[j] > r[k]
  <2>1. j # n /\ r[j] = s[j] /\ s[j] \in U /\ s[j] \in Nat /\ a \in Nat
    <3>1. j # n
      BY <1>5, <1>15
    <3>2. r[j] = s[j] /\ s[j] \in U
      BY <1>11, <1>12, <1>13, <3>1
    <3>3. \A b \in S : b \in Nat
      OBVIOUS
    <3> QED
      BY <1>8, <3>1, <3>2, <3>3
  <2>2. CASE k = n
    <3>1. r[k] = a /\ s[j] # a /\ a <= s[j]
      BY <1>7, <1>8, <1>11, <2>1, <2>2
    <3> QED
      BY <2>1, <3>1
  <2>3. CASE k # n
    <3>1. r[k] = s[k] /\ j \in 1 .. Cardinality(U) /\ k \in 1 .. Cardinality(U)
      BY <1>11, <1>12, <2>1, <2>3
    <3> QED
      BY <1>13, <1>15, <2>1, <3>1
  <2> QED
    BY <2>2, <2>3
<1>16. Descends(r, T)
  BY <1>4, <1>14, <1>15 DEF Descends
<1> QED
  BY <1>4, <1>16

LEMMA SortedLists ==
  ASSUME NEW S, IsFiniteSet(S), S \subseteq Nat
  PROVE  /\ Cardinality(S) \in Nat /\ Reads!Sorted(S) \in [1 .. Cardinality(S) -> S]
         /\ \A b \in S : \E k \in 1 .. Cardinality(S) : Reads!Sorted(S)[k] = b
         /\ \A j, k \in 1 .. Cardinality(S) : j < k => Reads!Sorted(S)[j] > Reads!Sorted(S)[k]
<1>1. PICK n \in Nat : n = Cardinality(S) /\ n = Reads!Cardinality(S)
  BY FS_CardinalityType, ReadsCount
<1>2. PICK s : s = Reads!Sorted(S)
  OBVIOUS
<1>3. s \in [1 .. n -> S] /\ \A j, k \in 1 .. n : j < k => s[j] > s[k]
  <2>1. \E r \in [1 .. n -> S] : \A j, k \in 1 .. n : j < k => r[j] > r[k]
    BY <1>1, DescendingList DEF Descends
  <2>2. s = CHOOSE r \in [1 .. n -> S] : \A j, k \in 1 .. n : j < k => r[j] > r[k]
    BY <1>1, <1>2 DEF Reads!Sorted
  <2> QED
    BY <2>1, <2>2
<1>4. s \in Injection(1 .. n, S)
  <2>1. ASSUME NEW j \in 1 .. n, NEW k \in 1 .. n, s[j] = s[k]
        PROVE  j = k
    <3>0. s[j] \in S /\ s[k] \in S /\ \A b \in S : b \in Nat
      BY <1>3
    <3>1. s[j] \in Nat /\ s[k] \in Nat
      BY <3>0
    <3>4. j \in Nat /\ k \in Nat
      BY <1>1
    <3>2. ~(j < k) /\ ~(k < j)
      BY <1>3, <2>1, <3>1
    <3> QED
      BY <3>2, <3>4
  <2> QED
    BY <1>3, <2>1 DEF Injection, IsInjective
<1>5. Cardinality(1 .. n) = n
  BY FS_Interval
<1>6. s \in Surjection(1 .. n, S)
  BY <1>1, <1>4, <1>5, FS_Injection
<1> QED
  BY <1>1, <1>2, <1>3, <1>6 DEF Surjection

(* The frames of an item are those of its blockers. *)
LEMMA FramesAre ==
  ASSUME NEW item, NEW d \in Nat
  PROVE  /\ Reads!Frames(item, d) \in Seq(BoardItems \X Nat)
         /\ \A p \in 1 .. Len(Reads!Frames(item, d)) :
              \E b \in Reads!Blockers(walkEdges, item) : Reads!Frames(item, d)[p] = <<b, d>>
         /\ \A b \in Reads!Blockers(walkEdges, item) :
              \E p \in 1 .. Len(Reads!Frames(item, d)) : Reads!Frames(item, d)[p] = <<b, d>>
<1>1. PICK B : B = Reads!Blockers(walkEdges, item)
  OBVIOUS
<1>2. B \subseteq BoardItems
  BY <1>1 DEF Reads!Blockers
<1>3. IsFiniteSet(B) /\ B \subseteq Nat
  BY <1>2, ToolsAssumption, FS_Subset DEF ToolsAssumption
<1>4. PICK s : s = Reads!Sorted(B)
  OBVIOUS
<1>5. PICK n \in Nat : n = Cardinality(B)
  BY <1>3, SortedLists
<1>6. s \in [1 .. n -> B] /\ \A b \in B : \E k \in 1 .. n : s[k] = b
  BY <1>3, <1>4, <1>5, SortedLists
<1>7. Len(s) = n
  <2>1. s \in Seq(B)
    BY <1>6
  <2> QED
    BY <1>6, <2>1
<1>8. PICK fr : fr = [k \in 1 .. n |-> <<s[k], d>>]
  OBVIOUS
<1>9. Reads!Frames(item, d) = fr
  BY <1>1, <1>4, <1>7, <1>8 DEF Reads!Frames, Reads!DirectBlockers
<1>10. fr \in Seq(BoardItems \X Nat) /\ Len(fr) = n
  <2>1. fr \in [1 .. n -> BoardItems \X Nat]
    BY <1>2, <1>6, <1>8
  <2> QED
    BY <2>1
<1> QED
  BY <1>1, <1>6, <1>8, <1>9, <1>10

(* The stack nests as the path does: a frame of depth k lies above the end  *)
(* of the k-th item of the path, and below that of the next.                *)
Levels(lev, st, n) ==
  /\ \A p \in 1 .. Len(st) :
       IF st[p][2] = Reads!EXIT THEN \E k \in 2 .. n : lev[p] = 2 * k - 1
       ELSE st[p][2] \in 1 .. n /\ lev[p] = 2 * st[p][2]
  /\ \A p, q \in 1 .. Len(st) : p < q => lev[q] <= lev[p] /\ (st[p][2] = Reads!EXIT => lev[q] < lev[p])
  /\ \A k \in 2 .. n : \E p \in 1 .. Len(st) : st[p][2] = Reads!EXIT /\ lev[p] = 2 * k - 1
Nested(st, n) == \E lev \in [1 .. Len(st) -> Nat] : Levels(lev, st, n)

LEMMA TailIs ==
  ASSUME NEW A, NEW st \in Seq(A), st # <<>>
  PROVE  /\ Tail(st) \in Seq(A) /\ Len(st) \in Nat /\ Len(st) >= 1 /\ Len(Tail(st)) = Len(st) - 1
         /\ \A p \in 1 .. Len(Tail(st)) : p + 1 \in 1 .. Len(st) /\ Tail(st)[p] = st[p + 1]
         /\ \A q \in 1 .. Len(st) : q # 1 => q - 1 \in 1 .. Len(Tail(st)) /\ Tail(st)[q - 1] = st[q]
<1>1. Len(st) \in Nat /\ Len(st) >= 1 /\ Tail(st) \in Seq(A) /\ Len(Tail(st)) = Len(st) - 1
  OBVIOUS
<1>2. \A p \in 1 .. Len(Tail(st)) : p + 1 \in 1 .. Len(st) /\ Tail(st)[p] = st[p + 1]
  BY <1>1
<1>3. ASSUME NEW q \in 1 .. Len(st), q # 1
      PROVE  q - 1 \in 1 .. Len(Tail(st)) /\ Tail(st)[q - 1] = st[q]
  <2>1. q - 1 \in 1 .. Len(Tail(st)) /\ (q - 1) + 1 = q
    BY <1>1, <1>3
  <2> QED
    BY <1>2, <2>1
<1> QED
  BY <1>1, <1>2, <1>3

LEMMA FrameOnTop ==
  ASSUME NEW n \in Nat, n >= 1, NEW st \in Seq(BoardItems \X Nat), st # <<>>, Nested(st, n),
         st[1][2] # Reads!EXIT
  PROVE  st[1][2] = n /\ Nested(Tail(st), n)
<1>1. PICK lev \in [1 .. Len(st) -> Nat] : Levels(lev, st, n)
  BY DEF Nested
<1>2. PICK t : t = Tail(st)
  OBVIOUS
<1>3. /\ Len(st) \in Nat /\ Len(st) >= 1 /\ Len(t) \in Nat /\ Len(t) = Len(st) - 1
      /\ \A p \in 1 .. Len(t) : p + 1 \in 1 .. Len(st) /\ t[p] = st[p + 1]
      /\ \A q \in 1 .. Len(st) : q # 1 => q - 1 \in 1 .. Len(t) /\ t[q - 1] = st[q]
  BY <1>2, TailIs
<1>4. 1 \in 1 .. Len(st)
  BY <1>3
<1>5. PICK d \in Nat : d = st[1][2] /\ d >= 1 /\ d <= n /\ lev[1] = 2 * d
  BY <1>1, <1>4 DEF Levels
<1>6. d = n
  <2>1. CASE n = 1
    BY <1>5, <2>1
  <2>2. CASE n # 1
    <3>1. n \in 2 .. n
      BY <2>2
    <3>2. PICK p \in 1 .. Len(st) : st[p][2] = Reads!EXIT /\ lev[p] = 2 * n - 1
      BY <1>1, <3>1 DEF Levels
    <3>3. 1 < p
      BY <1>3, <3>2
    <3>4. lev[p] <= lev[1]
      BY <1>1, <1>4, <3>3 DEF Levels
    <3> QED
      BY <1>5, <3>2, <3>4
  <2> QED
    BY <2>1, <2>2
<1>7. PICK l : l = [p \in 1 .. Len(t) |-> lev[p + 1]]
  OBVIOUS
<1>8. l \in [1 .. Len(t) -> Nat] /\ \A p \in 1 .. Len(t) : l[p] = lev[p + 1]
  BY <1>3, <1>7
<1>9. Levels(l, t, n)
  <2>1. ASSUME NEW p \in 1 .. Len(t)
        PROVE  IF t[p][2] = Reads!EXIT THEN \E k \in 2 .. n : l[p] = 2 * k - 1
               ELSE t[p][2] \in 1 .. n /\ l[p] = 2 * t[p][2]
    <3>1. p + 1 \in 1 .. Len(st) /\ t[p] = st[p + 1] /\ l[p] = lev[p + 1]
      BY <1>3, <1>8
    <3>2. IF st[p + 1][2] = Reads!EXIT THEN \E k \in 2 .. n : lev[p + 1] = 2 * k - 1
          ELSE st[p + 1][2] \in 1 .. n /\ lev[p + 1] = 2 * st[p + 1][2]
      BY <1>1, <3>1 DEF Levels
    <3> QED
      BY <3>1, <3>2
  <2>2. ASSUME NEW p \in 1 .. Len(t), NEW q \in 1 .. Len(t), p < q
        PROVE  l[q] <= l[p] /\ (t[p][2] = Reads!EXIT => l[q] < l[p])
    <3>1. p + 1 \in 1 .. Len(st) /\ q + 1 \in 1 .. Len(st) /\ p + 1 < q + 1
      BY <1>3, <2>2
    <3>2. lev[q + 1] <= lev[p + 1] /\ (st[p + 1][2] = Reads!EXIT => lev[q + 1] < lev[p + 1])
      BY <1>1, <3>1 DEF Levels
    <3>3. t[p] = st[p + 1] /\ l[p] = lev[p + 1] /\ l[q] = lev[q + 1]
      BY <1>3, <1>8
    <3> QED
      BY <3>2, <3>3
  <2>3. ASSUME NEW k \in 2 .. n
        PROVE  \E p \in 1 .. Len(t) : t[p][2] = Reads!EXIT /\ l[p] = 2 * k - 1
    <3>1. PICK q \in 1 .. Len(st) : st[q][2] = Reads!EXIT /\ lev[q] = 2 * k - 1
      BY <1>1 DEF Levels
    <3>2. q - 1 \in 1 .. Len(t) /\ t[q - 1] = st[q] /\ (q - 1) + 1 = q
      BY <1>3, <3>1
    <3> QED
      BY <1>8, <3>1, <3>2
  <2> QED
    BY <2>1, <2>2, <2>3 DEF Levels
<1> QED
  BY <1>2, <1>5, <1>6, <1>8, <1>9 DEF Nested

LEMMA ExitOnTop ==
  ASSUME NEW n \in Nat, n >= 1, NEW st \in Seq(BoardItems \X Nat), st # <<>>, Nested(st, n),
         st[1][2] = Reads!EXIT
  PROVE  n >= 2 /\ Nested(Tail(st), n - 1)
<1>1. PICK lev \in [1 .. Len(st) -> Nat] : Levels(lev, st, n)
  BY DEF Nested
<1>2. PICK t : t = Tail(st)
  OBVIOUS
<1>3. /\ Len(st) \in Nat /\ Len(st) >= 1 /\ Len(t) \in Nat /\ Len(t) = Len(st) - 1
      /\ \A p \in 1 .. Len(t) : p + 1 \in 1 .. Len(st) /\ t[p] = st[p + 1]
      /\ \A q \in 1 .. Len(st) : q # 1 => q - 1 \in 1 .. Len(t) /\ t[q - 1] = st[q]
  BY <1>2, TailIs
<1>4. 1 \in 1 .. Len(st)
  BY <1>3
<1>5. PICK e \in 2 .. n : lev[1] = 2 * e - 1
  BY <1>1, <1>4 DEF Levels
<1>6. n >= 2 /\ e = n
  <2>1. n >= 2 /\ n \in 2 .. n
    BY <1>5
  <2>2. PICK p \in 1 .. Len(st) : st[p][2] = Reads!EXIT /\ lev[p] = 2 * n - 1
    BY <1>1, <2>1 DEF Levels
  <2>3. CASE p = 1
    BY <1>5, <2>1, <2>2, <2>3
  <2>4. CASE p # 1
    <3>1. 1 < p
      BY <1>3, <2>4
    <3>2. lev[p] < lev[1]
      BY <1>1, <1>4, <3>1 DEF Levels
    <3> QED
      BY <1>5, <2>2, <3>2
  <2> QED
    BY <2>1, <2>3, <2>4
<1>7. PICK l : l = [p \in 1 .. Len(t) |-> lev[p + 1]]
  OBVIOUS
<1>8. l \in [1 .. Len(t) -> Nat] /\ \A p \in 1 .. Len(t) : l[p] = lev[p + 1]
  BY <1>3, <1>7
<1>9. Levels(l, t, n - 1)
  <2>1. ASSUME NEW p \in 1 .. Len(t)
        PROVE  IF t[p][2] = Reads!EXIT THEN \E k \in 2 .. n - 1 : l[p] = 2 * k - 1
               ELSE t[p][2] \in 1 .. n - 1 /\ l[p] = 2 * t[p][2]
    <3>1. p + 1 \in 1 .. Len(st) /\ 1 < p + 1 /\ t[p] = st[p + 1] /\ l[p] = lev[p + 1]
      BY <1>3, <1>8
    <3>2. lev[p + 1] < lev[1]
      BY <1>1, <1>4, <3>1 DEF Levels
    <3>3. CASE t[p][2] = Reads!EXIT
      <4>1. PICK k \in 2 .. n : lev[p + 1] = 2 * k - 1
        BY <1>1, <3>1, <3>3 DEF Levels
      <4>2. k \in 2 .. n - 1
        BY <1>5, <1>6, <3>2, <4>1
      <4> QED
        BY <3>1, <3>3, <4>1, <4>2
    <3>4. CASE t[p][2] # Reads!EXIT
      <4>1. PICK d \in Nat : d = t[p][2] /\ d >= 1 /\ d <= n /\ lev[p + 1] = 2 * d
        BY <1>1, <3>1, <3>4 DEF Levels
      <4>2. d <= n - 1
        BY <1>5, <1>6, <3>2, <4>1
      <4> QED
        BY <3>1, <3>4, <4>1, <4>2
    <3> QED
      BY <3>3, <3>4
  <2>2. ASSUME NEW p \in 1 .. Len(t), NEW q \in 1 .. Len(t), p < q
        PROVE  l[q] <= l[p] /\ (t[p][2] = Reads!EXIT => l[q] < l[p])
    <3>1. p + 1 \in 1 .. Len(st) /\ q + 1 \in 1 .. Len(st) /\ p + 1 < q + 1
      BY <1>3, <2>2
    <3>2. lev[q + 1] <= lev[p + 1] /\ (st[p + 1][2] = Reads!EXIT => lev[q + 1] < lev[p + 1])
      BY <1>1, <3>1 DEF Levels
    <3>3. t[p] = st[p + 1] /\ l[p] = lev[p + 1] /\ l[q] = lev[q + 1]
      BY <1>3, <1>8
    <3> QED
      BY <3>2, <3>3
  <2>3. ASSUME NEW k \in 2 .. n - 1
        PROVE  \E p \in 1 .. Len(t) : t[p][2] = Reads!EXIT /\ l[p] = 2 * k - 1
    <3>0. k \in 2 .. n
      OBVIOUS
    <3>1. PICK q \in 1 .. Len(st) : st[q][2] = Reads!EXIT /\ lev[q] = 2 * k - 1
      BY <1>1, <3>0 DEF Levels
    <3>2. q # 1
      BY <1>5, <1>6, <2>3, <3>1
    <3>3. q - 1 \in 1 .. Len(t) /\ t[q - 1] = st[q] /\ (q - 1) + 1 = q
      BY <1>3, <3>2
    <3> QED
      BY <1>8, <3>1, <3>3
  <2> QED
    BY <2>1, <2>2, <2>3 DEF Levels
<1> QED
  BY <1>2, <1>6, <1>8, <1>9 DEF Nested

(* Without a stack the path is the root alone. *)
LEMMA NothingNested ==
  ASSUME NEW n \in Nat, n >= 1, Nested(<<>>, n)
  PROVE  n = 1
<1>1. SUFFICES ASSUME n # 1 PROVE FALSE
  OBVIOUS
<1>2. n \in 2 .. n /\ Len(<<>>) = 0
  BY <1>1
<1> QED
  BY <1>2 DEF Nested, Levels

AllFrames == BoardItems \X Nat
AllAt(fr, d) == \A p \in 1 .. Len(fr) : fr[p][2] = d
Pushed(r, fr, e, t) == r = fr \o <<e>> \o t
StackIs(r, fr, e, t) ==
  /\ r \in Seq(AllFrames) /\ Len(fr) \in Nat /\ Len(t) \in Nat /\ Len(r) = Len(fr) + 1 + Len(t)
  /\ \A p \in 1 .. Len(r) : r[p] = IF p <= Len(fr) THEN fr[p]
                                   ELSE IF p = Len(fr) + 1 THEN e ELSE t[p - (Len(fr) + 1)]
  /\ \A p \in 1 .. Len(fr) : p \in 1 .. Len(r) /\ r[p] = fr[p]
  /\ Len(fr) + 1 \in 1 .. Len(r) /\ r[Len(fr) + 1] = e
  /\ \A p \in 1 .. Len(t) : p + (Len(fr) + 1) \in 1 .. Len(r) /\ r[p + (Len(fr) + 1)] = t[p]

LEMMA Stacked ==
  ASSUME NEW fr \in Seq(AllFrames), NEW e \in AllFrames, NEW t \in Seq(AllFrames), NEW r,
         Pushed(r, fr, e, t)
  PROVE  StackIs(r, fr, e, t)
<1>1. PICK a : a = fr \o <<e>>
  OBVIOUS
<1>2. PICK m \in Nat : m = Len(fr)
  OBVIOUS
<1>3. PICK l \in Nat : l = Len(t)
  OBVIOUS
<1>4. a \in Seq(AllFrames) /\ Len(a) = m + 1 /\ \A p \in 1 .. m + 1 : a[p] = IF p <= m THEN fr[p] ELSE e
  BY <1>1, <1>2
<1>5. r = a \o t
  BY <1>1 DEF Pushed
<1>6. r \in Seq(AllFrames) /\ Len(r) = m + 1 + l
      /\ \A p \in 1 .. m + 1 + l : r[p] = IF p <= m + 1 THEN a[p] ELSE t[p - (m + 1)]
  <2>1. PICK c \in Nat : c = Len(a) /\ c = m + 1
    BY <1>4
  <2>4. a \in Seq(AllFrames) /\ t \in Seq(AllFrames)
    BY <1>4
  <2>5. r \in Seq(AllFrames) /\ Len(r) = Len(a) + Len(t)
    BY <1>5, <2>4
  <2>2. r \in Seq(AllFrames) /\ Len(r) = c + l
    BY <1>3, <2>1, <2>5
  <2>3. \A p \in 1 .. c + l : r[p] = IF p <= c THEN a[p] ELSE t[p - c]
    BY <1>3, <1>4, <1>5, <2>1
  <2> QED
    BY <2>1, <2>2, <2>3
<1>7. ASSUME NEW p \in 1 .. m + 1 + l
      PROVE  r[p] = IF p <= m THEN fr[p] ELSE IF p = m + 1 THEN e ELSE t[p - (m + 1)]
  <2>1. CASE p <= m + 1
    <3>1. p \in 1 .. m + 1
      BY <2>1
    <3> QED
      BY <1>4, <1>6, <2>1, <3>1
  <2>2. CASE ~(p <= m + 1)
    BY <1>6, <2>2
  <2> QED
    BY <2>1, <2>2
<1>8. \A p \in 1 .. m : p \in 1 .. m + 1 + l /\ r[p] = fr[p]
  BY <1>7
<1>9. m + 1 \in 1 .. m + 1 + l /\ r[m + 1] = e
  BY <1>7
<1>10. ASSUME NEW p \in 1 .. l
       PROVE  p + (m + 1) \in 1 .. m + 1 + l /\ r[p + (m + 1)] = t[p]
  <2>1. p + (m + 1) \in 1 .. m + 1 + l /\ ~(p + (m + 1) <= m) /\ p + (m + 1) # m + 1 /\ (p + (m + 1)) - (m + 1) = p
    OBVIOUS
  <2> QED
    BY <1>7, <2>1
<1> QED
  BY <1>2, <1>3, <1>6, <1>7, <1>8, <1>9, <1>10 DEF StackIs

LEMMA FramesPushed ==
  ASSUME NEW n \in Nat, n >= 1, n < 98, NEW x \in BoardItems,
         NEW t \in Seq(AllFrames), Nested(t, n),
         NEW fr \in Seq(AllFrames), AllAt(fr, n + 1),
         NEW r, Pushed(r, fr, <<x, Reads!EXIT>>, t)
  PROVE  Nested(r, n + 1)
<1>1. PICK lev \in [1 .. Len(t) -> Nat] : Levels(lev, t, n)
  BY DEF Nested
<1>2. PICK e \in AllFrames : e = <<x, Reads!EXIT>>
  BY DEF Reads!EXIT, AllFrames
<1>3. PICK m \in Nat : m = Len(fr)
  OBVIOUS
<1>4. PICK l \in Nat : l = Len(t)
  OBVIOUS
<1>5. /\ r \in Seq(AllFrames) /\ Len(r) = m + 1 + l
      /\ \A p \in 1 .. m + 1 + l : r[p] = IF p <= m THEN fr[p] ELSE IF p = m + 1 THEN e ELSE t[p - (m + 1)]
      /\ \A p \in 1 .. l : p + (m + 1) \in 1 .. m + 1 + l /\ r[p + (m + 1)] = t[p]
      /\ m + 1 \in 1 .. m + 1 + l /\ r[m + 1] = e
  <2>1. Pushed(r, fr, e, t)
    BY <1>2
  <2>2. StackIs(r, fr, e, t)
    BY <2>1, Stacked
  <2> QED
    BY <1>3, <1>4, <2>2 DEF StackIs
<1>6. PICK h : h = [p \in 1 .. m + 1 + l |-> IF p <= m THEN 2 * (n + 1)
                                             ELSE IF p = m + 1 THEN 2 * n + 1 ELSE lev[p - (m + 1)]]
  OBVIOUS
<1>7. ASSUME NEW p \in 1 .. m + 1 + l, ~(p <= m), p # m + 1
      PROVE  p - (m + 1) \in 1 .. l
  BY <1>7
<1>8. h \in [1 .. m + 1 + l -> Nat]
  BY <1>1, <1>4, <1>6, <1>7
<1>9. ASSUME NEW p \in 1 .. l
      PROVE  lev[p] <= 2 * n /\ lev[p] \in Nat
  <2>1. CASE t[p][2] = Reads!EXIT
    <3>1. PICK k \in 2 .. n : lev[p] = 2 * k - 1
      BY <1>1, <1>4, <2>1 DEF Levels
    <3> QED
      BY <3>1
  <2>2. CASE t[p][2] # Reads!EXIT
    <3>1. t[p][2] \in 1 .. n /\ lev[p] = 2 * t[p][2]
      BY <1>1, <1>4, <2>2 DEF Levels
    <3>2. PICK d \in 1 .. n : lev[p] = 2 * d
      BY <3>1
    <3> QED
      BY <3>2
  <2> QED
    BY <2>1, <2>2
<1>10. ASSUME NEW p \in 1 .. m + 1 + l
       PROVE  IF r[p][2] = Reads!EXIT THEN \E k \in 2 .. n + 1 : h[p] = 2 * k - 1
              ELSE r[p][2] \in 1 .. n + 1 /\ h[p] = 2 * r[p][2]
  <2>1. CASE p <= m
    <3>1. r[p][2] = n + 1 /\ h[p] = 2 * (n + 1)
      BY <1>3, <1>5, <1>6, <2>1 DEF AllAt
    <3>2. n + 1 \in 1 .. n + 1 /\ n + 1 # Reads!EXIT
      BY DEF Reads!EXIT
    <3> QED
      BY <3>1, <3>2
  <2>2. CASE p = m + 1
    <3>1. r[p][2] = Reads!EXIT /\ h[p] = 2 * n + 1
      BY <1>2, <1>5, <1>6, <2>2
    <3>2. n + 1 \in 2 .. n + 1 /\ 2 * n + 1 = 2 * (n + 1) - 1
      OBVIOUS
    <3> QED
      BY <3>1, <3>2
  <2>3. CASE ~(p <= m) /\ p # m + 1
    <3>1. p - (m + 1) \in 1 .. l /\ r[p] = t[p - (m + 1)] /\ h[p] = lev[p - (m + 1)]
      BY <1>5, <1>6, <1>7, <2>3
    <3>2. PICK q \in 1 .. l : r[p] = t[q] /\ h[p] = lev[q]
      BY <3>1
    <3>3. CASE t[q][2] = Reads!EXIT
      <4>1. PICK k \in 2 .. n : lev[q] = 2 * k - 1
        BY <1>1, <1>4, <3>3 DEF Levels
      <4>2. k \in 2 .. n + 1
        OBVIOUS
      <4> QED
        BY <3>2, <3>3, <4>1, <4>2
    <3>4. CASE t[q][2] # Reads!EXIT
      <4>1. t[q][2] \in 1 .. n /\ lev[q] = 2 * t[q][2]
        BY <1>1, <1>4, <3>4 DEF Levels
      <4> QED
        BY <3>2, <3>4, <4>1
    <3> QED
      BY <3>3, <3>4
  <2> QED
    BY <2>1, <2>2, <2>3
<1>11. ASSUME NEW p \in 1 .. m + 1 + l, NEW q \in 1 .. m + 1 + l, p < q
       PROVE  h[q] <= h[p] /\ (r[p][2] = Reads!EXIT => h[q] < h[p])
  <2>1. CASE p <= m
    <3>1. r[p][2] = n + 1 /\ h[p] = 2 * (n + 1)
      BY <1>3, <1>5, <1>6, <2>1 DEF AllAt
    <3>2. h[q] <= 2 * (n + 1)
      BY <1>6, <1>7, <1>9
    <3>3. n + 1 # Reads!EXIT
      BY DEF Reads!EXIT
    <3> QED
      BY <3>1, <3>2, <3>3
  <2>2. CASE p = m + 1
    <3>1. h[p] = 2 * n + 1
      BY <1>6, <2>2
    <3>2. ~(q <= m) /\ q # m + 1
      BY <1>11, <2>2
    <3>3. h[q] <= 2 * n
      BY <1>6, <1>7, <1>9, <3>2
    <3>4. h[q] \in Nat
      BY <1>8
    <3> QED
      BY <3>1, <3>3, <3>4
  <2>3. CASE ~(p <= m) /\ p # m + 1
    <3>1. ~(q <= m) /\ q # m + 1
      BY <1>11, <2>3
    <3>2. p - (m + 1) \in 1 .. l /\ q - (m + 1) \in 1 .. l /\ p - (m + 1) < q - (m + 1)
      BY <1>7, <1>11, <2>3, <3>1
    <3>3. h[p] = lev[p - (m + 1)] /\ h[q] = lev[q - (m + 1)] /\ r[p] = t[p - (m + 1)]
      BY <1>5, <1>6, <2>3, <3>1
    <3>4. PICK i \in 1 .. l, j \in 1 .. l : i < j /\ h[p] = lev[i] /\ h[q] = lev[j] /\ r[p] = t[i]
      BY <3>2, <3>3
    <3>5. lev[j] <= lev[i] /\ (t[i][2] = Reads!EXIT => lev[j] < lev[i])
      BY <1>1, <1>4, <3>4 DEF Levels
    <3> QED
      BY <3>4, <3>5
  <2> QED
    BY <2>1, <2>2, <2>3
<1>12. ASSUME NEW k \in 2 .. n + 1
       PROVE  \E p \in 1 .. m + 1 + l : r[p][2] = Reads!EXIT /\ h[p] = 2 * k - 1
  <2>1. CASE k = n + 1
    <3>1. h[m + 1] = 2 * n + 1 /\ r[m + 1][2] = Reads!EXIT
      BY <1>2, <1>5, <1>6
    <3>2. 2 * n + 1 = 2 * k - 1
      BY <2>1
    <3> QED
      BY <1>5, <3>1, <3>2
  <2>2. CASE k # n + 1
    <3>1. k \in 2 .. n
      BY <2>2
    <3>2. PICK q \in 1 .. l : t[q][2] = Reads!EXIT /\ lev[q] = 2 * k - 1
      BY <1>1, <1>4, <3>1 DEF Levels
    <3>3. PICK p \in 1 .. m + 1 + l : p = q + (m + 1) /\ r[p] = t[q]
      BY <1>5
    <3>4. ~(p <= m) /\ p # m + 1 /\ p - (m + 1) = q
      BY <3>3
    <3>5. h[p] = lev[q]
      BY <1>6, <3>4
    <3> QED
      BY <3>2, <3>3, <3>5
  <2> QED
    BY <2>1, <2>2
<1>13. Levels(h, r, n + 1)
  BY <1>5, <1>10, <1>11, <1>12 DEF Levels
<1> QED
  BY <1>5, <1>8, <1>13 DEF Nested

LEMMA WalkLimits ==
  /\ MAX_BLOCKED_DEPTH \in Nat /\ MAX_BLOCKED_DEPTH + 1 < 98 /\ Reads!Unseen = 98 /\ Reads!EXIT = 99
  /\ MAX_RESULT_ITEMS \in Nat
  /\ 0 \in BoardItems /\ IsFiniteSet(BoardItems) /\ BoardItems \subseteq Nat
  /\ \A E, i : Reads!Blockers(E, i) \subseteq BoardItems
BY ToolsAssumption DEF ToolsAssumption, Reads!Unseen, Reads!EXIT, Reads!Blockers

(* The frames on a stack. *)
On(st) == {st[p] : p \in 1 .. Len(st)}

LEMMA OnTail ==
  ASSUME NEW st \in Seq(AllFrames), st # <<>>
  PROVE  /\ On(st) = {st[1]} \cup On(Tail(st)) /\ On(st) \subseteq AllFrames /\ st[1] \in AllFrames
         /\ Tail(st) \in Seq(AllFrames)
<1>1. /\ Tail(st) \in Seq(AllFrames) /\ Len(st) \in Nat /\ Len(st) >= 1 /\ Len(Tail(st)) = Len(st) - 1
      /\ \A p \in 1 .. Len(Tail(st)) : p + 1 \in 1 .. Len(st) /\ Tail(st)[p] = st[p + 1]
      /\ \A q \in 1 .. Len(st) : q # 1 => q - 1 \in 1 .. Len(Tail(st)) /\ Tail(st)[q - 1] = st[q]
  BY TailIs
<1>2. 1 \in 1 .. Len(st) /\ \A p \in 1 .. Len(st) : st[p] \in AllFrames
  BY <1>1
<1>3. PICK t : t = Tail(st)
  OBVIOUS
<1>4. \A f \in On(st) : f = st[1] \/ f \in On(t)
  BY <1>1, <1>3 DEF On
<1>5. \A f \in On(t) : f \in On(st)
  BY <1>1, <1>3 DEF On
<1>6. st[1] \in On(st) /\ On(st) \subseteq AllFrames
  BY <1>2 DEF On
<1> QED
  BY <1>1, <1>3, <1>4, <1>5, <1>6

LEMMA OnPushed ==
  ASSUME NEW fr \in Seq(AllFrames), NEW e \in AllFrames, NEW t \in Seq(AllFrames), NEW r,
         Pushed(r, fr, e, t)
  PROVE  r \in Seq(AllFrames) /\ On(r) = On(fr) \cup {e} \cup On(t)
<1>1. StackIs(r, fr, e, t)
  BY Stacked
<1>2. PICK m \in Nat : m = Len(fr)
  OBVIOUS
<1>3. PICK l \in Nat : l = Len(t)
  OBVIOUS
<1>4. /\ r \in Seq(AllFrames) /\ Len(r) = m + 1 + l
      /\ \A p \in 1 .. m + 1 + l : r[p] = IF p <= m THEN fr[p] ELSE IF p = m + 1 THEN e ELSE t[p - (m + 1)]
      /\ \A p \in 1 .. m : p \in 1 .. m + 1 + l /\ r[p] = fr[p]
      /\ m + 1 \in 1 .. m + 1 + l /\ r[m + 1] = e
      /\ \A p \in 1 .. l : p + (m + 1) \in 1 .. m + 1 + l /\ r[p + (m + 1)] = t[p]
  BY <1>1, <1>2, <1>3 DEF StackIs
<1>5. \A f \in On(fr) : f \in On(r)
  BY <1>2, <1>4 DEF On
<1>6. e \in On(r)
  BY <1>4 DEF On
<1>7. ASSUME NEW f \in On(t)
      PROVE  f \in On(r)
  <2>1. PICK p \in 1 .. l : f = t[p]
    BY <1>3 DEF On
  <2>2. PICK o \in 1 .. m + 1 + l : r[o] = t[p]
    BY <1>4
  <2> QED
    BY <1>4, <2>1, <2>2 DEF On
<1>8. ASSUME NEW f \in On(r)
      PROVE  f \in On(fr) \/ f = e \/ f \in On(t)
  <2>1. PICK p \in 1 .. m + 1 + l : f = r[p]
    BY <1>4 DEF On
  <2>2. CASE p <= m
    <3>1. p \in 1 .. m /\ r[p] = fr[p]
      BY <1>4, <2>2
    <3> QED
      BY <1>2, <2>1, <3>1 DEF On
  <2>3. CASE p = m + 1
    BY <1>4, <2>1, <2>3
  <2>4. CASE ~(p <= m) /\ p # m + 1
    <3>1. p - (m + 1) \in 1 .. l
      BY <2>4
    <3>2. r[p] = t[p - (m + 1)]
      BY <1>4, <2>4
    <3> QED
      BY <1>3, <2>1, <3>1, <3>2 DEF On
  <2> QED
    BY <2>2, <2>3, <2>4
<1> QED
  BY <1>4, <1>5, <1>6, <1>7, <1>8

LEMMA OnFrames ==
  ASSUME NEW item, NEW d \in Nat
  PROVE  /\ Reads!Frames(item, d) \in Seq(AllFrames) /\ AllAt(Reads!Frames(item, d), d)
         /\ On(Reads!Frames(item, d)) = {<<b, d>> : b \in Reads!Blockers(walkEdges, item)}
<1>1. PICK fr : fr = Reads!Frames(item, d)
  OBVIOUS
<1>2. PICK B : B = Reads!Blockers(walkEdges, item)
  OBVIOUS
<1>3. /\ fr \in Seq(BoardItems \X Nat)
      /\ \A p \in 1 .. Len(fr) : \E b \in B : fr[p] = <<b, d>>
      /\ \A b \in B : \E p \in 1 .. Len(fr) : fr[p] = <<b, d>>
  <2>1. /\ Reads!Frames(item, d) \in Seq(BoardItems \X Nat)
        /\ \A p \in 1 .. Len(Reads!Frames(item, d)) :
             \E b \in Reads!Blockers(walkEdges, item) : Reads!Frames(item, d)[p] = <<b, d>>
        /\ \A b \in Reads!Blockers(walkEdges, item) :
             \E p \in 1 .. Len(Reads!Frames(item, d)) : Reads!Frames(item, d)[p] = <<b, d>>
    BY FramesAre
  <2> QED
    BY <1>1, <1>2, <2>1
<1>4. On(fr) = {<<b, d>> : b \in B}
  BY <1>3 DEF On
<1> QED
  BY <1>1, <1>2, <1>3, <1>4 DEF AllAt, AllFrames

LEMMA DepthsNest ==
  ASSUME NEW n \in Nat, NEW st \in Seq(AllFrames), Nested(st, n),
         NEW b, NEW d, <<b, d>> \in On(st), d # Reads!EXIT
  PROVE  d \in 1 .. n
<1>1. PICK lev \in [1 .. Len(st) -> Nat] : Levels(lev, st, n)
  BY DEF Nested
<1>2. PICK p \in 1 .. Len(st) : st[p] = <<b, d>>
  BY DEF On
<1>3. st[p][2] = d
  BY <1>2
<1>4. st[p][2] \in 1 .. n
  BY <1>1, <1>3 DEF Levels
<1> QED
  BY <1>3, <1>4

(* A path from the root along the blocking edges, and the ends of such. *)
OnPath(E, pa) ==
  /\ pa \in Seq(BoardItems) /\ Len(pa) >= 1 /\ pa[1] = 0
  /\ \A k \in 1 .. Len(pa) - 1 : pa[k + 1] \in Reads!Blockers(E, pa[k])
WalkTo(E, i, n) == \E pa : OnPath(E, pa) /\ Len(pa) = n + 1 /\ pa[n + 1] = i

LEMMA PathPopped ==
  ASSUME NEW E, NEW pa, OnPath(E, pa), Len(pa) >= 2, NEW q, q = Reads!Front(pa)
  PROVE  OnPath(E, q) /\ Len(pa) \in Nat /\ Len(q) = Len(pa) - 1 /\ \A k \in 1 .. Len(q) : q[k] = pa[k]
<1>1. PICK n \in Nat : n = Len(pa) /\ n >= 2
  BY DEF OnPath
<1>2. q = SubSeq(pa, 1, n - 1) /\ pa \in Seq(BoardItems)
  BY <1>1 DEF Reads!Front, OnPath
<1>3. q \in Seq(BoardItems) /\ Len(q) = n - 1 /\ \A k \in 1 .. n - 1 : q[k] = pa[k]
  BY <1>1, <1>2
<1>4. q[1] = 0
  BY <1>1, <1>3 DEF OnPath
<1>5. ASSUME NEW k \in 1 .. (n - 1) - 1
      PROVE  q[k + 1] \in Reads!Blockers(E, q[k])
  <2>1. k \in 1 .. n - 1 /\ k + 1 \in 1 .. n - 1
    BY <1>1
  <2> QED
    BY <1>1, <1>3, <2>1 DEF OnPath
<1> QED
  BY <1>1, <1>3, <1>4, <1>5 DEF OnPath

Grown(E, pa, x, q) ==
  /\ OnPath(E, q) /\ Len(pa) \in Nat /\ Len(q) = Len(pa) + 1 /\ WalkTo(E, x, Len(pa))
  /\ q[Len(pa) + 1] = x /\ \A k \in 1 .. Len(pa) : q[k] = pa[k]

LEMMA PathGrown ==
  ASSUME NEW E, NEW pa, OnPath(E, pa), NEW x, x \in Reads!Blockers(E, pa[Len(pa)])
  PROVE  Grown(E, pa, x, Append(pa, x))
<1>0. PICK q : q = Append(pa, x)
  OBVIOUS
<1>1. PICK n \in Nat : n = Len(pa) /\ n >= 1
  BY DEF OnPath
<1>2. pa \in Seq(BoardItems) /\ x \in BoardItems
  BY WalkLimits DEF OnPath
<1>3. q \in Seq(BoardItems) /\ Len(q) = n + 1 /\ q[n + 1] = x /\ \A k \in 1 .. n : q[k] = pa[k]
  BY <1>0, <1>1, <1>2
<1>4. q[1] = 0
  BY <1>1, <1>3 DEF OnPath
<1>5. ASSUME NEW k \in 1 .. (n + 1) - 1
      PROVE  q[k + 1] \in Reads!Blockers(E, q[k])
  <2>1. CASE k = n
    BY <1>1, <1>3, <2>1
  <2>2. CASE k # n
    <3>1. k \in 1 .. n - 1 /\ k \in 1 .. n /\ k + 1 \in 1 .. n
      BY <1>1, <2>2
    <3> QED
      BY <1>1, <1>3, <3>1 DEF OnPath
  <2> QED
    BY <2>1, <2>2
<1>6. OnPath(E, q)
  BY <1>1, <1>3, <1>4, <1>5 DEF OnPath
<1> QED
  BY <1>0, <1>1, <1>3, <1>6 DEF WalkTo, Grown

(* What the walk knows at every step, of the frames on its stack, Q: where  *)
(* they come from; that an item seen is reached by a walk of that length;   *)
(* that every blocker of an item seen is seen one deeper, or is still on    *)
(* the stack, or is beyond lim; and that what is done with, F, has all its  *)
(* blockers and no cycle, and is all that was seen beside the path.         *)
Framed(E, Q, pa) ==
  \A b \in BoardItems, d \in Nat :
    <<b, d>> \in Q /\ d # 99 => d \in 1 .. Len(pa) /\ b \in Reads!Blockers(E, pa[d])
SeenWell(E, sn) ==
  /\ sn \in [BoardItems -> Nat] /\ sn[0] = 0
  /\ \A i \in BoardItems : sn[i] # 98 => sn[i] <= MAX_BLOCKED_DEPTH /\ WalkTo(E, i, sn[i])
Owed(Q, sn, lim, i, b) ==
  \/ sn[b] <= sn[i] + 1
  \/ \E d \in Nat : <<b, d>> \in Q /\ d <= sn[i] + 1
  \/ sn[i] >= lim
Pending(E, Q, sn, lim) ==
  \A i \in BoardItems : sn[i] # 98 => \A b \in Reads!Blockers(E, i) : Owed(Q, sn, lim, i, b)
Settled(E, F) ==
  /\ F \in SUBSET BoardItems /\ \A i \in F : Reads!Blockers(E, i) \subseteq F
  /\ \A S \in SUBSET F : S # {} => \E i \in S : Reads!Blockers(E, i) \cap S = {}
PathHas(pa, i) == \E k \in 1 .. Len(pa) : pa[k] = i
Cleared(E, Q, sn, pa, F) ==
  /\ \A i \in BoardItems : sn[i] # 98 => i \in F \/ PathHas(pa, i)
  /\ \A k \in 1 .. Len(pa) : \A b \in Reads!Blockers(E, pa[k]) :
       b \in F \/ <<b, k>> \in Q \/ (k < Len(pa) /\ b = pa[k + 1])
Clear(E, Q, sn, pa) == \E F : Settled(E, F) /\ Cleared(E, Q, sn, pa, F)
Walked(E, Q, sn, pa, lim) ==
  /\ OnPath(E, pa) /\ Framed(E, Q, pa) /\ SeenWell(E, sn)
  /\ Pending(E, Q, sn, lim) /\ lim \in {MAX_BLOCKED_DEPTH, 98}
  /\ lim = 98 => Clear(E, Q, sn, pa)

LEMMA OneMoreSettled ==
  ASSUME NEW E, NEW F, Settled(E, F), NEW x \in BoardItems, Reads!Blockers(E, x) \subseteq F
  PROVE  Settled(E, F \cup {x})
<1>1. CASE x \in F
  <2>1. F \cup {x} = F
    BY <1>1
  <2> QED
    BY <2>1
<1>2. CASE x \notin F
  <2>1. F \cup {x} \in SUBSET BoardItems /\ \A i \in F \cup {x} : Reads!Blockers(E, i) \subseteq F
    BY DEF Settled
  <2>2. ASSUME NEW S \in SUBSET (F \cup {x}), S # {}
        PROVE  \E i \in S : Reads!Blockers(E, i) \cap S = {}
    <3>1. CASE S \cap F # {}
      <4>1. PICK i \in S \cap F : Reads!Blockers(E, i) \cap (S \cap F) = {}
        BY <3>1 DEF Settled
      <4>2. Reads!Blockers(E, i) \cap S = {}
        BY <2>1, <4>1
      <4> QED
        BY <4>1, <4>2
    <3>2. CASE S \cap F = {}
      <4>1. x \in S
        BY <2>2, <3>2
      <4>2. Reads!Blockers(E, x) \cap S = {}
        BY <3>2
      <4> QED
        BY <4>1, <4>2
    <3> QED
      BY <3>1, <3>2
  <2> QED
    BY <2>1, <2>2 DEF Settled
<1> QED
  BY <1>1, <1>2

(* A frame is taken from the stack that adds nothing to what is seen. *)
LEMMA FrameDropped ==
  ASSUME NEW E, NEW Q, NEW R, NEW sn, NEW pa, NEW lim, NEW lim2,
         Walked(E, Q, sn, pa, lim), NEW x \in BoardItems, NEW n \in Nat, n = Len(pa), n < 98,
         Q = {<<x, n>>} \cup R,
         \/ sn[x] <= n /\ lim2 = lim /\ ~PathHas(pa, x)
         \/ n > MAX_BLOCKED_DEPTH /\ lim2 = MAX_BLOCKED_DEPTH
  PROVE  Walked(E, R, sn, pa, lim2)
<1>0. /\ OnPath(E, pa) /\ Framed(E, Q, pa) /\ SeenWell(E, sn)
      /\ Pending(E, Q, sn, lim) /\ lim \in {MAX_BLOCKED_DEPTH, 98}
      /\ lim = 98 => Clear(E, Q, sn, pa)
  BY DEF Walked
<1>1. Framed(E, R, pa)
  BY <1>0 DEF Framed
<1>2. sn \in [BoardItems -> Nat]
  BY <1>0 DEF SeenWell
<1>3. Pending(E, R, sn, lim2)
  <2>1. SUFFICES ASSUME NEW i \in BoardItems, sn[i] # 98, NEW b \in Reads!Blockers(E, i)
                 PROVE  Owed(R, sn, lim2, i, b)
    BY DEF Pending
  <2>2. Owed(Q, sn, lim, i, b)
    <3>1. \A j \in BoardItems : sn[j] # 98 => \A c \in Reads!Blockers(E, j) : Owed(Q, sn, lim, j, c)
      BY <1>0 DEF Pending
    <3> QED
      BY <2>1, <3>1, Zenon
  <2>3. PICK v \in Nat : v = sn[i]
    BY <1>2
  <2>4. v <= MAX_BLOCKED_DEPTH
    BY <1>0, <2>1, <2>3 DEF SeenWell
  <2>5. b \in BoardItems
    BY WalkLimits
  <2>6. CASE sn[b] <= v + 1
    BY <2>3, <2>6 DEF Owed
  <2>7. CASE v >= lim
    <3>1. v >= lim2
      BY <1>0, <2>4, <2>7, WalkLimits
    <3> QED
      BY <2>3, <3>1 DEF Owed
  <2>8. ASSUME NEW d \in Nat, <<b, d>> \in Q, d <= v + 1
        PROVE  Owed(R, sn, lim2, i, b)
    <3>1. CASE <<b, d>> \in R
      BY <2>3, <2>8, <3>1 DEF Owed
    <3>2. CASE b = x /\ d = n
      <4>1. CASE sn[x] <= n
        <5>1. sn[b] \in Nat
          BY <1>2, <2>5
        <5>2. sn[b] <= v + 1
          BY <2>8, <3>2, <4>1, <5>1
        <5> QED
          BY <2>3, <5>2 DEF Owed
      <4>2. CASE n > MAX_BLOCKED_DEPTH /\ lim2 = MAX_BLOCKED_DEPTH
        <5>1. v >= lim2
          BY <2>8, <3>2, <4>2, WalkLimits
        <5> QED
          BY <2>3, <5>1 DEF Owed
      <4> QED
        BY <4>1, <4>2
    <3> QED
      BY <2>8, <3>1, <3>2
  <2> QED
    BY <2>2, <2>3, <2>6, <2>7, <2>8 DEF Owed
<1>4. lim2 \in {MAX_BLOCKED_DEPTH, 98}
  BY <1>0
<1>5. ASSUME lim2 = 98
      PROVE  Clear(E, R, sn, pa)
  <2>1. sn[x] <= n /\ lim = 98 /\ ~PathHas(pa, x)
    BY <1>5, WalkLimits
  <2>2. PICK F : Settled(E, F) /\ Cleared(E, Q, sn, pa, F)
    BY <1>0, <2>1 DEF Clear
  <2>3. x \in F
    <3>1. sn[x] # 98
      BY <2>1
    <3> QED
      BY <2>1, <2>2, <3>1 DEF Cleared
  <2>4. Cleared(E, R, sn, pa, F)
    BY <2>2, <2>3 DEF Cleared
  <2> QED
    BY <2>2, <2>4 DEF Clear
<1> QED
  BY <1>0, <1>1, <1>3, <1>4, <1>5 DEF Walked

Long(pa, n) == Len(pa) = n
Shallower(R, m) == \A b \in BoardItems, d \in Nat : <<b, d>> \in R /\ d # 99 => d \in 1 .. m

(* The last item of the path is done with. *)
LEMMA ItemDone ==
  ASSUME NEW E, NEW Q, NEW R, NEW sn, NEW pa, NEW lim, NEW q,
         Walked(E, Q, sn, pa, lim), NEW x \in BoardItems, NEW n \in Nat, Long(pa, n), n >= 2, n < 98,
         Q = {<<x, 99>>} \cup R, q = Reads!Front(pa),
         Shallower(R, n - 1)
  PROVE  Walked(E, R, sn, q, lim)
<1>0. /\ OnPath(E, pa) /\ Framed(E, Q, pa) /\ SeenWell(E, sn)
      /\ Pending(E, Q, sn, lim) /\ lim \in {MAX_BLOCKED_DEPTH, 98}
      /\ lim = 98 => Clear(E, Q, sn, pa)
  BY DEF Walked
<1>20. Len(pa) = n
  BY DEF Long
<1>1. OnPath(E, q) /\ Len(q) = n - 1 /\ \A k \in 1 .. n - 1 : q[k] = pa[k]
  <2>1. OnPath(E, pa) /\ Len(pa) >= 2
    BY <1>20, <1>0
  <2>2. OnPath(E, q) /\ Len(q) = Len(pa) - 1 /\ \A k \in 1 .. Len(q) : q[k] = pa[k]
    BY <2>1, PathPopped
  <2> QED
    BY <1>20, <2>2
<1>2. Framed(E, R, q)
  <2>1. SUFFICES ASSUME NEW b \in BoardItems, NEW d \in Nat, <<b, d>> \in R, d # 99
                 PROVE  d \in 1 .. n - 1 /\ b \in Reads!Blockers(E, q[d])
    BY <1>1 DEF Framed
  <2>2. d \in 1 .. n - 1
    BY <2>1 DEF Shallower
  <2>3. b \in Reads!Blockers(E, pa[d])
    BY <1>0, <2>1 DEF Framed
  <2> QED
    BY <1>1, <2>2, <2>3
<1>3. sn \in [BoardItems -> Nat]
  BY <1>0 DEF SeenWell
<1>4. Pending(E, R, sn, lim)
  <2>1. SUFFICES ASSUME NEW i \in BoardItems, sn[i] # 98, NEW b \in Reads!Blockers(E, i)
                 PROVE  Owed(R, sn, lim, i, b)
    BY DEF Pending
  <2>2. Owed(Q, sn, lim, i, b)
    <3>1. \A j \in BoardItems : sn[j] # 98 => \A c \in Reads!Blockers(E, j) : Owed(Q, sn, lim, j, c)
      BY <1>0 DEF Pending
    <3> QED
      BY <2>1, <3>1, Zenon
  <2>3. PICK v \in Nat : v = sn[i]
    BY <1>3
  <2>4. v <= MAX_BLOCKED_DEPTH
    BY <1>0, <2>1, <2>3 DEF SeenWell
  <2>5. ASSUME NEW d \in Nat, <<b, d>> \in Q, d <= v + 1
        PROVE  <<b, d>> \in R
    <3>1. d # 99
      BY <2>4, <2>5, WalkLimits
    <3> QED
      BY <2>5, <3>1
  <2> QED
    BY <2>2, <2>3, <2>5 DEF Owed
<1>5. ASSUME lim = 98
      PROVE  Clear(E, R, sn, q)
  <2>1. PICK F : Settled(E, F) /\ Cleared(E, Q, sn, pa, F)
    BY <1>0, <1>5 DEF Clear
  <2>2. pa[n] \in BoardItems /\ n \in 1 .. n
    BY <1>20, <1>0 DEF OnPath
  <2>3. ASSUME NEW b \in Reads!Blockers(E, pa[n])
        PROVE  b \in F
    <3>1. \A k \in 1 .. n : \A c \in Reads!Blockers(E, pa[k]) :
            c \in F \/ <<c, k>> \in Q \/ (k < n /\ c = pa[k + 1])
      BY <1>20, <2>1 DEF Cleared
    <3>0. b \in BoardItems
      BY WalkLimits
    <3>5. ~(n < n) /\ n # 99 /\ ~(n <= n - 1)
      OBVIOUS
    <3>6. n \notin 1 .. n - 1
      BY <3>5
    <3>2. b \in BoardItems /\ ~(n < n) /\ n # 99 /\ n \notin 1 .. n - 1
      BY <3>0, <3>5, <3>6
    <3>3. b \in F \/ <<b, n>> \in Q
      BY <2>2, <3>1, <3>2
    <3>4. <<b, n>> \notin R
      BY <3>2 DEF Shallower
    <3> QED
      BY <3>2, <3>3, <3>4
  <2>4. PICK G : G = F \cup {pa[n]}
    OBVIOUS
  <2>5. Settled(E, G)
    BY <2>1, <2>2, <2>3, <2>4, OneMoreSettled
  <2>6. ASSUME NEW i \in BoardItems, sn[i] # 98
        PROVE  i \in G \/ PathHas(q, i)
    <3>1. i \in F \/ PathHas(pa, i)
      BY <2>1, <2>6 DEF Cleared
    <3>2. ASSUME NEW k \in 1 .. n, pa[k] = i
          PROVE  i \in G \/ PathHas(q, i)
      <4>1. CASE k = n
        BY <2>4, <3>2, <4>1
      <4>2. CASE k # n
        <5>1. k \in 1 .. n - 1
          BY <4>2
        <5> QED
          BY <1>1, <3>2, <5>1 DEF PathHas
      <4> QED
        BY <4>1, <4>2
    <3> QED
      BY <1>20, <2>4, <3>1, <3>2 DEF PathHas
  <2>7. ASSUME NEW k \in 1 .. n - 1, NEW b \in Reads!Blockers(E, q[k])
        PROVE  b \in G \/ <<b, k>> \in R \/ (k < n - 1 /\ b = q[k + 1])
    <3>1. k \in 1 .. n /\ q[k] = pa[k] /\ b \in BoardItems
      BY <1>1, WalkLimits
    <3>2. b \in F \/ <<b, k>> \in Q \/ b = pa[k + 1]
      BY <1>20, <2>1, <2>7, <3>1 DEF Cleared
    <3>3. CASE b = pa[k + 1]
      <4>1. CASE k + 1 = n
        BY <2>4, <3>3, <4>1
      <4>2. CASE k + 1 # n
        <5>1. k < n - 1 /\ k + 1 \in 1 .. n - 1
          BY <4>2
        <5> QED
          BY <1>1, <3>3, <5>1
      <4> QED
        BY <4>1, <4>2
    <3>4. CASE <<b, k>> \in Q
      <4>1. k # 99
        OBVIOUS
      <4> QED
        BY <3>4, <4>1
    <3> QED
      BY <2>4, <3>2, <3>3, <3>4
  <2>8. Cleared(E, R, sn, q, G)
    BY <1>1, <2>6, <2>7 DEF Cleared
  <2> QED
    BY <2>5, <2>8 DEF Clear
<1> QED
  BY <1>0, <1>1, <1>2, <1>4, <1>5 DEF Walked

Reaching(E, Q, R, Q2, sn, sn2, pa, q, x, n) ==
  /\ Q = {<<x, n>>} \cup R /\ q = Append(pa, x)
  /\ Q2 = {<<b, n + 1>> : b \in Reads!Blockers(E, x)} \cup {<<x, 99>>} \cup R
  /\ sn2 = [sn EXCEPT ![x] = n]

(* An item is reached for the first time, or at less depth than before. *)
LEMMA ItemReached ==
  ASSUME NEW E, NEW Q, NEW R, NEW Q2, NEW sn, NEW sn2, NEW pa, NEW lim, NEW q,
         Walked(E, Q, sn, pa, lim), NEW x \in BoardItems, NEW n \in Nat, Long(pa, n), n < 98,
         n <= MAX_BLOCKED_DEPTH, ~(sn[x] <= n),
         Reaching(E, Q, R, Q2, sn, sn2, pa, q, x, n)
  PROVE  Walked(E, Q2, sn2, q, lim)
<1>0. /\ OnPath(E, pa) /\ Framed(E, Q, pa) /\ SeenWell(E, sn)
      /\ Pending(E, Q, sn, lim) /\ lim \in {MAX_BLOCKED_DEPTH, 98}
      /\ lim = 98 => Clear(E, Q, sn, pa)
  BY DEF Walked
<1>20. Len(pa) = n
  BY DEF Long
<1>10. /\ \A f : f \in Q <=> f = <<x, n>> \/ f \in R
       /\ \A f : f \in Q2 <=> f = <<x, 99>> \/ f \in R \/ \E b \in Reads!Blockers(E, x) : f = <<b, n + 1>>
  BY DEF Reaching
<1>11. q = Append(pa, x) /\ sn2 = [sn EXCEPT ![x] = n]
  BY DEF Reaching
<1>1. sn \in [BoardItems -> Nat] /\ sn[0] = 0 /\ x # 0
  <2>1. sn \in [BoardItems -> Nat] /\ sn[0] = 0
    BY <1>0 DEF SeenWell
  <2> QED
    BY <2>1
<1>2. sn2 \in [BoardItems -> Nat] /\ sn2[x] = n /\ \A i \in BoardItems : i # x => sn2[i] = sn[i]
  BY <1>1, <1>11
<1>3. x \in Reads!Blockers(E, pa[n])
  <2>2. n # 99
    OBVIOUS
  <2>3. <<x, n>> \in Q
    BY <1>10
  <2>1. <<x, n>> \in Q /\ n # 99
    BY <2>2, <2>3
  <2> QED
    BY <1>0, <2>1 DEF Framed
<1>4. /\ OnPath(E, q) /\ Len(q) = n + 1 /\ WalkTo(E, x, n)
      /\ q[n + 1] = x /\ \A k \in 1 .. n : q[k] = pa[k]
  <2>1. OnPath(E, pa) /\ x \in Reads!Blockers(E, pa[Len(pa)])
    BY <1>20, <1>0, <1>3
  <2>2. /\ OnPath(E, q) /\ Len(q) = Len(pa) + 1 /\ WalkTo(E, x, Len(pa))
        /\ q[Len(pa) + 1] = x /\ \A k \in 1 .. Len(pa) : q[k] = pa[k]
    <3>1. q = Append(pa, x)
      BY <1>11
    <3>2. Grown(E, pa, x, Append(pa, x))
      BY <2>1, PathGrown
    <3> QED
      BY <3>1, <3>2 DEF Grown
  <2> QED
    BY <1>20, <2>2
<1>5. n >= 1
  BY <1>20, <1>0 DEF OnPath
<1>6. Framed(E, Q2, q)
  <2>1. SUFFICES ASSUME NEW b \in BoardItems, NEW d \in Nat, <<b, d>> \in Q2, d # 99
                 PROVE  d \in 1 .. n + 1 /\ b \in Reads!Blockers(E, q[d])
    BY <1>4 DEF Framed
  <2>2. CASE <<b, d>> \in R
    <3>1. <<b, d>> \in Q
      BY <1>10, <2>2
    <3>2. d \in 1 .. n /\ b \in Reads!Blockers(E, pa[d])
      BY <1>20, <1>0, <2>1, <3>1 DEF Framed
    <3> QED
      BY <1>4, <3>2
  <2>3. CASE d = n + 1 /\ b \in Reads!Blockers(E, x)
    BY <1>4, <2>3
  <2> QED
    BY <1>10, <2>1, <2>2, <2>3
<1>7. SeenWell(E, sn2)
  <2>1. ASSUME NEW i \in BoardItems, sn2[i] # 98
        PROVE  sn2[i] <= MAX_BLOCKED_DEPTH /\ WalkTo(E, i, sn2[i])
    <3>1. CASE i = x
      BY <1>2, <1>4, <3>1
    <3>2. CASE i # x
      <4>1. sn2[i] = sn[i]
        BY <1>2, <3>2
      <4> QED
        BY <1>0, <2>1, <4>1 DEF SeenWell
    <3> QED
      BY <3>1, <3>2
  <2>2. sn2[0] = 0
    BY <1>1, <1>2, WalkLimits
  <2> QED
    BY <1>2, <2>1, <2>2 DEF SeenWell
<1>8. Pending(E, Q2, sn2, lim)
  <2>1. SUFFICES ASSUME NEW i \in BoardItems, sn2[i] # 98, NEW b \in Reads!Blockers(E, i)
                 PROVE  Owed(Q2, sn2, lim, i, b)
    BY DEF Pending
  <2>2. PICK v \in Nat : v = sn2[i]
    BY <1>2
  <2>3. b \in BoardItems
    BY WalkLimits
  <2>4. CASE i = x
    <3>1. v = n /\ <<b, n + 1>> \in Q2
      BY <1>2, <1>10, <2>1, <2>2, <2>4
    <3>2. n + 1 \in Nat /\ n + 1 <= v + 1
      BY <3>1
    <3> QED
      BY <2>2, <3>1, <3>2 DEF Owed
  <2>5. CASE i # x
    <3>1. v = sn[i] /\ sn[i] # 98
      BY <1>2, <2>1, <2>2, <2>5
    <3>2. Owed(Q, sn, lim, i, b)
      <4>1. \A j \in BoardItems : sn[j] # 98 => \A c \in Reads!Blockers(E, j) : Owed(Q, sn, lim, j, c)
        BY <1>0 DEF Pending
      <4> QED
        BY <2>1, <3>1, <4>1, Zenon
    <3>3. CASE sn[b] <= v + 1
      <4>1. sn[b] \in Nat /\ sn2[b] \in Nat
        BY <1>1, <1>2, <2>3
      <4>2. sn2[b] <= sn[b]
        BY <1>1, <1>2, <2>3, <4>1
      <4>3. sn2[b] <= v + 1
        BY <3>3, <4>1, <4>2
      <4> QED
        BY <2>2, <4>3 DEF Owed
    <3>4. CASE v >= lim
      BY <2>2, <3>4 DEF Owed
    <3>5. ASSUME NEW d \in Nat, <<b, d>> \in Q, d <= v + 1
          PROVE  Owed(Q2, sn2, lim, i, b)
      <4>1. CASE <<b, d>> \in R
        <5>1. <<b, d>> \in Q2
          BY <1>10, <4>1
        <5> QED
          BY <2>2, <3>5, <5>1 DEF Owed
      <4>2. CASE b = x /\ d = n
        <5>1. sn2[b] <= v + 1
          BY <1>2, <3>5, <4>2
        <5> QED
          BY <2>2, <5>1 DEF Owed
      <4> QED
        BY <1>10, <3>5, <4>1, <4>2
    <3> QED
      BY <3>1, <3>2, <3>3, <3>4, <3>5 DEF Owed
  <2> QED
    BY <2>4, <2>5
<1>9. ASSUME lim = 98
      PROVE  Clear(E, Q2, sn2, q)
  <2>1. PICK F : Settled(E, F) /\ Cleared(E, Q, sn, pa, F)
    BY <1>0, <1>9 DEF Clear
  <2>2. ASSUME NEW i \in BoardItems, sn2[i] # 98
        PROVE  i \in F \/ PathHas(q, i)
    <3>1. CASE i = x
      <4>1. n + 1 \in 1 .. Len(q)
        BY <1>4
      <4> QED
        BY <1>4, <3>1, <4>1 DEF PathHas
    <3>2. CASE i # x
      <4>1. i \in F \/ PathHas(pa, i)
        BY <1>2, <2>1, <2>2, <3>2 DEF Cleared
      <4>2. ASSUME NEW k \in 1 .. n, pa[k] = i
            PROVE  PathHas(q, i)
        <5>1. k \in 1 .. Len(q) /\ q[k] = i
          BY <1>4, <4>2
        <5> QED
          BY <5>1 DEF PathHas
      <4> QED
        BY <1>20, <4>1, <4>2 DEF PathHas
    <3> QED
      BY <3>1, <3>2
  <2>3. ASSUME NEW k \in 1 .. n + 1, NEW b \in Reads!Blockers(E, q[k])
        PROVE  b \in F \/ <<b, k>> \in Q2 \/ (k < n + 1 /\ b = q[k + 1])
    <3>1. CASE k = n + 1
      BY <1>4, <1>10, <2>3, <3>1
    <3>2. CASE k # n + 1
      <4>1. k \in 1 .. n /\ k < n + 1 /\ q[k] = pa[k]
        BY <1>4, <3>2
      <4>2. \A j \in 1 .. n : \A c \in Reads!Blockers(E, pa[j]) :
              c \in F \/ <<c, j>> \in Q \/ (j < n /\ c = pa[j + 1])
        BY <1>20, <2>1 DEF Cleared
      <4>3. b \in F \/ <<b, k>> \in Q \/ (k < n /\ b = pa[k + 1])
        BY <2>3, <4>1, <4>2
      <4>4. CASE <<b, k>> \in Q
        <5>1. CASE <<b, k>> \in R
          BY <1>10, <5>1
        <5>2. CASE b = x /\ k = n
          BY <1>4, <4>1, <5>2
        <5> QED
          BY <1>10, <4>4, <5>1, <5>2
      <4>5. CASE k < n /\ b = pa[k + 1]
        <5>1. k + 1 \in 1 .. n
          BY <4>1, <4>5
        <5> QED
          BY <1>4, <4>1, <4>5, <5>1
      <4> QED
        BY <4>3, <4>4, <4>5
    <3> QED
      BY <3>1, <3>2
  <2>4. Cleared(E, Q2, sn2, q, F)
    BY <1>4, <2>2, <2>3 DEF Cleared
  <2> QED
    BY <2>1, <2>4 DEF Clear
<1> QED
  BY <1>0, <1>4, <1>6, <1>7, <1>8, <1>9 DEF Walked

(* The walk begins with the root's blockers. *)
LEMMA WalkBegins ==
  ASSUME NEW E, NEW Q, NEW sn, NEW pa,
         pa = << 0 >>, sn = [i \in BoardItems |-> IF i = 0 THEN 0 ELSE 98],
         Q = {<<b, 1>> : b \in Reads!Blockers(E, 0)}
  PROVE  Walked(E, Q, sn, pa, 98)
<1>1. Len(pa) = 1 /\ pa[1] = 0 /\ pa \in Seq(BoardItems)
  BY WalkLimits
<1>2. OnPath(E, pa)
  BY <1>1 DEF OnPath
<1>3. sn \in [BoardItems -> Nat] /\ sn[0] = 0 /\ \A i \in BoardItems : sn[i] # 98 => i = 0
  BY WalkLimits
<1>4. Framed(E, Q, pa)
  BY <1>1 DEF Framed
<1>5. WalkTo(E, 0, 0)
  BY <1>1, <1>2 DEF WalkTo
<1>6. SeenWell(E, sn)
  BY <1>3, <1>5, WalkLimits DEF SeenWell
<1>7. Pending(E, Q, sn, 98)
  <2>1. SUFFICES ASSUME NEW i \in BoardItems, i = 0, NEW b \in Reads!Blockers(E, i)
                 PROVE  Owed(Q, sn, 98, i, b)
    BY <1>3 DEF Pending
  <2>2. <<b, 1>> \in Q /\ 1 <= sn[i] + 1
    BY <1>3, <2>1
  <2> QED
    BY <2>2 DEF Owed
<1>8. Settled(E, {})
  BY DEF Settled
<1>9. Cleared(E, Q, sn, pa, {})
  <2>1. \A i \in BoardItems : sn[i] # 98 => PathHas(pa, i)
    BY <1>1, <1>3 DEF PathHas
  <2>2. \A k \in 1 .. Len(pa) : \A b \in Reads!Blockers(E, pa[k]) : <<b, k>> \in Q
    BY <1>1
  <2> QED
    BY <2>1, <2>2 DEF Cleared
<1> QED
  BY <1>2, <1>4, <1>6, <1>7, <1>8, <1>9 DEF Walked, Clear

(* A walk of n edges ends where the items seen are at most n deep, unless   *)
(* it goes beyond the cap.                                                  *)
LEMMA WalksAreSeen ==
  ASSUME NEW E, NEW sn, SeenWell(E, sn), NEW lim, lim \in {MAX_BLOCKED_DEPTH, 98}, NEW Q, Q = {}, Pending(E, Q, sn, lim),
         NEW pa, OnPath(E, pa), NEW n \in Nat, Long(pa, n), n <= MAX_BLOCKED_DEPTH + 1
  PROVE  \A k \in 1 .. n : sn[pa[k]] # 98 /\ sn[pa[k]] <= k - 1
<1>0. Len(pa) = n /\ pa \in Seq(BoardItems) /\ pa[1] = 0
  BY DEF Long, OnPath
<1>1. sn \in [BoardItems -> Nat] /\ sn[0] = 0 /\ \A k \in 1 .. n : pa[k] \in BoardItems
  BY <1>0 DEF SeenWell
<1>2. DEFINE N == {k \in 1 .. n : ~(sn[pa[k]] # 98 /\ sn[pa[k]] <= k - 1)}
<1>3. SUFFICES ASSUME N # {} PROVE FALSE
  OBVIOUS
<1>4. PICK k \in N : \A j \in N : k <= j
  <2>1. N \subseteq Nat
    OBVIOUS
  <2> HIDE DEF N
  <2> QED
    BY <1>3, <2>1, LeastOf
<1>5. k \in 1 .. n /\ ~(sn[pa[k]] # 98 /\ sn[pa[k]] <= k - 1)
  BY <1>4
<1>6. k # 1
  BY <1>0, <1>1, <1>5
<1>7. PICK j \in 1 .. n : j = k - 1 /\ k = j + 1 /\ j \in 1 .. n - 1
  BY <1>5, <1>6
<1>8. j \notin N
  <2>1. ~(k <= j)
    BY <1>7
  <2> HIDE DEF N
  <2> QED
    BY <1>4, <2>1
<1>9. sn[pa[j]] # 98 /\ sn[pa[j]] <= j - 1
  BY <1>8
<1> HIDE DEF N
<1>10. PICK i \in BoardItems : i = pa[j]
  BY <1>1
<1>11. PICK b \in BoardItems : b = pa[k]
  BY <1>1, <1>5
<1>12. b \in Reads!Blockers(E, i)
  BY <1>0, <1>7, <1>10, <1>11 DEF OnPath
<1>13. Owed(Q, sn, lim, i, b)
  <2>1. \A h \in BoardItems : sn[h] # 98 => \A c \in Reads!Blockers(E, h) : Owed(Q, sn, lim, h, c)
    BY DEF Pending
  <2>2. sn[i] # 98
    BY <1>9, <1>10
  <2> QED
    BY <1>12, <2>1, <2>2
<1>14. PICK v \in Nat : v = sn[i]
  BY <1>1
<1>15. PICK w \in Nat : w = sn[b]
  BY <1>1
<1>16. v <= j - 1 /\ (w = 98 \/ ~(w <= k - 1))
  BY <1>5, <1>9, <1>10, <1>11, <1>14, <1>15
<1>17. w <= v + 1 \/ v >= lim
  BY <1>13, <1>14, <1>15 DEF Owed
<1>18. MAX_BLOCKED_DEPTH \in Nat /\ MAX_BLOCKED_DEPTH + 1 < 98
  BY WalkLimits
<1>19. ~(v >= lim)
  BY <1>7, <1>16, <1>18
<1> QED
  BY <1>7, <1>16, <1>17, <1>18, <1>19

LEMMA WalksAre ==
  ASSUME NEW n \in Nat, NEW p
  PROVE  p \in Reads!Walks(n) <=> OnPath(walkEdges, p) /\ Long(p, n + 1)
<1>1. ASSUME p \in Reads!Walks(n)
      PROVE  OnPath(walkEdges, p) /\ Long(p, n + 1)
  <2>1. p \in [1 .. n + 1 -> BoardItems] /\ p[1] = 0 /\ Reads!IsWalk(p)
    BY <1>1 DEF Reads!Walks
  <2>2. p \in Seq(BoardItems) /\ Len(p) = n + 1
    BY <2>1
  <2>3. ASSUME NEW k \in 1 .. Len(p) - 1
        PROVE  p[k + 1] \in Reads!Blockers(walkEdges, p[k])
    <3>1. <<p[k], p[k + 1]>> \in walkEdges
      BY <2>1 DEF Reads!IsWalk
    <3>2. p[k + 1] \in BoardItems
      BY <2>1, <2>2
    <3> QED
      BY <3>1, <3>2 DEF Reads!Blockers
  <2> QED
    BY <2>1, <2>2, <2>3 DEF OnPath, Long
<1>2. ASSUME OnPath(walkEdges, p), Long(p, n + 1)
      PROVE  p \in Reads!Walks(n)
  <2>1. p \in Seq(BoardItems) /\ p[1] = 0 /\ Len(p) = n + 1
    BY <1>2 DEF OnPath, Long
  <2>2. p \in [1 .. n + 1 -> BoardItems]
    BY <2>1
  <2>3. Reads!IsWalk(p)
    BY <1>2 DEF OnPath, Reads!IsWalk, Reads!Blockers
  <2> QED
    BY <2>1, <2>2, <2>3 DEF Reads!Walks
<1> QED
  BY <1>1, <1>2

(* A set that has the root and the blockers of its members has what every   *)
(* walk reaches.                                                            *)
LEMMA WalksStay ==
  ASSUME NEW E, NEW S, 0 \in S, \A i \in S : Reads!Blockers(E, i) \subseteq S,
         NEW i, NEW n \in Nat, WalkTo(E, i, n)
  PROVE  i \in S
<1>1. PICK pa : OnPath(E, pa) /\ Len(pa) = n + 1 /\ pa[n + 1] = i
  BY DEF WalkTo
<1>2. pa[1] = 0 /\ \A k \in 1 .. n : pa[k + 1] \in Reads!Blockers(E, pa[k])
  BY <1>1 DEF OnPath
<1> DEFINE N == {k \in 1 .. n + 1 : pa[k] \notin S}
<1>3. SUFFICES ASSUME N # {} PROVE FALSE
  BY <1>1
<1>4. PICK k \in N : \A j \in N : k <= j
  <2>1. N \subseteq Nat
    OBVIOUS
  <2> HIDE DEF N
  <2> QED
    BY <1>3, <2>1, LeastOf
<1>5. k \in 1 .. n + 1 /\ pa[k] \notin S
  BY <1>4
<1>6. k # 1
  BY <1>2, <1>5
<1>7. PICK j \in 1 .. n : j \in 1 .. n + 1 /\ k = j + 1 /\ ~(k <= j)
  BY <1>5, <1>6
<1>8. j \notin N
  <2> HIDE DEF N
  <2> QED
    BY <1>4, <1>7
<1>9. pa[j] \in S
  BY <1>7, <1>8
<1> HIDE DEF N
<1> QED
  BY <1>2, <1>5, <1>7, <1>9

SeenItems(sn) == {i \in BoardItems : sn[i] # 98}

(* The walk ends with all items within the cap; and uncapped, with all that *)
(* can be reached, without a cycle among it.                                *)
LEMMA WalkEnds ==
  ASSUME NEW Q, NEW sn, NEW pa, NEW lim, Walked(walkEdges, Q, sn, pa, lim), Q = {}, Long(pa, 1)
  PROVE  /\ SeenItems(sn) = Reads!Within(MAX_BLOCKED_DEPTH)
         /\ lim = 98 => SeenItems(sn) = Reads!Reachable /\ ~Reads!ReachableCycle
<1>0. /\ OnPath(walkEdges, pa) /\ SeenWell(walkEdges, sn)
      /\ Pending(walkEdges, Q, sn, lim) /\ lim \in {MAX_BLOCKED_DEPTH, 98}
      /\ lim = 98 => Clear(walkEdges, Q, sn, pa)
  BY DEF Walked
<1>1. MAX_BLOCKED_DEPTH \in Nat /\ MAX_BLOCKED_DEPTH + 1 < 98 /\ 0 \in BoardItems
  BY WalkLimits
<1>2. sn \in [BoardItems -> Nat] /\ sn[0] = 0
  BY <1>0 DEF SeenWell
<1>3. ASSUME NEW i \in SeenItems(sn)
      PROVE  i \in Reads!Within(MAX_BLOCKED_DEPTH)
  <2>1. PICK n \in Nat : n = sn[i] /\ n <= MAX_BLOCKED_DEPTH /\ WalkTo(walkEdges, i, n)
    BY <1>0, <1>2 DEF SeenItems, SeenWell
  <2>2. PICK p : OnPath(walkEdges, p) /\ Len(p) = n + 1 /\ p[n + 1] = i
    BY <2>1 DEF WalkTo
  <2>3. p \in Reads!Walks(n)
    BY <2>2, WalksAre DEF Long
  <2>4. n \in 0 .. MAX_BLOCKED_DEPTH
    BY <1>1, <2>1
  <2>5. i \in {r[n + 1] : r \in Reads!Walks(n)}
    BY <2>2, <2>3
  <2> QED
    BY <2>4, <2>5 DEF Reads!Within
<1>4. ASSUME NEW i \in Reads!Within(MAX_BLOCKED_DEPTH)
      PROVE  i \in SeenItems(sn)
  <2>1. PICK n \in 0 .. MAX_BLOCKED_DEPTH : i \in {r[n + 1] : r \in Reads!Walks(n)}
    BY <1>4 DEF Reads!Within
  <2>2. PICK p \in Reads!Walks(n) : i = p[n + 1]
    BY <2>1
  <2>3. n \in Nat /\ n + 1 \in Nat /\ n + 1 <= MAX_BLOCKED_DEPTH + 1 /\ n + 1 \in 1 .. n + 1
    BY <1>1
  <2>4. OnPath(walkEdges, p) /\ Long(p, n + 1)
    BY <2>2, <2>3, WalksAre
  <2>5. \A k \in 1 .. n + 1 : sn[p[k]] # 98
    BY <1>0, <2>3, <2>4, WalksAreSeen
  <2>6. p[n + 1] \in BoardItems
    BY <2>3, <2>4 DEF OnPath, Long
  <2> QED
    BY <2>2, <2>3, <2>5, <2>6 DEF SeenItems
<1>5. ASSUME lim = 98
      PROVE  SeenItems(sn) = Reads!Reachable /\ ~Reads!ReachableCycle
  <2>1. Reads!Closed(SeenItems(sn))
    <3>1. ASSUME NEW i \in SeenItems(sn), NEW b \in Reads!Blockers(walkEdges, i)
          PROVE  b \in SeenItems(sn)
      <4>1. i \in BoardItems /\ sn[i] # 98 /\ b \in BoardItems
        BY <3>1, WalkLimits DEF SeenItems
      <4>2. Owed(Q, sn, lim, i, b)
        <5>1. \A h \in BoardItems : sn[h] # 98 => \A c \in Reads!Blockers(walkEdges, h) : Owed(Q, sn, lim, h, c)
          BY <1>0 DEF Pending
        <5> QED
          BY <3>1, <4>1, <5>1
      <4>3. PICK v \in Nat : v = sn[i] /\ v <= MAX_BLOCKED_DEPTH
        BY <1>0, <1>2, <4>1 DEF SeenWell
      <4>4. PICK w \in Nat : w = sn[b]
        BY <1>2, <4>1
      <4>5. w <= v + 1 \/ v >= 98
        BY <1>5, <4>2, <4>3, <4>4 DEF Owed
      <4>6. w # 98
        BY <1>1, <4>3, <4>5
      <4> QED
        BY <4>1, <4>4, <4>6 DEF SeenItems
    <3>2. 0 \in SeenItems(sn)
      BY <1>1, <1>2 DEF SeenItems
    <3> QED
      BY <3>1, <3>2 DEF Reads!Closed, Reads!DirectBlockers
  <2>2. Reads!Reachable \subseteq SeenItems(sn)
    BY <2>1 DEF Reads!Reachable, SeenItems
  <2>3. ASSUME NEW i \in SeenItems(sn)
        PROVE  i \in Reads!Reachable
    <3>1. PICK n \in Nat : n = sn[i] /\ WalkTo(walkEdges, i, n)
      BY <1>0, <1>2 DEF SeenItems, SeenWell
    <3>2. ASSUME NEW S \in SUBSET BoardItems, Reads!Closed(S)
          PROVE  i \in S
      <4>1. 0 \in S /\ \A j \in S : Reads!Blockers(walkEdges, j) \subseteq S
        BY <3>2 DEF Reads!Closed, Reads!DirectBlockers
      <4> QED
        BY <3>1, <4>1, WalksStay
    <3>3. i \in BoardItems
      BY DEF SeenItems
    <3> QED
      BY <3>2, <3>3 DEF Reads!Reachable
  <2>4. PICK F : Settled(walkEdges, F) /\ Cleared(walkEdges, Q, sn, pa, F)
    BY <1>0, <1>5 DEF Clear
  <2>5. Len(pa) = 1 /\ pa[1] = 0
    BY <1>0 DEF Long, OnPath
  <2>6. Reads!Blockers(walkEdges, 0) \subseteq F
    BY <2>4, <2>5 DEF Cleared
  <2>7. PICK G : G = F \cup {0}
    OBVIOUS
  <2>8. Settled(walkEdges, G)
    BY <1>1, <2>4, <2>6, <2>7, OneMoreSettled
  <2>9. Reads!Reachable \subseteq G
    BY <2>7, <2>8 DEF Reads!Reachable, Settled, Reads!Closed, Reads!DirectBlockers
  <2>10. ~Reads!ReachableCycle
    <3>1. SUFFICES ASSUME NEW S \in SUBSET Reads!Reachable, S # {},
                          \A i \in S : Reads!Blockers(walkEdges, i) \cap S # {}
                   PROVE  FALSE
      BY DEF Reads!ReachableCycle, Reads!DirectBlockers
    <3>2. S \in SUBSET G
      BY <2>9
    <3> QED
      BY <2>8, <3>1, <3>2 DEF Settled
  <2> QED
    BY <2>2, <2>3, <2>10
<1> QED
  BY <1>3, <1>4, <1>5

Midway(E, st, sn, pa, fo, lim) ==
  /\ st \in Seq(AllFrames) /\ Len(pa) <= MAX_BLOCKED_DEPTH + 1 /\ Nested(st, Len(pa))
  /\ Walked(E, On(st), sn, pa, lim) /\ fo = SeenItems(sn) \ {0}

LEMMA MidwayHas ==
  ASSUME NEW E, NEW st, NEW sn, NEW pa, NEW fo, NEW lim, Midway(E, st, sn, pa, fo, lim), st # <<>>
  PROVE  \E n \in Nat, x \in BoardItems, d \in Nat :
           /\ n >= 1 /\ n <= MAX_BLOCKED_DEPTH + 1 /\ n < 98 /\ Long(pa, n) /\ Nested(st, n) /\ OnPath(E, pa)
           /\ st[1] = <<x, d>> /\ On(st) = {<<x, d>>} \cup On(Tail(st)) /\ Tail(st) \in Seq(AllFrames)
           /\ d # Reads!EXIT => d = n /\ Nested(Tail(st), n)
           /\ d = Reads!EXIT => n >= 2 /\ Nested(Tail(st), n - 1)
<1>1. st \in Seq(AllFrames) /\ Len(pa) <= MAX_BLOCKED_DEPTH + 1 /\ Nested(st, Len(pa)) /\ OnPath(E, pa)
  BY DEF Midway, Walked
<1>2. PICK n \in Nat : n = Len(pa) /\ n >= 1
  BY <1>1 DEF OnPath
<1>3. n <= MAX_BLOCKED_DEPTH + 1 /\ n < 98
  BY <1>1, <1>2, WalkLimits
<1>4. On(st) = {st[1]} \cup On(Tail(st)) /\ st[1] \in AllFrames /\ Tail(st) \in Seq(AllFrames)
  BY <1>1, OnTail
<1>5. PICK x \in BoardItems, d \in Nat : st[1] = <<x, d>>
  BY <1>4 DEF AllFrames
<1>6. st[1][2] = d
  BY <1>5
<1>7. st \in Seq(BoardItems \X Nat) /\ Nested(st, n)
  BY <1>1, <1>2 DEF AllFrames
<1>8. ASSUME d # Reads!EXIT
      PROVE  d = n /\ Nested(Tail(st), n)
  <2>1. st[1][2] # Reads!EXIT
    BY <1>6, <1>8
  <2>2. st[1][2] = n /\ Nested(Tail(st), n)
    BY <1>2, <1>7, <2>1, FrameOnTop
  <2> QED
    BY <1>6, <2>2
<1>9. ASSUME d = Reads!EXIT
      PROVE  n >= 2 /\ Nested(Tail(st), n - 1)
  <2>1. st[1][2] = Reads!EXIT
    BY <1>6, <1>9
  <2> QED
    BY <1>2, <1>7, <2>1, ExitOnTop
<1>10. Long(pa, n) /\ On(st) = {<<x, d>>} \cup On(Tail(st))
  BY <1>2, <1>4, <1>5 DEF Long
<1> QED
  BY <1>1, <1>2, <1>3, <1>4, <1>5, <1>7, <1>8, <1>9, <1>10

LEMMA PathStepBack ==
  ASSUME NEW E, NEW st, NEW sn, NEW pa, NEW fo, NEW lim, Midway(E, st, sn, pa, fo, lim), st # <<>>,
         st[1][2] = Reads!EXIT
  PROVE  Midway(E, Tail(st), sn, Reads!Front(pa), fo, lim)
<1>1. PICK n \in Nat, x \in BoardItems, d \in Nat :
           /\ n >= 1 /\ n <= MAX_BLOCKED_DEPTH + 1 /\ n < 98 /\ Long(pa, n) /\ Nested(st, n) /\ OnPath(E, pa)
           /\ st[1] = <<x, d>> /\ On(st) = {<<x, d>>} \cup On(Tail(st)) /\ Tail(st) \in Seq(AllFrames)
           /\ d # Reads!EXIT => d = n /\ Nested(Tail(st), n)
           /\ d = Reads!EXIT => n >= 2 /\ Nested(Tail(st), n - 1)
  BY MidwayHas
<1>2. d = Reads!EXIT /\ d = 99 /\ n >= 2
  BY <1>1, WalkLimits
<1>3. PICK t : t = Tail(st)
  OBVIOUS
<1>4. PICK q : q = Reads!Front(pa)
  OBVIOUS
<1>5. t \in Seq(AllFrames) /\ Nested(t, n - 1) /\ On(st) = {<<x, 99>>} \cup On(t)
  BY <1>1, <1>2, <1>3
<1>6. Shallower(On(t), n - 1)
  <2>1. SUFFICES ASSUME NEW b \in BoardItems, NEW e \in Nat, <<b, e>> \in On(t), e # 99
                 PROVE  e \in 1 .. n - 1
    BY DEF Shallower
  <2>2. n - 1 \in Nat /\ e # Reads!EXIT
    BY <1>2, <2>1
  <2> QED
    BY <1>5, <2>1, <2>2, DepthsNest
<1>7. Walked(E, On(st), sn, pa, lim)
  BY DEF Midway
<1>8. Walked(E, On(t), sn, q, lim)
  BY <1>1, <1>2, <1>4, <1>5, <1>6, <1>7, ItemDone
<1>9. Len(q) = n - 1
  <2>1. Len(pa) >= 2 /\ Len(pa) = n
    BY <1>1, <1>2 DEF Long
  <2>2. Len(q) = Len(pa) - 1
    BY <1>1, <1>4, <2>1, PathPopped
  <2> QED
    BY <2>1, <2>2
<1>10. n - 1 <= MAX_BLOCKED_DEPTH + 1
  BY <1>1, WalkLimits
<1> QED
  BY <1>3, <1>4, <1>5, <1>8, <1>9, <1>10 DEF Midway

LEMMA FrameTaken ==
  ASSUME NEW E, NEW st, NEW sn, NEW pa, NEW fo, NEW lim, NEW lim2, Midway(E, st, sn, pa, fo, lim), st # <<>>,
         st[1][2] # Reads!EXIT,
         \/ sn[st[1][1]] <= st[1][2] /\ lim2 = lim /\ ~PathHas(pa, st[1][1])
         \/ st[1][2] > MAX_BLOCKED_DEPTH /\ lim2 = MAX_BLOCKED_DEPTH
  PROVE  Midway(E, Tail(st), sn, pa, fo, lim2)
<1>1. PICK n \in Nat, x \in BoardItems, d \in Nat :
           /\ n >= 1 /\ n <= MAX_BLOCKED_DEPTH + 1 /\ n < 98 /\ Long(pa, n) /\ Nested(st, n) /\ OnPath(E, pa)
           /\ st[1] = <<x, d>> /\ On(st) = {<<x, d>>} \cup On(Tail(st)) /\ Tail(st) \in Seq(AllFrames)
           /\ d # Reads!EXIT => d = n /\ Nested(Tail(st), n)
           /\ d = Reads!EXIT => n >= 2 /\ Nested(Tail(st), n - 1)
  BY MidwayHas
<1>2. d = n /\ st[1][1] = x /\ st[1][2] = n
  BY <1>1
<1>3. PICK t : t = Tail(st)
  OBVIOUS
<1>4. t \in Seq(AllFrames) /\ Nested(t, n) /\ On(st) = {<<x, n>>} \cup On(t) /\ Len(pa) = n /\ n < 98
  BY <1>1, <1>2, <1>3 DEF Long
<1>5. Walked(E, On(st), sn, pa, lim)
  BY DEF Midway
<1>6. \/ sn[x] <= n /\ lim2 = lim /\ ~PathHas(pa, x)
      \/ n > MAX_BLOCKED_DEPTH /\ lim2 = MAX_BLOCKED_DEPTH
  BY <1>2
<1>7. Walked(E, On(t), sn, pa, lim2)
  BY <1>4, <1>5, <1>6, FrameDropped
<1> QED
  BY <1>3, <1>4, <1>7 DEF Midway

LEMMA ItemExpanded ==
  ASSUME NEW st, NEW sn, NEW pa, NEW fo, NEW lim, Midway(walkEdges, st, sn, pa, fo, lim), st # <<>>,
         NEW x, NEW d, st[1] = <<x, d>>, d # Reads!EXIT, ~(sn[x] <= d), d <= MAX_BLOCKED_DEPTH
  PROVE  Midway(walkEdges, Reads!Frames(x, d + 1) \o <<<<x, Reads!EXIT>>>> \o Tail(st),
                [sn EXCEPT ![x] = d], Append(pa, x), fo \cup {x}, lim)
<1>1. PICK n \in Nat, y \in BoardItems, e \in Nat :
           /\ n >= 1 /\ n <= MAX_BLOCKED_DEPTH + 1 /\ n < 98 /\ Long(pa, n) /\ Nested(st, n) /\ OnPath(walkEdges, pa)
           /\ st[1] = <<y, e>> /\ On(st) = {<<y, e>>} \cup On(Tail(st)) /\ Tail(st) \in Seq(AllFrames)
           /\ e # Reads!EXIT => e = n /\ Nested(Tail(st), n)
           /\ e = Reads!EXIT => n >= 2 /\ Nested(Tail(st), n - 1)
  BY MidwayHas
<1>2. d = n /\ x \in BoardItems /\ n <= MAX_BLOCKED_DEPTH /\ ~(sn[x] <= n) /\ x = y /\ e = n
  BY <1>1
<1>3. PICK t : t = Tail(st)
  OBVIOUS
<1>4. PICK fr : fr = Reads!Frames(x, n + 1)
  OBVIOUS
<1>5. PICK f \in AllFrames : f = <<x, Reads!EXIT>> /\ f = <<x, 99>>
  BY <1>2, WalkLimits DEF AllFrames
<1>6. PICK r : r = fr \o <<f>> \o t
  OBVIOUS
<1>7. PICK q : q = Append(pa, x)
  OBVIOUS
<1>8. PICK sn2 : sn2 = [sn EXCEPT ![x] = n]
  OBVIOUS
<1>9. t \in Seq(AllFrames) /\ Nested(t, n) /\ On(st) = {<<x, n>>} \cup On(t)
  BY <1>1, <1>2, <1>3
<1>10. /\ fr \in Seq(AllFrames) /\ AllAt(fr, n + 1)
       /\ On(fr) = {<<b, n + 1>> : b \in Reads!Blockers(walkEdges, x)}
  <2>1. n + 1 \in Nat
    OBVIOUS
  <2> QED
    BY <1>4, <2>1, OnFrames
<1>11. Pushed(r, fr, f, t) /\ Pushed(r, fr, <<x, Reads!EXIT>>, t)
  BY <1>5, <1>6 DEF Pushed
<1>12. r \in Seq(AllFrames) /\ On(r) = On(fr) \cup {f} \cup On(t)
  BY <1>9, <1>10, <1>11, OnPushed
<1>13. Nested(r, n + 1)
  BY <1>1, <1>2, <1>9, <1>10, <1>11, FramesPushed
<1>14. Reaching(walkEdges, On(st), On(t), On(r), sn, sn2, pa, q, x, n)
  BY <1>5, <1>7, <1>8, <1>9, <1>10, <1>12 DEF Reaching
<1>15. Walked(walkEdges, On(st), sn, pa, lim)
  BY DEF Midway
<1>16. Walked(walkEdges, On(r), sn2, q, lim)
  BY <1>1, <1>2, <1>14, <1>15, ItemReached
<1>17. Len(q) = n + 1 /\ n + 1 <= MAX_BLOCKED_DEPTH + 1
  <2>1. pa \in Seq(BoardItems) /\ Len(pa) = n
    BY <1>1 DEF OnPath, Long
  <2> QED
    BY <1>2, <1>7, <2>1, WalkLimits
<1>18. fo \cup {x} = SeenItems(sn2) \ {0}
  <2>1. fo = SeenItems(sn) \ {0} /\ sn \in [BoardItems -> Nat] /\ sn[0] = 0
    BY <1>15 DEF Midway, Walked, SeenWell
  <2>2. x # 0 /\ n # 98
    BY <1>1, <1>2, <2>1
  <2>3. \A i \in BoardItems : sn2[i] = IF i = x THEN n ELSE sn[i]
    BY <1>2, <1>8, <2>1
  <2> QED
    BY <1>2, <2>1, <2>2, <2>3 DEF SeenItems
<1>19. Midway(walkEdges, r, sn2, q, fo \cup {x}, lim)
  BY <1>12, <1>13, <1>16, <1>17, <1>18 DEF Midway
<1> QED
  BY <1>2, <1>3, <1>4, <1>5, <1>6, <1>7, <1>8, <1>19

(* What holds at every step of a query. *)
Lim == IF depth_capped THEN MAX_BLOCKED_DEPTH ELSE 98
WalkFresh ==
  /\ walkSeen = [i \in BoardItems |-> IF i = 0 THEN 0 ELSE Reads!Unseen] /\ path = <<0>>
  /\ walkFound = {} /\ cycle = Reads!NoCycle /\ depth_capped = FALSE
CycleReal ==
  /\ Reads!IsWalk(Append(cycle.path, cycle.item))
  /\ cycle.path[1] = 0 /\ Reads!Contains(cycle.path, cycle.item)
WalkMidway ==
  /\ Midway(walkEdges, stack, walkSeen, path, walkFound, Lim)
  /\ walkPc # "walk" => stack = <<>>
WalkInv ==
  /\ mode \in Reads!Modes /\ matches \subseteq BoardItems
  /\ walkPc \in {"begin", "edges", "fields"} => WalkFresh
  /\ walkPc = "walk" => mode = "blocked-by" /\ cycle = Reads!NoCycle
  /\ walkPc \in {"walk", "project", "answered"} /\ mode = "blocked-by" /\ cycle = Reads!NoCycle => WalkMidway
  /\ cycle # Reads!NoCycle => CycleReal
  /\ mode = "search" /\ walkPc = "answered" => answer = Reads!Kept
  /\ mode = "blocked-by" /\ walkPc = "answered" => answer \subseteq walkFound

LEMMA WalkInitially ==
  ASSUME Reads!WalkInit
  PROVE  WalkInv
BY DEF Reads!WalkInit, WalkInv, WalkFresh

LEMMA KeptAreFew ==
  ASSUME matches \subseteq BoardItems
  PROVE  /\ Cardinality(Reads!Kept) <= MAX_RESULT_ITEMS
         /\ Cardinality(matches) <= MAX_RESULT_ITEMS => Reads!Kept = matches
<1>1. IsFiniteSet(BoardItems) /\ BoardItems \subseteq Nat /\ MAX_RESULT_ITEMS \in Nat
  BY WalkLimits
<1>2. PICK M : M = matches
  OBVIOUS
<1>3. PICK K : K = Reads!Kept
  OBVIOUS
<1>4. K = {i \in M : Cardinality({j \in M : j < i}) < MAX_RESULT_ITEMS}
  BY <1>2, <1>3, ReadsCount DEF Reads!Kept
<1>5. IsFiniteSet(M) /\ M \subseteq Nat /\ K \subseteq M /\ IsFiniteSet(K) /\ K \subseteq Nat
  BY <1>1, <1>2, <1>4, FS_Subset
<1>6. Cardinality(M) \in Nat /\ Cardinality(K) \in Nat
  BY <1>5, FS_CardinalityType
<1>7. Cardinality(K) <= MAX_RESULT_ITEMS
  <2>1. CASE K = {}
    BY <1>1, <2>1, FS_EmptySet
  <2>2. CASE K # {}
    <3>1. PICK m \in K : \A k \in K : k <= m
      <4>1. PICK n \in Nat : n = Cardinality(K)
        BY <1>6
      <4>2. PICK s : s = Reads!Sorted(K)
        OBVIOUS
      <4>3. /\ s \in [1 .. n -> K] /\ \A b \in K : \E k \in 1 .. n : s[k] = b
            /\ \A j, k \in 1 .. n : j < k => s[j] > s[k]
        BY <1>5, <4>1, <4>2, SortedLists
      <4>4. n # 0
        BY <1>5, <2>2, <4>1, FS_EmptySet
      <4>5. 1 \in 1 .. n /\ s[1] \in K /\ s[1] \in Nat
        <5>1. 1 \in 1 .. n
          BY <4>4
        <5>2. s[1] \in K
          BY <4>3, <5>1
        <5> QED
          BY <1>5, <5>1, <5>2
      <4>6. ASSUME NEW b \in K PROVE b <= s[1]
        <5>1. PICK k \in 1 .. n : s[k] = b
          BY <4>3
        <5>2. b \in Nat
          BY <1>5
        <5>3. CASE k = 1
          BY <4>5, <5>1, <5>3
        <5>4. CASE k # 1
          <6>1. 1 < k
            BY <5>4
          <6>2. s[1] > s[k]
            BY <4>3, <4>5, <6>1
          <6> QED
            BY <4>5, <5>1, <5>2, <6>2
        <5> QED
          BY <5>3, <5>4
      <4> QED
        BY <4>5, <4>6
    <3>2. PICK D : D = {j \in M : j < m}
      OBVIOUS
    <3>3. IsFiniteSet(D) /\ Cardinality(D) \in Nat /\ Cardinality(D) < MAX_RESULT_ITEMS
      BY <1>4, <1>5, <3>1, <3>2, FS_Subset, FS_CardinalityType
    <3>4. K \ {m} \subseteq D
      BY <1>5, <3>1, <3>2
    <3>5. Cardinality(K \ {m}) = Cardinality(K) - 1
      BY <1>5, <3>1, FS_RemoveElement
    <3>6. Cardinality(K \ {m}) <= Cardinality(D)
      BY <3>3, <3>4, FS_Subset
    <3> QED
      BY <1>1, <1>6, <3>3, <3>5, <3>6
  <2> QED
    BY <2>1, <2>2
<1>8. ASSUME Cardinality(M) <= MAX_RESULT_ITEMS, NEW i \in M
      PROVE  i \in K
  <2>1. PICK D : D = {j \in M : j < i}
    OBVIOUS
  <2>2. i \in Nat /\ D \subseteq M /\ i \notin D
    BY <1>5, <2>1
  <2>3. Cardinality(D) \in Nat /\ Cardinality(D) < Cardinality(M)
    <3>1. D \subseteq M \ {i} /\ IsFiniteSet(M \ {i}) /\ IsFiniteSet(D)
      BY <1>5, <2>2, FS_Subset
    <3>2. Cardinality(M \ {i}) = Cardinality(M) - 1
      BY <1>5, <1>8, FS_RemoveElement
    <3>3. Cardinality(D) <= Cardinality(M \ {i}) /\ Cardinality(D) \in Nat
      BY <3>1, FS_Subset, FS_CardinalityType
    <3> QED
      BY <1>6, <3>2, <3>3
  <2>4. Cardinality(D) < MAX_RESULT_ITEMS
    BY <1>1, <1>6, <1>8, <2>3
  <2> QED
    BY <1>4, <1>8, <2>1, <2>4
<1> QED
  BY <1>2, <1>3, <1>5, <1>7, <1>8

LEMMA WalkHolds ==
  ASSUME WalkInv
  PROVE  Reads!BlockersComplete
<1>1. SUFFICES ASSUME walkPc \in {"project", "answered"}
               PROVE  /\ mode = "blocked-by" =>
                           /\ cycle # Reads!NoCycle => CycleReal
                           /\ cycle = Reads!NoCycle => walkFound = Reads!Within(MAX_BLOCKED_DEPTH) \ {0}
                           /\ cycle = Reads!NoCycle /\ ~depth_capped =>
                                walkFound = Reads!Reachable \ {0} /\ ~Reads!ReachableCycle
                           /\ walkPc = "answered" => answer \subseteq walkFound
                      /\ mode = "search" /\ walkPc = "answered" =>
                           /\ Reads!Cardinality(answer) <= MAX_RESULT_ITEMS
                           /\ Reads!Cardinality(matches) <= MAX_RESULT_ITEMS => answer = matches
  BY DEF Reads!BlockersComplete, CycleReal
<1>2. ASSUME mode = "blocked-by", cycle = Reads!NoCycle
      PROVE  /\ walkFound = Reads!Within(MAX_BLOCKED_DEPTH) \ {0}
             /\ ~depth_capped => walkFound = Reads!Reachable \ {0} /\ ~Reads!ReachableCycle
  <2>1. Midway(walkEdges, stack, walkSeen, path, walkFound, Lim) /\ stack = <<>>
    BY <1>1, <1>2 DEF WalkInv, WalkMidway
  <2>2. /\ Walked(walkEdges, On(stack), walkSeen, path, Lim) /\ walkFound = SeenItems(walkSeen) \ {0}
        /\ Nested(<<>>, Len(path))
    BY <2>1 DEF Midway
  <2>3. PICK n \in Nat : n = Len(path) /\ n >= 1
    BY <2>2 DEF Walked, OnPath
  <2>4. Long(path, 1)
    BY <2>2, <2>3, NothingNested DEF Long
  <2>5. On(stack) = {}
    BY <2>1 DEF On
  <2>6. /\ SeenItems(walkSeen) = Reads!Within(MAX_BLOCKED_DEPTH)
        /\ Lim = 98 => SeenItems(walkSeen) = Reads!Reachable /\ ~Reads!ReachableCycle
    BY <2>2, <2>4, <2>5, WalkEnds
  <2>7. ~depth_capped => Lim = 98
    BY DEF Lim
  <2> QED
    BY <2>2, <2>6, <2>7
<1>3. ASSUME mode = "search", walkPc = "answered"
      PROVE  /\ Reads!Cardinality(answer) <= MAX_RESULT_ITEMS
             /\ Reads!Cardinality(matches) <= MAX_RESULT_ITEMS => answer = matches
  <2>1. answer = Reads!Kept /\ matches \subseteq BoardItems
    BY <1>3 DEF WalkInv
  <2> QED
    BY <2>1, KeptAreFew, ReadsCount
<1>4. /\ cycle # Reads!NoCycle => CycleReal
      /\ mode = "blocked-by" /\ walkPc = "answered" => answer \subseteq walkFound
  BY DEF WalkInv
<1> QED
  BY <1>2, <1>3, <1>4

LEMMA FramesOfRoot ==
  ASSUME NEW fr \in Seq(AllFrames), AllAt(fr, 1)
  PROVE  Nested(fr, 1)
<1>1. PICK l \in Nat : l = Len(fr)
  OBVIOUS
<1>2. PICK lev : lev = [p \in 1 .. l |-> 2]
  OBVIOUS
<1>3. lev \in [1 .. l -> Nat] /\ \A p \in 1 .. l : lev[p] = 2 /\ fr[p][2] = 1
  BY <1>1, <1>2 DEF AllAt
<1>4. Reads!EXIT # 1 /\ \A k : k \notin 2 .. 1
  BY WalkLimits
<1>5. Levels(lev, fr, 1)
  BY <1>1, <1>3, <1>4 DEF Levels
<1> QED
  BY <1>1, <1>3, <1>5 DEF Nested

LEMMA WalkStep ==
  ASSUME WalkInv, [Reads!WalkNext]_Reads!walkVars
  PROVE  WalkInv'
<1> USE DEF Reads!query, Reads!walk
<1>0. /\ mode \in Reads!Modes /\ matches \subseteq BoardItems
      /\ walkPc \in {"begin", "edges", "fields"} => WalkFresh
      /\ walkPc = "walk" => mode = "blocked-by" /\ cycle = Reads!NoCycle
      /\ walkPc \in {"walk", "project", "answered"} /\ mode = "blocked-by" /\ cycle = Reads!NoCycle => WalkMidway
      /\ cycle # Reads!NoCycle => CycleReal
      /\ mode = "search" /\ walkPc = "answered" => answer = Reads!Kept
      /\ mode = "blocked-by" /\ walkPc = "answered" => answer \subseteq walkFound
  BY DEF WalkInv
<1>1. ASSUME UNCHANGED <<walkEdges, cycle>>
      PROVE  (cycle # Reads!NoCycle => CycleReal)'
  BY <1>0, <1>1 DEF CycleReal, Reads!IsWalk, Reads!Contains, Reads!NoCycle
<1>2. CASE Reads!QueryFails
  <2>1. (cycle # Reads!NoCycle => CycleReal)'
    BY <1>1, <1>2 DEF Reads!QueryFails
  <2> QED
    BY <1>0, <1>2, <2>1 DEF Reads!QueryFails, WalkInv
<1>3. CASE Reads!Search \/ Reads!LookUpRoot
  <2>1. (cycle # Reads!NoCycle => CycleReal)'
    BY <1>1, <1>3 DEF Reads!Search, Reads!LookUpRoot
  <2>2. walkPc = "begin" /\ walkPc' = "edges" /\ mode' = mode /\ matches' \subseteq BoardItems
    BY <1>0, <1>3 DEF Reads!Search, Reads!LookUpRoot, Reads!Filtered
  <2>3. WalkFresh'
    BY <1>0, <1>3 DEF Reads!Search, Reads!LookUpRoot, WalkFresh
  <2> QED
    BY <1>0, <2>1, <2>2, <2>3 DEF WalkInv
<1>4. CASE Reads!ReadEdges
  <2>1. walkPc = "edges" /\ walkPc' = "fields" /\ mode' = mode /\ matches' = matches
    BY <1>4 DEF Reads!ReadEdges
  <2>2. WalkFresh'
    BY <1>0, <1>4 DEF Reads!ReadEdges, WalkFresh
  <2>3. cycle' = Reads!NoCycle
    BY <2>2 DEF WalkFresh, Reads!NoCycle
  <2> QED
    BY <1>0, <2>1, <2>2, <2>3 DEF WalkInv, Reads!NoCycle
<1>5. CASE Reads!ReadFields
  <2>1. walkPc = "fields" /\ WalkFresh /\ mode' = mode /\ matches' = matches /\ cycle' = cycle /\ walkEdges' = walkEdges
    BY <1>0, <1>5 DEF Reads!ReadFields
  <2>2. (cycle # Reads!NoCycle => CycleReal)'
    BY <1>1, <2>1
  <2>3. CASE mode = "search"
    <3>1. walkPc' = "project"
      BY <1>5, <2>3 DEF Reads!ReadFields
    <3> QED
      BY <1>0, <2>1, <2>2, <2>3, <3>1 DEF WalkInv
  <2>4. CASE mode # "search"
    <3>1. mode = "blocked-by" /\ walkPc' = "walk" /\ stack' = Reads!Frames(0, 1)
      BY <1>0, <1>5, <2>4 DEF Reads!ReadFields, Reads!Modes
    <3>2. cycle' = Reads!NoCycle /\ depth_capped' = FALSE /\ Lim' = 98
      BY <1>5, <2>1 DEF Reads!ReadFields, WalkFresh, Lim
    <3>3. PICK fr : fr = Reads!Frames(0, 1)
      OBVIOUS
    <3>4. fr \in Seq(AllFrames) /\ AllAt(fr, 1) /\ On(fr) = {<<b, 1>> : b \in Reads!Blockers(walkEdges, 0)}
      BY <3>3, OnFrames
    <3>5. /\ walkSeen = [i \in BoardItems |-> IF i = 0 THEN 0 ELSE 98] /\ path = <<0>> /\ walkFound = {}
          /\ walkSeen' = walkSeen /\ path' = path /\ walkFound' = walkFound
      BY <1>5, <2>1, WalkLimits DEF Reads!ReadFields, WalkFresh
    <3>6. Walked(walkEdges, On(fr), walkSeen, path, 98)
      BY <3>4, <3>5, WalkBegins
    <3>7. Nested(fr, 1)
      BY <3>4, FramesOfRoot
    <3>8. Len(path) = 1 /\ 1 <= MAX_BLOCKED_DEPTH + 1
      BY <3>5, WalkLimits
    <3>9. walkFound = SeenItems(walkSeen) \ {0}
      BY <3>5 DEF SeenItems
    <3>10. Midway(walkEdges, fr, walkSeen, path, walkFound, 98)
      BY <3>4, <3>6, <3>7, <3>8, <3>9 DEF Midway
    <3>11. WalkMidway'
      BY <2>1, <3>1, <3>2, <3>3, <3>5, <3>10 DEF WalkMidway
    <3> QED
      BY <1>0, <2>1, <2>2, <3>1, <3>2, <3>11 DEF WalkInv, Reads!NoCycle
  <2> QED
    BY <2>3, <2>4
<1>6. ASSUME Reads!PopPath \/ Reads!SkipSeen \/ Reads!CapDepth \/ Reads!Expand, cycle' = Reads!NoCycle
      PROVE  WalkInv'
  <2>1. /\ walkPc = "walk" /\ mode = "blocked-by" /\ cycle = Reads!NoCycle /\ stack # <<>>
        /\ Midway(walkEdges, stack, walkSeen, path, walkFound, Lim)
    BY <1>0, <1>6 DEF WalkMidway, Reads!PopPath, Reads!SkipSeen, Reads!CapDepth, Reads!Expand
  <2>2. mode' = mode /\ matches' = matches /\ walkEdges' = walkEdges
    BY <1>6 DEF Reads!PopPath, Reads!SkipSeen, Reads!CapDepth, Reads!Expand
  <2>3. PICK x \in BoardItems, d \in Nat : stack[1] = <<x, d>>
    BY <2>1, MidwayHas
  <2>4. Reads!Top[1] = x /\ Reads!Top[2] = d /\ stack[1][1] = x /\ stack[1][2] = d
    BY <2>3 DEF Reads!Top
  <2>5. WalkMidway' /\ walkPc' = "walk"
    <3>1. CASE Reads!PopPath
      <4>1. /\ d = Reads!EXIT /\ path' = Reads!Front(path) /\ stack' = Tail(stack) /\ walkPc' = "walk"
            /\ walkSeen' = walkSeen /\ walkFound' = walkFound /\ Lim' = Lim
        BY <2>1, <2>4, <3>1 DEF Reads!PopPath, Lim
      <4>2. Midway(walkEdges, Tail(stack), walkSeen, Reads!Front(path), walkFound, Lim)
        BY <2>1, <2>4, <4>1, PathStepBack
      <4> QED
        BY <2>2, <4>1, <4>2 DEF WalkMidway
    <3>2. CASE Reads!SkipSeen
      <4>1. ~Reads!Contains(path, x)
        <5>1. SUFFICES ASSUME Reads!Contains(path, x) PROVE FALSE
          OBVIOUS
        <5>2. cycle' = [item |-> x, path |-> path]
          BY <2>4, <3>2, <5>1 DEF Reads!SkipSeen
        <5>3. path = <<>>
          BY <1>6, <5>2 DEF Reads!NoCycle
        <5>4. Len(path) >= 1
          BY <2>1 DEF Midway, Walked, OnPath
        <5> QED
          BY <5>3, <5>4
      <4>2. /\ d # Reads!EXIT /\ walkSeen[x] <= d /\ stack' = Tail(stack) /\ walkPc' = "walk"
            /\ walkSeen' = walkSeen /\ walkFound' = walkFound /\ Lim' = Lim /\ path' = path
        BY <2>1, <2>4, <3>2, <4>1 DEF Reads!SkipSeen, Reads!Revisit, Lim
      <4>3. ~PathHas(path, x)
        BY <4>1 DEF PathHas, Reads!Contains
      <4>4. Midway(walkEdges, Tail(stack), walkSeen, path, walkFound, Lim)
        BY <2>1, <2>4, <4>2, <4>3, FrameTaken
      <4> QED
        BY <2>2, <4>2, <4>4 DEF WalkMidway
    <3>3. CASE Reads!CapDepth
      <4>1. /\ d # Reads!EXIT /\ d > MAX_BLOCKED_DEPTH /\ stack' = Tail(stack) /\ walkPc' = "walk"
            /\ walkSeen' = walkSeen /\ walkFound' = walkFound /\ path' = path
        BY <2>1, <2>4, <3>3 DEF Reads!CapDepth
      <4>2. Lim' = MAX_BLOCKED_DEPTH
        BY <3>3 DEF Reads!CapDepth, Lim
      <4>3. Midway(walkEdges, Tail(stack), walkSeen, path, walkFound, MAX_BLOCKED_DEPTH)
        BY <2>1, <2>4, <4>1, FrameTaken
      <4> QED
        BY <2>2, <4>1, <4>2, <4>3 DEF WalkMidway
    <3>4. CASE Reads!Expand
      <4>1. /\ d # Reads!EXIT /\ ~(walkSeen[x] <= d) /\ d <= MAX_BLOCKED_DEPTH /\ walkPc' = "walk"
            /\ walkSeen' = [walkSeen EXCEPT ![x] = d]
            /\ stack' = Reads!Frames(x, d + 1) \o <<<<x, Reads!EXIT>>>> \o Tail(stack)
            /\ path' = Append(path, x) /\ walkFound' = walkFound \cup {x} /\ Lim' = Lim
        BY <2>1, <2>4, <3>4 DEF Reads!Expand, Reads!Revisit, Lim
      <4>2. Midway(walkEdges, Reads!Frames(x, d + 1) \o <<<<x, Reads!EXIT>>>> \o Tail(stack),
                   [walkSeen EXCEPT ![x] = d], Append(path, x), walkFound \cup {x}, Lim)
        BY <2>1, <2>3, <4>1, ItemExpanded
      <4> QED
        BY <2>2, <4>1, <4>2 DEF WalkMidway
    <3> QED
      BY <1>6, <3>1, <3>2, <3>3, <3>4
  <2> QED
    BY <1>0, <1>6, <2>1, <2>2, <2>5 DEF WalkInv, Reads!NoCycle
<1>7. ASSUME Reads!PopPath \/ Reads!SkipSeen \/ Reads!CapDepth \/ Reads!Expand, cycle' # Reads!NoCycle
      PROVE  WalkInv'
  <2>1. /\ walkPc = "walk" /\ mode = "blocked-by" /\ cycle = Reads!NoCycle /\ stack # <<>>
        /\ Midway(walkEdges, stack, walkSeen, path, walkFound, Lim)
    BY <1>0, <1>7 DEF WalkMidway, Reads!PopPath, Reads!SkipSeen, Reads!CapDepth, Reads!Expand
  <2>2. mode' = mode /\ matches' = matches /\ walkEdges' = walkEdges
    BY <1>7 DEF Reads!PopPath, Reads!SkipSeen, Reads!CapDepth, Reads!Expand
  <2>3. PICK x \in BoardItems, d \in Nat : stack[1] = <<x, d>>
    BY <2>1, MidwayHas
  <2>4. Reads!Top[1] = x /\ Reads!Top[2] = d
    BY <2>3 DEF Reads!Top
  <2>5. Reads!SkipSeen
    BY <1>7, <2>1 DEF Reads!PopPath, Reads!CapDepth, Reads!Expand
  <2>6. Reads!Contains(path, x) /\ d # Reads!EXIT /\ walkPc' = "project" /\ cycle' = [item |-> x, path |-> path]
    BY <1>7, <2>1, <2>4, <2>5 DEF Reads!SkipSeen
  <2>7. OnPath(walkEdges, path) /\ x \in Reads!Blockers(walkEdges, path[Len(path)])
    <3>1. PICK n \in Nat, y \in BoardItems, e \in Nat :
               /\ Long(path, n) /\ OnPath(walkEdges, path)
               /\ stack[1] = <<y, e>> /\ On(stack) = {<<y, e>>} \cup On(Tail(stack))
               /\ (e # Reads!EXIT => e = n) /\ n < 98
      BY <2>1, MidwayHas
    <3>2. y = x /\ e = d /\ d = n /\ <<x, d>> \in On(stack) /\ d # 99 /\ Len(path) = d
      BY <2>3, <2>6, <3>1 DEF Long
    <3>3. Framed(walkEdges, On(stack), path)
      BY <2>1 DEF Midway, Walked
    <3> QED
      BY <3>1, <3>2, <3>3 DEF Framed
  <2>8. PICK q : q = Append(path, x)
    OBVIOUS
  <2>9. Grown(walkEdges, path, x, Append(path, x))
    BY <2>7, PathGrown
  <2>10. OnPath(walkEdges, q)
    BY <2>8, <2>9 DEF Grown
  <2>11. \A k \in 1 .. Len(q) - 1 : <<q[k], q[k + 1]>> \in walkEdges
    BY <2>10 DEF OnPath, Reads!Blockers
  <2>12. CycleReal'
    <3>1. cycle'.path = path /\ cycle'.item = x
      BY <2>6
    <3>2. path[1] = 0
      BY <2>7 DEF OnPath
    <3>3. Append(cycle'.path, cycle'.item) = q
      BY <2>8, <3>1
    <3>4. Reads!IsWalk(Append(cycle.path, cycle.item))'
      BY <2>2, <2>11, <3>3 DEF Reads!IsWalk
    <3>5. Reads!Contains(cycle.path, cycle.item)'
      BY <2>6, <3>1 DEF Reads!Contains
    <3> QED
      BY <3>1, <3>2, <3>4, <3>5 DEF CycleReal
  <2> QED
    BY <1>0, <1>7, <2>1, <2>2, <2>6, <2>12 DEF WalkInv, Reads!NoCycle
<1>8. CASE Reads!WalkDone
  <2>1. /\ walkPc = "walk" /\ walkPc' = "project" /\ mode' = mode /\ matches' = matches /\ cycle' = cycle
        /\ walkEdges' = walkEdges /\ stack = <<>> /\ stack' = stack /\ walkSeen' = walkSeen /\ path' = path
        /\ walkFound' = walkFound /\ Lim' = Lim
    BY <1>8 DEF Reads!WalkDone, Lim
  <2>2. (cycle # Reads!NoCycle => CycleReal)'
    BY <1>1, <2>1
  <2>3. WalkMidway'
    BY <1>0, <2>1 DEF WalkMidway
  <2> QED
    BY <1>0, <2>1, <2>2, <2>3 DEF WalkInv
<1>9. CASE Reads!ProjectItems
  <2>1. /\ walkPc = "project" /\ walkPc' = "answered" /\ mode' = mode /\ matches' = matches /\ cycle' = cycle
        /\ walkEdges' = walkEdges /\ stack' = stack /\ walkSeen' = walkSeen /\ path' = path
        /\ walkFound' = walkFound /\ Lim' = Lim
    BY <1>9 DEF Reads!ProjectItems, Lim
  <2>2. (cycle # Reads!NoCycle => CycleReal)'
    BY <1>1, <2>1
  <2>3. mode = "blocked-by" /\ cycle = Reads!NoCycle => WalkMidway'
    BY <1>0, <2>1 DEF WalkMidway
  <2>4. mode = "search" => answer' = Reads!Kept'
    BY <1>9, <2>1 DEF Reads!ProjectItems, Reads!Kept
  <2>5. mode = "blocked-by" => answer' \subseteq walkFound'
    BY <1>9, <2>1 DEF Reads!ProjectItems
  <2> QED
    BY <1>0, <2>1, <2>2, <2>3, <2>4, <2>5 DEF WalkInv, Reads!NoCycle
<1>10. CASE Reads!ProjectFails
  <2>1. walkPc' = "failed" /\ mode' = mode /\ matches' = matches /\ cycle' = cycle /\ walkEdges' = walkEdges
    BY <1>10 DEF Reads!ProjectFails
  <2>2. (cycle # Reads!NoCycle => CycleReal)'
    BY <1>1, <2>1
  <2> QED
    BY <1>0, <2>1, <2>2 DEF WalkInv
<1>11. CASE UNCHANGED Reads!walkVars
  <2>1. /\ UNCHANGED <<mode, matches, walkEdges, stack, walkSeen, path, walkFound, cycle, depth_capped, answer, walkPc>>
        /\ Lim' = Lim
    BY <1>11 DEF Reads!walkVars, Lim
  <2>2. (cycle # Reads!NoCycle => CycleReal)'
    BY <1>1, <2>1
  <2>3. Reads!Kept' = Reads!Kept /\ WalkFresh' = WalkFresh /\ WalkMidway' = WalkMidway
    BY <2>1 DEF Reads!Kept, WalkFresh, WalkMidway
  <2> QED
    BY <1>0, <2>1, <2>2, <2>3 DEF WalkInv, Reads!NoCycle
<1> QED
  BY <1>2, <1>3, <1>4, <1>5, <1>6, <1>7, <1>8, <1>9, <1>10, <1>11 DEF Reads!WalkNext

LEMMA ReadSteps ==
  ASSUME [ToolsNext]_toolsVars
  PROVE  /\ [Reads!WalkNext]_Reads!walkVars /\ [Reads!StatusNext]_Reads!statusVars
         /\ [Reads!RefNext]_Reads!refVars /\ [Index!ContextNext]_Index!contextVars
         /\ [ThoughtNext]_thoughtVars
<1> USE DEF toolsVars, walkState, verdictState, refsState, contextState
<1>1. [Reads!WalkNext]_Reads!walkVars
  BY DEF ToolsNext, Reads!walkVars
<1>2. [Reads!StatusNext]_Reads!statusVars
  BY DEF ToolsNext, Reads!statusVars
<1>3. [Reads!RefNext]_Reads!refVars
  BY DEF ToolsNext, Reads!refVars
<1>4. [Index!ContextNext]_Index!contextVars
  BY DEF ToolsNext, Index!contextVars
<1>5. [ThoughtNext]_thoughtVars
  BY DEF ToolsNext, thoughtVars
<1> QED
  BY <1>1, <1>2, <1>3, <1>4, <1>5

(* What a read says is complete and of one moment.  A walk over blockers    *)
(* that reports neither a cycle nor a cut has found exactly what is         *)
(* reachable from the root, an acyclic graph, and a cut one all that is     *)
(* within the cap over shortest paths; a mergeable verdict is about one     *)
(* head on one base, with a CLEAN record of just that pair, whatever moved  *)
(* between its reads; expanded references stay within the budget of the     *)
(* pass and every place of them is accounted for; the index keeps nothing   *)
(* of content no file has; and the recorded thoughts can be read back in    *)
(* their sequences.                                                         *)
THEOREM ReadsAreComplete == ToolsSpec => []ReadsComplete
<1> DEFINE I == WalkInv /\ StatusInv /\ RefInv /\ IndexInv /\ ThoughtInv
<1>1. ToolsInit => I
  BY WalkInitially, StatusInitially, RefsInitially, IndexInitially, ThoughtsInitially DEF ToolsInit
<1>2. I /\ [ToolsNext]_toolsVars => I'
  BY ReadSteps, WalkStep, StatusStep, RefStep, IndexStep, ThoughtStep
<1>3. I => ReadsComplete
  BY WalkHolds, StatusHolds, RefsHold DEF ReadsComplete, IndexInv, ThoughtInv
<1> QED
  BY <1>1, <1>2, <1>3, PTL DEF ToolsSpec

=============================================================================
