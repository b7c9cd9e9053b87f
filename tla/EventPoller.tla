------------------------------ MODULE EventPoller ------------------------------
(***************************************************************************)
(* The conditional-request poller of the event ingress: one endpoint, its  *)
(* durable bookkeeping (ETag, baseline flag, raw-id boundary, delivery     *)
(* keys), the bounded queue and the mirror into the intake store.          *)
(*                                                                         *)
(* `poll_one` walks the newest-first feed page by page while new events    *)
(* keep arriving, judges the items one by one, and only then moves the     *)
(* boundary and stores the ETag.  Every await and every durable write is a *)
(* place where the poll may fail or the process may die.  The questions:   *)
(* is an event ever jumped over, and is one ever accepted twice?           *)
(*                                                                         *)
(* An event is its raw platform id, its position in the feed.  The ETag of *)
(* a response is the length of the feed it was made from; 0 stands for a   *)
(* response without ETag, and for no boundary.                             *)
(***************************************************************************)
EXTENDS Integers, Sequences, FiniteSets

CONSTANTS
  Kinds,      \* the event kinds that are published
  PageSize,   \* the platform's page size
  MaxPages,   \* MAX_PAGES_PER_POLL
  Capacity,   \* watch.ingress.queue_capacity
  MaxEvents,  \* bound: events published
  MaxFaults   \* bound: failed polls, failed mirror writes and crashes

(***************************************************************************)
(* "opened" stands for issues-opened, which the intake mirrors, "comment"  *)
(* for the other tracked types; a "malformed" item does not parse.         *)
(***************************************************************************)
EventPollerAssumption ==
  /\ Kinds \subseteq {"opened", "comment", "untracked", "malformed"}
  /\ PageSize \in Nat \ {0} /\ MaxPages \in Nat \ {0} /\ Capacity \in Nat \ {0}
  /\ MaxEvents \in Nat /\ MaxFaults \in Nat

VARIABLES
  feed,                      \* the platform: the kind of each event, oldest first
  etag, baselined, boundary, \* ingress_etags: etag, ever_baselined, last_seen_raw_id
  deliveries, aged,          \* ingress_deliveries; the keys older than the window
  queue,                     \* IngressQueue
  mirrored,                  \* ids ever put into the intake store
  pc, tag, items, pages, last, top, at,  \* the poll in progress
  beyond,                    \* ids up to it were left beyond its page cap
  faults,
  judged, cut, born, times, lapsed  \* history, see below

(***************************************************************************)
(* History, read by no guard: ids whose delivery was recorded; ids a poll  *)
(* passed over at its page cap; the feed when the baseline poll began; how    *)
(* often an id was accepted; ids whose key aged out above the boundary.    *)
(***************************************************************************)
history == <<judged, cut, born, times, lapsed>>
conditional == <<etag, baselined, boundary>>
dedup == <<deliveries, aged>>
poll  == <<tag, items, pages, last, top, beyond>>

vars == <<feed, etag, baselined, boundary, deliveries, aged, queue, mirrored, pc,
          tag, items, pages, last, top, at, beyond, faults, judged, cut, born, times,
          lapsed>>

Ids == 1 .. MaxEvents

Pcs == {"idle", "paging", "baseline", "raise", "process", "mirror", "store"}

TypeOK ==
  /\ feed \in Seq(Kinds) /\ Len(feed) <= MaxEvents
  /\ etag \in 0 .. MaxEvents /\ baselined \in BOOLEAN /\ boundary \in 0 .. MaxEvents
  /\ deliveries \subseteq Ids /\ aged \subseteq deliveries
  /\ queue \in Seq(Ids) /\ Len(queue) <= Capacity
  /\ mirrored \subseteq Ids
  /\ pc \in Pcs /\ tag \in 0 .. MaxEvents /\ items \in Seq(Ids)
  /\ pages \in 0 .. MaxPages /\ last \in 0 .. MaxEvents /\ top \in 0 .. MaxEvents
  /\ at \in 1 .. Len(items) + 1 /\ beyond \in 0 .. MaxEvents
  /\ faults \in 0 .. MaxFaults
  /\ judged \subseteq Ids /\ cut \subseteq Ids /\ born \in 0 .. MaxEvents
  /\ times \in [Ids -> Nat] /\ lapsed \subseteq Ids

-----------------------------------------------------------------------------

Newer(a, b) == IF a >= b THEN a ELSE b

Newest(S) == IF S = {} THEN 0 ELSE CHOOSE x \in S : \A y \in S : y <= x

(* The n-th smallest of a set of numbers, and what of a sequence is in T. *)
Nth(S, n) == CHOOSE x \in S : Cardinality({y \in S : y < x}) = n - 1

Kept(s, T) ==
  LET where == {j \in 1 .. Len(s) : s[j] \in T}
  IN  [i \in 1 .. Cardinality(where) |-> s[Nth(where, i)]]

(* Page k of the feed as it is now, newest first. *)
Page(k) ==
  LET first == Len(feed) - (k - 1) * PageSize
      size  == IF first >= PageSize THEN PageSize ELSE IF first > 0 THEN first ELSE 0
  IN  [j \in 1 .. size |-> first - j + 1]

(* `Link: rel="next"`. *)
HasNext(k) == Len(feed) > k * PageSize

Parsed(page) == Kept(page, {id \in 1 .. Len(feed) : feed[id] # "malformed"})

(* `page_reached_boundary`: a page of nothing but processed history. *)
Reached(parsed, l) ==
  parsed # <<>> /\ \A j \in 1 .. Len(parsed) : l # 0 /\ parsed[j] <= l

Tracked(id) == feed[id] \in {"opened", "comment"}

(* Mutant: the boundary guard is missing, only the delivery keys protect. *)
MutantToJudge(all, l) == Kept(all, {id \in 1 .. Len(feed) : Tracked(id)})

(* The items `process_items` puts before the delivery keys. *)
ToJudge(all, l) ==
  Kept(all, {id \in 1 .. Len(feed) : Tracked(id) /\ ~(l # 0 /\ id <= l)})

Elements(s) == {s[j] : j \in 1 .. Len(s)}

(* One page read: the chain goes on, or the items are handed over. *)
ReadPage(k, l, sofar) ==
  LET parsed == Parsed(Page(k))
      all    == sofar \o parsed
      over   == Reached(parsed, l) \/ k >= MaxPages \/ ~HasNext(k)
  IN  /\ pages' = k /\ last' = l /\ at' = 1
      /\ top' = Newest({top, l} \cup Elements(parsed))
      /\ pc' = IF ~over THEN "paging" ELSE IF baselined THEN "process" ELSE "baseline"
      /\ items' = CASE ~over -> all
                    [] over /\ baselined -> ToJudge(all, l)
                    [] OTHER -> all
      /\ beyond' = IF over /\ ~Reached(parsed, l) /\ HasNext(k)
                   THEN Len(feed) - k * PageSize ELSE 0

(* 304, or a response that is no success: rate limit, refusal, outage. *)
NoNews ==
  /\ pc = "idle"
  /\ UNCHANGED vars

(* Mutant: the ETag is stored as soon as the response is there. *)
MutantBeginPoll ==
  /\ pc = "idle" /\ (etag = 0 \/ etag # Len(feed))
  /\ tag' \in {0, Len(feed)} /\ etag' = tag'
  /\ ReadPage(1, boundary, <<>>)
  /\ born' = IF baselined THEN born ELSE Len(feed)
  /\ UNCHANGED <<feed, baselined, boundary, dedup, queue, mirrored, faults, judged, cut,
                 times, lapsed>>

(* A 200 to the conditional request; its ETag is kept for the end. *)
BeginPoll ==
  /\ pc = "idle" /\ (etag = 0 \/ etag # Len(feed))
  /\ tag' \in {0, Len(feed)}
  /\ ReadPage(1, boundary, <<>>)
  /\ born' = IF baselined THEN born ELSE Len(feed)
  /\ UNCHANGED <<feed, conditional, dedup, queue, mirrored, faults, judged, cut, times,
                 lapsed>>

(* The feed may have grown since the page before: the pages overlap. *)
NextPage ==
  /\ pc = "paging"
  /\ ReadPage(pages + 1, last, items)
  /\ UNCHANGED <<feed, conditional, dedup, queue, mirrored, tag, faults, judged, cut,
                 born, times, lapsed>>

(* `record_delivery`: prune what is older than the window, insert or ignore. *)
RecordDelivery(id) ==
  /\ deliveries' = (deliveries \ aged) \cup {id}
  /\ aged' = {}
  /\ judged' = judged \cup {id}

IsNew(id) == id \notin deliveries \ aged

(* First enable: the tracked keys are registered, nothing is queued. *)
BaselineItem ==
  /\ pc = "baseline" /\ at <= Len(items)
  /\ \/ /\ Tracked(items[at])
        /\ RecordDelivery(items[at])
     \/ /\ ~Tracked(items[at])
        /\ UNCHANGED <<dedup, judged>>
  /\ at' = at + 1
  /\ UNCHANGED <<feed, conditional, queue, mirrored, pc, poll, faults, cut, born, times,
                 lapsed>>

BaselineRecorded ==
  /\ pc = "baseline" /\ at > Len(items)
  /\ pc' = "raise" /\ at' = 1
  /\ UNCHANGED <<feed, conditional, dedup, queue, mirrored, poll, faults, history>>

(* Mutant: the baseline does not raise the boundary. *)
MutantRaiseBoundary ==
  /\ pc = "raise" /\ at <= Len(items)
  /\ at' = at + 1
  /\ UNCHANGED <<feed, conditional, dedup, queue, mirrored, pc, poll, faults, history>>

(* `record_max_raw_id` for every item, tracked or not. *)
RaiseBoundary ==
  /\ pc = "raise" /\ at <= Len(items)
  /\ boundary' = Newer(boundary, items[at])
  /\ at' = at + 1
  /\ UNCHANGED <<feed, etag, baselined, dedup, queue, mirrored, pc, poll, faults, history>>

MarkBaselined ==
  /\ pc = "raise" /\ at > Len(items)
  /\ baselined' = TRUE
  /\ cut' = cut \cup (last + 1 .. beyond)
  /\ pc' = "store"
  /\ UNCHANGED <<feed, etag, boundary, dedup, queue, mirrored, poll, at, faults, judged,
                 born, times, lapsed>>

(* The delivery key decides, before the queue. *)
JudgeItem ==
  /\ pc = "process" /\ at <= Len(items)
  /\ RecordDelivery(items[at])
  /\ \/ /\ IsNew(items[at]) /\ pc' = "mirror" /\ at' = at
     \/ /\ ~IsNew(items[at]) /\ pc' = "process" /\ at' = at + 1
  /\ UNCHANGED <<feed, conditional, queue, mirrored, poll, faults, cut, born, times,
                 lapsed>>

(* Mutant: the capacity is compared one too late. *)
MutantPush(id) == queue' = IF Len(queue) <= Capacity THEN Append(queue, id) ELSE queue

(* `push`: at capacity the surplus is dropped. *)
Push(id) == queue' = IF Len(queue) < Capacity THEN Append(queue, id) ELSE queue

(* The event is mirrored if the intake takes it, and queued in any case. *)
AcceptItem ==
  /\ pc = "mirror"
  /\ LET id == items[at]
     IN  /\ \/ /\ feed[id] = "opened"
               /\ mirrored' = mirrored \cup {id} /\ UNCHANGED faults
            \/ /\ feed[id] = "opened" /\ faults < MaxFaults
               /\ faults' = faults + 1 /\ UNCHANGED mirrored
            \/ /\ feed[id] # "opened"
               /\ UNCHANGED <<mirrored, faults>>
         /\ Push(id)
         /\ times' = [times EXCEPT ![id] = @ + 1]
  /\ pc' = "process" /\ at' = at + 1
  /\ UNCHANGED <<feed, conditional, dedup, poll, judged, cut, born, lapsed>>

(* Mutant: the boundary takes the newest id of the feed, not of the pages. *)
MutantAdvance ==
  /\ pc = "process" /\ at > Len(items)
  /\ boundary' = Newer(boundary, Len(feed))
  /\ cut' = cut \cup (last + 1 .. beyond)
  /\ pc' = "store"
  /\ UNCHANGED <<feed, etag, baselined, dedup, queue, mirrored, poll, at, faults, judged,
                 born, times, lapsed>>

(* Only when all items are judged the boundary moves. *)
Advance ==
  /\ pc = "process" /\ at > Len(items)
  /\ boundary' = Newer(boundary, top)
  /\ cut' = cut \cup (last + 1 .. beyond)
  /\ pc' = "store"
  /\ UNCHANGED <<feed, etag, baselined, dedup, queue, mirrored, poll, at, faults, judged,
                 born, times, lapsed>>

ForgetPoll ==
  /\ tag' = 0 /\ items' = <<>> /\ pages' = 0 /\ last' = 0 /\ top' = 0 /\ at' = 1
  /\ beyond' = 0

StoreConditional ==
  /\ pc = "store"
  /\ etag' = tag
  /\ pc' = "idle" /\ ForgetPoll
  /\ UNCHANGED <<feed, baselined, boundary, dedup, queue, mirrored, faults, judged, cut,
                 born, times, lapsed>>

(* A page, or a write of the store, failed: PollError::Failed. *)
PollFails ==
  /\ pc # "idle" /\ faults < MaxFaults
  /\ faults' = faults + 1
  /\ pc' = "idle" /\ ForgetPoll
  /\ UNCHANGED <<feed, conditional, dedup, queue, mirrored, judged, cut, born, times, lapsed>>

(* The process dies and comes back: the queue was in memory. *)
Restart ==
  /\ faults < MaxFaults
  /\ faults' = faults + 1
  /\ queue' = <<>>
  /\ pc' = "idle" /\ ForgetPoll
  /\ UNCHANGED <<feed, conditional, dedup, mirrored, judged, cut, born, times, lapsed>>

-----------------------------------------------------------------------------

Publish ==
  /\ Len(feed) < MaxEvents
  /\ \E k \in Kinds : feed' = Append(feed, k)
  /\ UNCHANGED <<conditional, dedup, queue, mirrored, pc, poll, at, faults, history>>

(* The kick-off gate consumes the pending events (module Kickoff). *)
Consume ==
  /\ queue # <<>> /\ queue' = <<>>
  /\ UNCHANGED <<feed, conditional, dedup, mirrored, pc, poll, at, faults, history>>

(* REDELIVERY_WINDOW_SECS pass without a poll: every key is old now. *)
WindowPasses ==
  /\ pc = "idle" /\ aged # deliveries
  /\ aged' = deliveries
  /\ lapsed' = lapsed \cup {id \in deliveries : id > boundary}
  /\ UNCHANGED <<feed, conditional, deliveries, queue, mirrored, pc, poll, at, faults,
                 judged, cut, born, times>>

Init ==
  /\ feed \in UNION {[1 .. n -> Kinds] : n \in 0 .. MaxEvents - 1}
  /\ etag = 0 /\ baselined = FALSE /\ boundary = 0
  /\ deliveries = {} /\ aged = {} /\ queue = <<>> /\ mirrored = {}
  /\ pc = "idle" /\ tag = 0 /\ items = <<>> /\ pages = 0 /\ last = 0 /\ top = 0 /\ at = 1
  /\ beyond = 0
  /\ faults = 0
  /\ judged = {} /\ cut = {} /\ born = 0 /\ times = [id \in Ids |-> 0] /\ lapsed = {}

Poll ==
  \/ BeginPoll \/ NextPage \/ BaselineItem \/ BaselineRecorded \/ RaiseBoundary
  \/ MarkBaselined \/ JudgeItem \/ AcceptItem \/ Advance \/ StoreConditional

Next ==
  \/ Poll \/ NoNews \/ PollFails \/ Restart \/ Publish \/ Consume \/ WindowPasses

Spec == Init /\ [][Next]_vars

(* `ingress_poll_loop` polls again and again; faults are finite here. *)
FairSpec == Spec /\ WF_vars(Poll)

-----------------------------------------------------------------------------

(***************************************************************************)
(* The boundary never jumps over an event: every tracked event at or below *)
(* it was judged, was there before the baseline, or was left beyond the    *)
(* page cap of a partial poll - although events arrive between the pages   *)
(* and a poll may fail after any item.                                     *)
(***************************************************************************)
NothingJumpedOver ==
  baselined =>
    \A id \in 1 .. Len(feed) :
      id <= boundary /\ Tracked(id) => id \in judged \/ id \in cut \/ id <= born

(***************************************************************************)
(* No event is accepted twice, unless the redelivery window passed while a *)
(* failed poll had left it above the boundary: the feed outlives the       *)
(* delivery keys, the boundary does the rest (`process_items`).            *)
(***************************************************************************)
AcceptedOnce == \A id \in Ids : times[id] > 1 => id \in lapsed

(***************************************************************************)
(* What was in the feed when the ingress was first enabled never reaches   *)
(* the queue, however often the baseline poll fails halfway and however    *)
(* long the feed is (the FIRST-ENABLE BASELINE of `poll_one`).             *)
(***************************************************************************)
BaselineSilent == baselined => \A id \in 1 .. born : times[id] = 0

(***************************************************************************)
(* An event published after the baseline is judged in the end: a poll that *)
(* failed leaves an ETag with which the next one is not answered 304.      *)
(***************************************************************************)
EventuallyJudged ==
  \A id \in Ids :
    (id <= Len(feed) /\ Tracked(id)) ~> (id \in judged \/ id \in cut \/ id <= born)
=============================================================================
