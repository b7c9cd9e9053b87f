-------------------------------- MODULE Kickoff --------------------------------
(***************************************************************************)
(* The kick-off gate of the watch daemon and the queue of external events  *)
(* it reads.  An idle loop starts work only when an armed condition fired; *)
(* most conditions compare this pass with the previous one, so whatever a  *)
(* pass consumes and does not act on is gone.  The question is whether     *)
(* work can be forgotten that way.                                         *)
(*                                                                         *)
(* One action per step of a pass (`kickoff_gate`, then the rest of         *)
(* `plan_and_spawn` after its await), one per reap and per invocation      *)
(* boundary.  Clocks are abstracted: a backoff window or a UTC day ends    *)
(* when the environment says so.  The board is the environment's.          *)
(***************************************************************************)
EXTENDS Integers, FiniteSets

CONSTANTS Tasks,         \* worker task ids
          Events,        \* delivery keys of external events
          Armed,         \* the armed conditions (`KickoffSettings`)
          MaxConcurrentWorkers,
          Capacity,      \* watch.ingress.queue_capacity
          MaxBoundaries  \* bound: invocation boundaries and process restarts

Conditions == {"new-eligible-work", "unblocked-promotion", "slot-released",
               "budget-window-reset", "external-event"}

KickoffAssumption ==
  /\ Armed \subseteq Conditions
  /\ MaxConcurrentWorkers \in Nat \ {0}
  /\ Capacity \in Nat \ {0}
  /\ MaxBoundaries \in Nat

VARIABLES
  ready, blocked,       \* the board: ready queue and blocked candidates
  held,                 \* tasks the durable retry state excludes (attempts or backoff)
  ran,                  \* tasks with a row of this invocation
  inflight,             \* tasks of the supervised slots
  previousReady, previousBlocked, slotReleased,
  windowKnown,          \* last_pass_day is Some
  dayMoved,             \* the UTC day moved since last_pass_day was set
  queue, degraded,      \* IngressQueue
  accepted,             \* keys the durable dedup table knows
  evaluated,            \* events a gate that let the pass proceed has seen
  lost,                 \* events dropped at capacity or lost with the process
  phase,                \* "idle" between passes, "planning" across the await
  boundaries,
  candidates, peeked    \* what the pass in progress carries across the await

board  == <<ready, blocked>>
events == <<queue, degraded, accepted, evaluated, lost>>
passes == <<previousReady, previousBlocked, slotReleased, windowKnown, dayMoved>>
pass   == <<phase, candidates, peeked, boundaries>>

vars == <<ready, blocked, held, ran, inflight, previousReady, previousBlocked,
          slotReleased, windowKnown, dayMoved, queue, degraded, accepted,
          evaluated, lost, phase, candidates, peeked, boundaries>>

TypeOK ==
  /\ ready \subseteq Tasks /\ blocked \subseteq Tasks \ ready
  /\ held \subseteq Tasks /\ ran \subseteq Tasks /\ inflight \subseteq ran
  /\ previousReady \subseteq Tasks /\ previousBlocked \subseteq Tasks
  /\ slotReleased \in BOOLEAN /\ windowKnown \in BOOLEAN /\ dayMoved \in BOOLEAN
  /\ queue \subseteq Events /\ Cardinality(queue) <= Capacity /\ degraded \in BOOLEAN
  /\ accepted \subseteq Events /\ evaluated \subseteq Events /\ lost \subseteq Events
  /\ phase \in {"idle", "planning"}
  /\ candidates \subseteq Tasks /\ peeked \subseteq Events
  /\ boundaries \in 0 .. MaxBoundaries

-----------------------------------------------------------------------------

(* `excluded_tasks`, without the distinction of its reasons. *)
Excluded == inflight \cup ran \cup held

(* Events are consulted only when armed and while nothing is in flight. *)
Peek == IF "external-event" \in Armed /\ inflight = {} THEN queue ELSE {}

(* `evaluate`: the conditions that hold for the eligible tasks of this pass. *)
Holds(eligible) ==
  {c \in Conditions :
     \/ c = "new-eligible-work" /\ ~(eligible \subseteq previousReady)
     \/ c = "unblocked-promotion" /\ eligible \cap previousBlocked # {}
     \/ c = "slot-released" /\ slotReleased
     \/ c = "budget-window-reset" /\ windowKnown /\ dayMoved
     \/ c = "external-event" /\ Peek # {}}

KickOff(eligible) == Holds(eligible) \cap Armed # {}

(* What every pass leaves for the next one, whether it proceeds or not. *)
RememberPass(eligible) ==
  /\ previousReady' = eligible /\ previousBlocked' = blocked
  /\ slotReleased' = FALSE /\ windowKnown' = TRUE /\ dayMoved' = FALSE

Gate ==
  /\ phase = "idle" /\ Cardinality(inflight) < MaxConcurrentWorkers
  /\ LET eligible == ready \ Excluded
     IN  /\ RememberPass(eligible)
         /\ \/ /\ inflight = {} /\ ~KickOff(eligible)
               /\ UNCHANGED <<phase, candidates, peeked, evaluated>>
            \/ /\ inflight # {} \/ KickOff(eligible)
               /\ phase' = "planning"
               /\ candidates' = eligible
               /\ peeked' = Peek
               /\ evaluated' = evaluated \cup Peek
  /\ UNCHANGED <<board, held, ran, inflight, queue, degraded, accepted, lost, boundaries>>

(* Mutant: the whole queue is drained, late arrivals included. *)
MutantDrainAll ==
  /\ queue' = {}
  /\ UNCHANGED <<degraded, accepted, evaluated, lost>>

(* Mutant: the peeked events are never taken. *)
MutantDrainNothing == UNCHANGED <<queue, degraded, accepted, evaluated, lost>>

(* `take_by_ids`: exactly the peeked events leave, later arrivals stay. *)
DrainPeeked ==
  /\ queue' = queue \ peeked
  /\ UNCHANGED <<degraded, accepted, evaluated, lost>>

PassDone ==
  /\ phase' = "idle" /\ candidates' = {} /\ peeked' = {}
  /\ UNCHANGED boundaries

PlanNoOp ==
  /\ phase = "planning" /\ candidates = {}
  /\ DrainPeeked /\ PassDone
  /\ UNCHANGED <<board, held, ran, inflight, passes>>

Spawn(t) ==
  /\ phase = "planning" /\ t \in candidates
  /\ DrainPeeked /\ PassDone
  /\ ran' = ran \cup {t} /\ inflight' = inflight \cup {t}
  /\ UNCHANGED <<board, held, passes>>

(* Mutant: the siblings of a failed spawn count as acted on. *)
MutantShrinkPreviousReady(t) == previousReady' = previousReady

(* A failed spawn counts as an attempt; only its task was acted on. *)
ShrinkPreviousReady(t) == previousReady' = {t}

SpawnFails(t) ==
  /\ phase = "planning" /\ t \in candidates
  /\ DrainPeeked /\ PassDone
  /\ ran' = ran \cup {t} /\ held' = held \cup {t}
  /\ ShrinkPreviousReady(t)
  /\ UNCHANGED <<board, inflight, previousBlocked, slotReleased, windowKnown, dayMoved>>

(* A supervised run is reaped: a failure arms the backoff, a drain does not. *)
Reap(t) ==
  /\ phase = "idle" /\ t \in inflight
  /\ inflight' = inflight \ {t}
  /\ slotReleased' = TRUE
  /\ held' \in {held, held \cup {t}}
  /\ UNCHANGED <<board, ran, previousReady, previousBlocked, windowKnown, dayMoved,
                 events, pass>>

(* Mutant: the invocation ends with runs in flight. *)
MutantNextInvocation ==
  /\ phase = "idle"
  /\ boundaries < MaxBoundaries /\ boundaries' = boundaries + 1
  /\ ran' = {} /\ previousReady' = {} /\ previousBlocked' = {} /\ slotReleased' = FALSE
  /\ UNCHANGED <<board, held, inflight, windowKnown, dayMoved, events, phase,
                 candidates, peeked>>

(***************************************************************************)
(* An invocation ends with its slots drained.  The runner of the next one  *)
(* is new; the budget day is handed over, the queue belongs to the daemon. *)
(***************************************************************************)
NextInvocation ==
  /\ phase = "idle" /\ inflight = {}
  /\ boundaries < MaxBoundaries /\ boundaries' = boundaries + 1
  /\ ran' = {} /\ previousReady' = {} /\ previousBlocked' = {} /\ slotReleased' = FALSE
  /\ UNCHANGED <<board, held, inflight, windowKnown, dayMoved, events, phase,
                 candidates, peeked>>

(* The queue is in memory, the dedup table is not. *)
Restart ==
  /\ boundaries < MaxBoundaries /\ boundaries' = boundaries + 1
  /\ ran' = {} /\ inflight' = {} /\ previousReady' = {} /\ previousBlocked' = {}
  /\ slotReleased' = FALSE /\ windowKnown' = FALSE /\ dayMoved' = FALSE
  /\ lost' = lost \cup queue /\ queue' = {} /\ degraded' = FALSE
  /\ phase' = "idle" /\ candidates' = {} /\ peeked' = {}
  /\ UNCHANGED <<board, held, accepted, evaluated>>

-----------------------------------------------------------------------------

(* `record_delivery`, then `push`: at capacity the surplus is dropped. *)
Deliver(e) ==
  /\ e \notin accepted
  /\ accepted' = accepted \cup {e}
  /\ \/ /\ Cardinality(queue) < Capacity
        /\ queue' = queue \cup {e}
        /\ UNCHANGED <<degraded, lost>>
     \/ /\ Cardinality(queue) >= Capacity
        /\ degraded' = TRUE
        /\ lost' = lost \cup {e}
        /\ UNCHANGED queue
  /\ UNCHANGED <<board, held, ran, inflight, passes, evaluated, pass>>

(* The flood-free window passed; the marker clears on the next read. *)
ClearDegraded ==
  /\ degraded /\ degraded' = FALSE
  /\ UNCHANGED <<board, held, ran, inflight, passes, queue, accepted, evaluated, lost, pass>>

BoardMoves(t) ==
  /\ \/ ready' = ready \cup {t} /\ blocked' = blocked \ {t}
     \/ ready' = ready \ {t} /\ blocked' = blocked \cup {t}
     \/ ready' = ready \ {t} /\ blocked' = blocked \ {t}
  /\ UNCHANGED <<held, ran, inflight, passes, events, pass>>

BackoffEnds(t) ==
  /\ t \in held /\ held' = held \ {t}
  /\ UNCHANGED <<board, ran, inflight, passes, events, pass>>

DayEnds ==
  /\ ~dayMoved /\ dayMoved' = TRUE
  /\ UNCHANGED <<board, held, ran, inflight, previousReady, previousBlocked,
                 slotReleased, windowKnown, events, pass>>

-----------------------------------------------------------------------------

Init ==
  /\ ready \in SUBSET Tasks /\ blocked = {} /\ held = {} /\ ran = {} /\ inflight = {}
  /\ previousReady = {} /\ previousBlocked = {} /\ slotReleased = FALSE
  /\ windowKnown = FALSE /\ dayMoved = FALSE
  /\ queue = {} /\ degraded = FALSE /\ accepted = {} /\ evaluated = {} /\ lost = {}
  /\ phase = "idle" /\ candidates = {} /\ peeked = {} /\ boundaries = 0

Plan == PlanNoOp \/ \E t \in Tasks : Spawn(t) \/ SpawnFails(t)

Next ==
  \/ Gate \/ Plan \/ NextInvocation \/ Restart \/ DayEnds \/ ClearDegraded
  \/ \E t \in Tasks : Reap(t) \/ BoardMoves(t) \/ BackoffEnds(t)
  \/ \E e \in Events : Deliver(e)

Spec == Init /\ [][Next]_vars

(***************************************************************************)
(* The loop keeps polling (the gate is taken infinitely often when it can  *)
(* be: capacity may come and go, hence SF) and a planned pass is carried   *)
(* out; a supervised run is reaped in the end, by its own end or by the    *)
(* worker timeout (LoopRunner: InvocationEnds).                            *)
(***************************************************************************)
Fairness ==
  /\ SF_vars(Gate) /\ WF_vars(Plan)
  /\ \A t \in Tasks : WF_vars(Reap(t))

FairSpec == Spec /\ Fairness

(***************************************************************************)
(* With the built-in conditions armed no eligible ready task is forgotten: *)
(* it is attempted, or it stops being eligible.  This speaks of an         *)
(* invocation that is not cut short again and again (MaxBoundaries): each  *)
(* new one may select the same favourite first.                            *)
(***************************************************************************)
NoTaskForgotten ==
  \A t \in Tasks : t \in ready \ Excluded ~> t \notin ready \ Excluded

(***************************************************************************)
(* An armed external event does not stay pending for ever.                 *)
(***************************************************************************)
EventsConsumed == \A e \in Events : e \in queue ~> e \notin queue

(***************************************************************************)
(* Every accepted event is pending, was put before a gate that proceeded,  *)
(* or was visibly lost: a drain never takes one that arrived after the     *)
(* peek.                                                                   *)
(***************************************************************************)
EventsAccounted == accepted \subseteq queue \cup evaluated \cup lost
=============================================================================
