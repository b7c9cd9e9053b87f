------------------------------- MODULE Ingress -------------------------------
(****************************************************************************)
(* The event ingress of the watch daemon: the kick-off gate of the loop,    *)
(* the poller of the board's events, the intake lane and the CI lane.       *)
(****************************************************************************)
EXTENDS Naturals, Sequences, FiniteSets

CONSTANTS
  Components,    \* those that move, one in each behaviour
  Capacity,      \* watch.ingress.queue_capacity
  Tasks, GateEvents, Armed, MaxConcurrentWorkers, Boundaries,
  FeedKinds, PageSize, MaxPages, FeedLength, PollFaults,
  Reports, Issues, IssueOf, Facts, Untypable, TickLimit, Edits, ReportFaults, MaxCrashes,
  Shas, Cap, MaxAttempts, CiFaults, MaxRestarts

VARIABLES
  focus,         \* the component that moves in this behaviour
  ready, blocked, held, ran, inflight, previousReady, previousBlocked,
  slotReleased, windowKnown, dayMoved, gateQueue, degraded, gateAccepted,
  evaluated, gateLost, phase, boundaries, candidates, peeked,
  feed, etag, pollerBaselined, boundary, pollerDeliveries, aged, pollerQueue,
  mirrored, pollerPc, tag, items, pages, last, top, at, beyond, pollerFaults,
  judged, cut, born, times, lapsed,
  intakeAccepted, store, intakePc, batch, failed, fresh, needs, board, edits,
  intakeFaults, crashes, raced, attached, dropped, intakeLost,
  attempt, run, check, runsTag, checkTag, ciBaselined, ciDeliveries, tracked,
  initialized, lastSnapshot, ciPc, snapshot, todo, quiet, ciFaults, restarts,
  emitted

Gate == INSTANCE Kickoff WITH
  Events <- GateEvents, MaxBoundaries <- Boundaries,
  queue <- gateQueue, accepted <- gateAccepted, lost <- gateLost

Poller == INSTANCE EventPoller WITH
  Kinds <- FeedKinds, MaxEvents <- FeedLength, MaxFaults <- PollFaults,
  baselined <- pollerBaselined, deliveries <- pollerDeliveries,
  queue <- pollerQueue, pc <- pollerPc, faults <- pollerFaults

Intake == INSTANCE IntakeLane WITH
  Events <- Reports, MaxEdits <- Edits, MaxFaults <- ReportFaults,
  accepted <- intakeAccepted, pc <- intakePc, faults <- intakeFaults, lost <- intakeLost

Ci == INSTANCE CiLane WITH
  MaxFaults <- CiFaults, baselined <- ciBaselined, deliveries <- ciDeliveries,
  pc <- ciPc, faults <- ciFaults

(* What the constants of the code justify: its limits are natural numbers, *)
(* none of them zero; reports and SHAs are numbered in their order.        *)
ASSUME IngressAssumption ==
  /\ Gate!KickoffAssumption /\ Poller!EventPollerAssumption
  /\ Intake!IntakeAssumption /\ Ci!CiLaneAssumption

(* Values for the configurations.  The third report is a late redelivery   *)
(* of the first, the fourth the loop's own.                                *)
Redelivered == [e \in Reports |-> <<1, 2, 1, 3>>[e]]
Person(bot) == [login |-> "plain", bot |-> bot]
MixedAuthors ==
  [e \in Reports |-> CASE e = 2 -> Person("unknown")
                       [] e = 4 -> [login |-> "service", bot |-> "yes"]
                       [] OTHER -> Person("no")]

gateState == <<ready, blocked, held, ran, inflight, previousReady,
               previousBlocked, slotReleased, windowKnown, dayMoved,
               gateQueue, degraded, gateAccepted, evaluated, gateLost, phase,
               boundaries, candidates, peeked>>
pollerState == <<feed, etag, pollerBaselined, boundary, pollerDeliveries,
                 aged, pollerQueue, mirrored, pollerPc, tag, items, pages,
                 last, top, at, beyond, pollerFaults, judged, cut, born,
                 times, lapsed>>
intakeState == <<intakeAccepted, store, intakePc, batch, failed, fresh,
                 needs, board, edits, intakeFaults, crashes, raced, attached,
                 dropped, intakeLost>>
ciState == <<attempt, run, check, runsTag, checkTag, ciBaselined,
             ciDeliveries, tracked, initialized, lastSnapshot, ciPc,
             snapshot, todo, quiet, ciFaults, restarts, emitted>>
vars == <<focus, gateState, pollerState, intakeState, ciState>>

(* The components do not meet: one of them moves, the others stay as they *)
(* begin.                                                                 *)
Init ==
  /\ focus \in Components
  /\ Gate!Init /\ (focus # "gate" => ready = {})
  /\ Poller!Init /\ (focus # "poller" => feed = <<>>)
  /\ Intake!Init /\ (focus # "intake" => \A i \in Issues : board[i].type = "unset")
  /\ Ci!Init

Next ==
  \/ /\ focus = "gate" /\ Gate!Next
     /\ UNCHANGED <<focus, pollerState, intakeState, ciState>>
  \/ /\ focus = "poller" /\ Poller!Next
     /\ UNCHANGED <<focus, gateState, intakeState, ciState>>
  \/ /\ focus = "intake" /\ Intake!Next
     /\ UNCHANGED <<focus, gateState, pollerState, ciState>>
  \/ /\ focus = "ci" /\ Ci!Next
     /\ UNCHANGED <<focus, gateState, pollerState, intakeState>>

Fairness ==
  /\ SF_gateState(focus = "gate" /\ Gate!Gate)
  /\ WF_gateState(focus = "gate" /\ Gate!Plan)
  /\ \A t \in Tasks : WF_gateState(focus = "gate" /\ Gate!Reap(t))
  /\ WF_pollerState(focus = "poller" /\ Poller!Poll)
  /\ WF_intakeState(focus = "intake" /\ Intake!Tick)
  /\ WF_ciState(focus = "ci" /\ Ci!PollRepo)

Spec == Init /\ [][Next]_vars

FairSpec == Spec /\ Fairness

-----------------------------------------------------------------------------
(* Well typed, all four; and the loop's queue, the delivery keys and the   *)
(* tracked SHAs stay within their capacities.                              *)
IngressTypeOK == Gate!TypeOK /\ Poller!TypeOK /\ Intake!TypeOK /\ Ci!TypeOK

(* Every event the loop's queue accepted is pending, was put before a gate *)
(* that let the pass proceed, or was visibly lost: the drain after the     *)
(* planner's await takes none that arrived in between.  And the poller's   *)
(* boundary jumps over no event, accepts none twice within the redelivery  *)
(* window and takes none from before its baseline, however the feed grows  *)
(* between pages and wherever a poll fails.                                *)
EventsAccounted ==
  /\ Gate!EventsAccounted
  /\ Poller!NothingJumpedOver /\ Poller!AcceptedOnce /\ Poller!BaselineSilent

(* A report the intake lane is done with is complete on the board, and the *)
(* CI lane follows every SHA that the answer it works from reports in      *)
(* flight, at the cap as well.                                             *)
LanesComplete == Intake!FinishedIsComplete /\ Ci!InFlightFollowed

(* A retried attach reverses no field that somebody set between two tries. *)
PromotionsKept == Intake!PromotionsKept

(* Under a loop and lanes that keep polling, whatever boundaries,          *)
(* refusals, failed spawns, faults and restarts come between: no eligible  *)
(* task is forgotten by the gate and no armed event stays pending; every   *)
(* published event is judged, every attachable report arrives next to one  *)
(* that always fails, a SHA in flight is found again after a restart, and  *)
(* a completion becomes an event.                                          *)
IngressLive ==
  /\ Gate!NoTaskForgotten /\ Gate!EventsConsumed
  /\ Poller!EventuallyJudged
  /\ Intake!EventuallyAttached
  /\ Ci!InFlightFound /\ Ci!CompletionEmitted

(* "A daemon restart re-attaches from durable state instead of memory"     *)
(* (intake.rs), with a crash and without any other failure.                *)
RestartReattaches == Intake!RestartReattaches
=============================================================================
