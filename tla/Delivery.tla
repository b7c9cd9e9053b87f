------------------------------ MODULE Delivery -------------------------------
(***************************************************************************)
(* PushBranchDeliverySink: what a worker run does after it finished.  It   *)
(* commits the worktree, lands the committed tree on orc-delivery/<task>   *)
(* through push-branch (module BranchLanding, one lander per delivery) and *)
(* opens a pull request, each as a child process under a timeout.  A task  *)
(* may be delivered again by a later run, in the same worktree, after any  *)
(* of these steps failed; people close the pull request and push to the    *)
(* branch meanwhile.                                                       *)
(***************************************************************************)
EXTENDS BranchLanding

CONSTANTS OtherTrees    \* trees of the checkouts of others, 0 included

DeliveryAssumption ==
  /\ Landers \subseteq Nat /\ 1 \in Landers /\ OtherTrees \subseteq Trees \cup {0}
  /\ MaxFaults \in Nat /\ MaxOutside \in Nat

VARIABLES
  run,            \* the delivery that runs, a lander
  dpc,
  worktree,       \* tree of the files in the worktree
  committed,      \* tree of the local branch
  pr,             \* "none", "open", "closed": the branch's pull request
  outcome,        \* of each delivery
  prWas           \* history: the head's tree at the last time a PR was seen open

dvars == <<run, dpc, worktree, committed, pr, outcome, prWas>>
vars == <<lvars, dvars>>

(* Invocation 0 is somebody's own push-branch of the same branch. *)
Deliveries == Landers \ {0}

DeliveryPcs == {"work", "commit", "landing", "wait", "open_pr", "lookup", "done"}
DELIVERY_BRANCH_STATE_FAILED == "delivery-branch-state-failed"
DELIVERY_PUSH_FAILED == "delivery-push-failed"
DELIVERY_PR_OPEN_FAILED == "delivery-pr-open-failed"
DELIVERY_EMPTY_DIFF == "delivery-empty-diff"
Outcomes == {"none", "pr-opened", DELIVERY_BRANCH_STATE_FAILED, DELIVERY_PUSH_FAILED,
             DELIVERY_PR_OPEN_FAILED, DELIVERY_EMPTY_DIFF}

Init ==
  /\ LandInit
  /\ run = 1 /\ dpc = "work" /\ worktree = 0 /\ committed = 0 /\ pr = "none"
  /\ outcome = [l \in Landers |-> "none"] /\ prWas = [l \in Landers |-> {}]

Ends(o) == dpc' = "done" /\ outcome' = [outcome EXCEPT ![run] = o]
Continues(pc) == dpc' = pc /\ UNCHANGED outcome

(* The run itself: tools edit the worktree, and a mediated script may      *)
(* commit what is there.                                                   *)
Work ==
  /\ dpc = "work"
  /\ worktree' \in Trees \cup {worktree}
  /\ committed' \in {committed, worktree'}
  /\ Continues("commit")
  /\ UNCHANGED <<lvars, run, pr, prWas>>

(* commit_worktree_state.  The branch check may fail before anything is    *)
(* changed.  git commit with nothing to commit exits 1 and says so on      *)
(* stdout, where the code does not look.                                   *)
CommitWorktreeState ==
  /\ dpc = "commit"
  /\ \/ /\ worktree # committed
        /\ committed' = worktree /\ Continues("landing") /\ UNCHANGED lvars
     \/ /\ worktree = committed
        /\ UNCHANGED committed /\ Ends(DELIVERY_BRANCH_STATE_FAILED) /\ UNCHANGED lvars
     \/ /\ UNCHANGED <<committed, head, commits, temp, lander, wasHead, outside>>
        /\ Fault /\ Ends(DELIVERY_BRANCH_STATE_FAILED)
  /\ UNCHANGED <<run, worktree, pr, prWas>>

(* push_branch_landing starts the child.  Every landing of a task carries  *)
(* the same subject line.                                                  *)
StartLanding ==
  /\ dpc = "landing"
  /\ PushBranch(run, committed, "land task", FALSE)
  /\ Continues("wait")
  /\ UNCHANGED <<run, worktree, committed, pr, prWas>>

(* The child's exit.  Nothing to land is an exit status of 0, so the       *)
(* comparison of its stderr below the failure test never sees it.          *)
(* Mutant: the exit status is not looked at. *)
MutantLandingExit(result) == "open_pr"

LandingExit(result) ==
  IF result \in {"landed", "nothing-to-land", "already-verified"} THEN "open_pr" ELSE "push-failed"

LandingReturns ==
  /\ dpc = "wait" /\ lander[run].pc = "done"
  /\ IF LandingExit(lander[run].result) = "open_pr" THEN Continues("open_pr")
     ELSE Ends(DELIVERY_PUSH_FAILED)
  /\ UNCHANGED <<lvars, run, worktree, committed, pr, prWas>>

(* The 300-second timeout drops the child, which is killed. *)
LandingTimesOut ==
  /\ dpc = "wait"
  /\ Kill(run)
  /\ Ends(DELIVERY_PUSH_FAILED)
  /\ UNCHANGED <<run, worktree, committed, pr, prWas>>

(* gh pr create through the labeling chain: it needs the branch and a      *)
(* difference to the base, and refuses a second open PR.  A failure after  *)
(* the PR was made (labels, timeout) still is a failure of the step.       *)
CanCreate == head # 0 /\ pr # "open" /\ commits[head].tree # 0
SeenOpen == prWas' = [prWas EXCEPT ![run] = {commits[c].tree : c \in wasHead}]

OpenPr ==
  /\ dpc = "open_pr"
  /\ \/ /\ CanCreate /\ pr' = "open" /\ SeenOpen /\ Ends("pr-opened") /\ UNCHANGED lvars
     \/ /\ CanCreate /\ pr' \in {pr, "open"} /\ Fault /\ Ends(DELIVERY_PR_OPEN_FAILED)
        /\ UNCHANGED <<prWas, head, commits, temp, lander, wasHead, outside>>
     \/ /\ pr = "open" /\ Continues("lookup") /\ UNCHANGED <<pr, prWas, lvars>>
     \/ /\ pr # "open" /\ ~CanCreate /\ Ends(DELIVERY_PR_OPEN_FAILED)
        /\ UNCHANGED <<pr, prWas, lvars>>
  /\ UNCHANGED <<run, worktree, committed>>

(* gh pr view of the branch: only an OPEN one is the delivery's.  It may   *)
(* have been closed since gh pr create was refused.                        *)
(* Mutant: any pull request the lookup finds is reported. *)
MutantLookupConfirms == pr # "none"
LookupConfirms == pr = "open"

Lookup ==
  /\ dpc = "lookup"
  /\ \/ /\ LookupConfirms /\ Ends("pr-opened") /\ UNCHANGED lvars
        /\ IF pr = "open" THEN SeenOpen ELSE UNCHANGED prWas
     \/ ~LookupConfirms /\ Ends(DELIVERY_PR_OPEN_FAILED) /\ UNCHANGED <<lvars, prWas>>
     \/ /\ Fault /\ Ends(DELIVERY_PR_OPEN_FAILED)
        /\ UNCHANGED <<prWas, head, commits, temp, lander, wasHead, outside>>
  /\ UNCHANGED <<run, worktree, committed, pr>>

(* The loop runs the task again: same worktree, next delivery. *)
NextRun ==
  /\ dpc = "done" /\ run + 1 \in Deliveries
  /\ run' = run + 1 /\ Continues("work")
  /\ UNCHANGED <<lvars, worktree, committed, pr, prWas>>

(* A person closes or merges the pull request. *)
ClosePr ==
  /\ pr = "open" /\ pr' = "closed" /\ outside < MaxOutside /\ outside' = outside + 1
  /\ UNCHANGED <<head, commits, temp, lander, wasHead, faults,
                 run, dpc, worktree, committed, outcome, prWas>>

(* A person runs push-branch, or --re-land, from another checkout, which may hold what an *)
(* outsider pushed.                                                                        *)
OtherPush ==
  /\ 0 \in Landers
  /\ \E tree \in OtherTrees, re_land \in BOOLEAN : PushBranch(0, tree, "other", re_land)
  /\ UNCHANGED dvars

Landing == \E l \in Landers : LandStep(l) /\ UNCHANGED dvars
People == Outsider /\ UNCHANGED dvars
Deliver == CommitWorktreeState \/ StartLanding \/ LandingReturns \/ OpenPr \/ Lookup

Next ==
  \/ Work \/ CommitWorktreeState \/ StartLanding \/ LandingReturns \/ LandingTimesOut
  \/ OpenPr \/ Lookup \/ NextRun \/ ClosePr \/ OtherPush \/ Landing \/ People

Spec == Init /\ [][Next]_vars

(* Child processes make progress or are killed at their timeout, and the   *)
(* delivery task is polled; nobody promises another run.                   *)
FairSpec == Spec /\ WF_vars(Deliver) /\ WF_vars(Landing) /\ WF_vars(Work)

-----------------------------------------------------------------------------
TypeOK ==
  /\ LandTypeOK
  /\ run \in Deliveries /\ dpc \in DeliveryPcs /\ pr \in {"none", "open", "closed"}
  /\ {worktree, committed} \subseteq Trees \cup {0}
  /\ \A l \in Landers : outcome[l] \in Outcomes

(* A delivery that says pr-opened saw an open pull request, and the tree   *)
(* it committed (unless that is the base's own) had been on the branch by  *)
(* then: a push that failed, was refused or was killed never turns into a  *)
(* reported delivery.                                                      *)
OpenedHoldsWork ==
  \A l \in Landers : outcome[l] = "pr-opened" => lander[l].tree \in prWas[l] \cup {0}

Ended == outcome[run] # "none"

(* Every delivery comes to an outcome. *)
DeliveryEnds == []<>Ended

(* open_pr's promise: a rerun that already landed its commit must not fail *)
(* the run.  Said of a rerun that met no fault of its own: the branch      *)
(* holds the tree in the worktree and its pull request is open.            *)
RerunSucceeds ==
  (dpc = "done" /\ pr = "open" /\ head # 0 /\ faults = 0 /\ outside = 0
     /\ commits[head].tree = worktree)
  => outcome[run] = "pr-opened"

(* The typed reason's promise: a run whose tree is the base's reports      *)
(* delivery-empty-diff.                                                    *)
EmptyDiffNamed ==
  (dpc = "done" /\ head = 0 /\ faults = 0 /\ worktree = 0) => outcome[run] = DELIVERY_EMPTY_DIFF
=============================================================================
