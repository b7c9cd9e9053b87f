---------------------------- MODULE BranchLanding ----------------------------
(***************************************************************************)
(* orc github push-branch: concurrent invocations that each land the tree  *)
(* of a local branch as one signed commit on the same remote branch, over  *)
(* a GraphQL API whose answers may be lost after the mutation took effect. *)
(* A lander reads the remote head, computes its change set against it,     *)
(* commits on a temporary branch of its own, checks tree and signature     *)
(* there, and only then moves the real branch.                             *)
(*                                                                         *)
(* A tree is a number; a commit is its position in commits.  Everything    *)
(* GitHub does is external, modelled by what the code relies on.           *)
(***************************************************************************)
EXTENDS Naturals, Sequences, FiniteSets

CONSTANTS
  Landers,        \* invocations of push-branch
  Trees,          \* trees of a delivery; 0 is any other tree
  MaxFaults,      \* bound: API answers lost, reads and gates failed
  MaxOutside      \* bound: moves of the branch by somebody else

VARIABLES
  head,           \* refs/heads/<remote_branch>: a commit, 0 when absent
  commits,        \* every commit object: tree, parent, verified, subject
  temp,           \* each lander's temporary ref, 0 when absent
  lander,
  wasHead,        \* history: commits the branch pointed at
  faults, outside

lvars == <<head, commits, temp, lander, wasHead, faults, outside>>

Commit(tree, parent, verified, subject) ==
  [tree |-> tree, parent |-> parent, verified |-> verified, subject |-> subject]

Base == 1                                       \* head of the base branch
BaseCommit == Commit(0, 0, TRUE, "base")

NoLander == [pc |-> "idle", tree |-> 0, subject |-> "none", re_land |-> FALSE,
             observed |-> 0, new |-> 0, sure |-> TRUE, result |-> "none"]

LandPcs == {"idle", "read", "bootstrap", "commit", "drop-temp", "swing", "verify", "clean", "done"}
Results == {"none", "landed", "nothing-to-land", "already-verified", "duplicate-subject",
            "refused", "failed", "killed"}

LandInit ==
  /\ head = 0 /\ commits = <<BaseCommit>> /\ wasHead = {}
  /\ temp = [l \in Landers |-> 0]
  /\ lander = [l \in Landers |-> NoLander]
  /\ faults = 0 /\ outside = 0

Fault == faults < MaxFaults /\ faults' = faults + 1
NoFault == faults' = faults

End(l, result) == [lander[l] EXCEPT !.pc = "done", !.result = result]
SetLander(l, r) == lander' = [lander EXCEPT ![l] = r]

(* Where the change set and the landing start: the remote head when the    *)
(* branch exists, the base commit otherwise.                               *)
From(observed) == IF observed = 0 THEN Base ELSE observed

-----------------------------------------------------------------------------
(* Arguments, the enforcement gate and the local tree; the --expect-tree   *)
(* gate refuses before anything is touched.                                *)
PushBranch(l, tree, subject, re_land) ==
  /\ lander[l].pc = "idle"
  /\ \/ /\ SetLander(l, [NoLander EXCEPT !.pc = "read", !.tree = tree,
                                         !.subject = subject, !.re_land = re_land])
        /\ NoFault
     \/ SetLander(l, End(l, "refused")) /\ Fault
  /\ UNCHANGED <<head, commits, temp, wasHead, outside>>

(* remote_head_tree: the tree of the observed head, fetched when it is not here. *)
HeadTree(observed) == commits[From(observed)].tree

(* reject_duplicate_subjects; a subject that could not be read refuses nothing. *)
DuplicateSubject(l, readable, subject) == readable /\ subject = lander[l].subject

(* re_land_unsigned_head: an existing branch whose head is not verified. *)
ReLand(l, observed) ==
  IF observed = 0 THEN End(l, "failed")
  ELSE IF commits[observed].verified THEN End(l, "already-verified")
  ELSE [lander[l] EXCEPT !.observed = observed, !.pc = "bootstrap"]

(* What follows the read of a head: the empty-diff gate, the duplicate-    *)
(* subject guard (skipped when the subject cannot be read), and the two    *)
(* ways to go on.  Objects never change, so this is one step with the read. *)
AfterRead(l, observed, guard) ==
  LET empty == HeadTree(observed) = lander[l].tree
  IN  IF empty /\ ~lander[l].re_land THEN End(l, "nothing-to-land")
      ELSE IF DuplicateSubject(l, guard, commits[From(observed)].subject) THEN End(l, "duplicate-subject")
      ELSE IF empty THEN ReLand(l, observed)
      ELSE [lander[l] EXCEPT !.observed = observed, !.pc = "bootstrap"]

ReadHead(l) ==
  /\ lander[l].pc = "read"
  /\ \/ SetLander(l, AfterRead(l, head, TRUE)) /\ NoFault
     \/ SetLander(l, AfterRead(l, head, FALSE)) /\ Fault
     \/ SetLander(l, End(l, "failed")) /\ Fault
  /\ UNCHANGED <<head, commits, temp, wasHead, outside>>

(* bootstrap_temp_branch: createRef under a fresh name.  When the answer   *)
(* is lost the ref may be there all the same, and nobody deletes it.       *)
BootstrapTempBranch(l) ==
  /\ lander[l].pc = "bootstrap"
  /\ \/ /\ temp' = [temp EXCEPT ![l] = From(lander[l].observed)]
        /\ SetLander(l, [lander[l] EXCEPT !.pc = "commit"]) /\ NoFault
     \/ /\ temp' \in {temp, [temp EXCEPT ![l] = From(lander[l].observed)]}
        /\ SetLander(l, End(l, "failed")) /\ Fault
  /\ UNCHANGED <<head, commits, wasHead, outside>>

(* delete_ref is best effort: on a fault the temporary ref stays. *)
DeleteTemp(l) ==
  \/ temp' = [temp EXCEPT ![l] = 0] /\ NoFault
  \/ temp' = temp /\ Fault

(* build_file_changes carries no modes: an added executable lands as 100644, and the commit's *)
(* tree is then another one.                                                                  *)
LandedTrees(l) == {lander[l].tree, 0}

(* create_commit_on_branch: one commit on the temporary branch, with the tree and the *)
(* signature that GitHub says it has.                                                 *)
CreateCommitOnBranch(l, tree, verified) ==
  commits' = Append(commits, Commit(tree, temp[l], verified, lander[l].subject))

(* Mutant: the gate looks at the signature only. *)
MutantVerifyLandedCommit(l, c) == c.verified

VerifyLandedCommit(l, c) == c.tree = lander[l].tree /\ c.verified

(* --re-land of a branch that holds the tree already: an empty commit on top. *)
ReLands(l) == lander[l].re_land /\ commits[From(lander[l].observed)].tree = lander[l].tree

LandOnTempBranch(l) ==
  /\ lander[l].pc = "commit"
  /\ \/ \E tree \in LandedTrees(l), verified \in BOOLEAN :
          /\ CreateCommitOnBranch(l, tree, verified)
          /\ LET c == commits'[Len(commits')]
                 next == IF ReLands(l) THEN "drop-temp" ELSE "swing"
             IN  IF VerifyLandedCommit(l, c)
                 THEN /\ SetLander(l, [lander[l] EXCEPT !.pc = next, !.new = Len(commits')])
                      /\ temp' = [temp EXCEPT ![l] = Len(commits')]
                      /\ NoFault
                 ELSE /\ SetLander(l, End(l, "failed"))
                      /\ Fault /\ temp' = [temp EXCEPT ![l] = 0]
     \/ /\ UNCHANGED commits
        /\ SetLander(l, End(l, "failed"))
        /\ Fault /\ temp' \in {temp, [temp EXCEPT ![l] = 0]}
  /\ UNCHANGED <<head, wasHead, outside>>

(* A re-landing drops its temporary ref before it moves the real one. *)
DropTempEarly(l) ==
  /\ lander[l].pc = "drop-temp"
  /\ DeleteTemp(l)
  /\ SetLander(l, [lander[l] EXCEPT !.pc = "swing"])
  /\ UNCHANGED <<head, commits, wasHead, outside>>

-----------------------------------------------------------------------------
MoveHead(c) == head' = c /\ wasHead' = wasHead \cup {c}

(* GitHub's side of the two mutations that move the real branch:           *)
(* updateRefs with beforeOid, createRef.                                   *)
(* Mutant: updateRefs without the beforeOid precondition. *)
MutantAccepts(l) == TRUE

Accepts(l) == head = lander[l].observed

(* The move and its answer.  A new branch believes the answer of createRef *)
(* alone; an existing one is read again in any case, and a refusal or a    *)
(* lost answer is remembered by sure = FALSE.                              *)
Swing(l) ==
  /\ lander[l].pc = "swing"
  /\ LET created == lander[l].observed = 0
         to(pc, sure, result) == [lander[l] EXCEPT !.pc = pc, !.sure = sure, !.result = result]
     IN  \/ /\ Accepts(l) /\ MoveHead(lander[l].new) /\ NoFault
            /\ SetLander(l, IF created THEN to("clean", TRUE, "landed") ELSE to("verify", TRUE, "none"))
         \/ /\ ~Accepts(l) /\ UNCHANGED <<head, wasHead>> /\ NoFault
            /\ SetLander(l, IF created THEN to("clean", TRUE, "failed") ELSE to("verify", FALSE, "none"))
         \/ /\ Fault
            /\ \/ Accepts(l) /\ MoveHead(lander[l].new)
               \/ UNCHANGED <<head, wasHead>>
            /\ SetLander(l, IF created THEN to("clean", TRUE, "failed") ELSE to("verify", FALSE, "none"))
  /\ UNCHANGED <<commits, temp, outside>>

(* move_ref_with_precondition after the mutation: the branch is read       *)
(* again, and only the new head there is a success; a failed read is a     *)
(* failure.                                                                *)
(* Mutant: an answer without errors is believed. *)
MutantVerifyMove(l) ==
  /\ lander[l].pc = "verify"
  /\ SetLander(l, [lander[l] EXCEPT !.pc = "clean", !.result = "landed"])
  /\ NoFault
  /\ UNCHANGED <<head, commits, temp, wasHead, outside>>

VerifyMove(l) ==
  /\ lander[l].pc = "verify"
  /\ \/ /\ SetLander(l, [lander[l] EXCEPT !.pc = "clean",
                           !.result = IF head = lander[l].new THEN "landed" ELSE "failed"])
        /\ NoFault
     \/ /\ SetLander(l, [lander[l] EXCEPT !.pc = "clean", !.result = "failed"])
        /\ Fault
  /\ UNCHANGED <<head, commits, temp, wasHead, outside>>

(* The temporary ref goes whether the swing succeeded or not; a re-landing is done with its own. *)
(* Mutant: a failed swing returns before the temporary ref is deleted. *)
MutantCleanUp(l) ==
  /\ lander[l].pc = "clean"
  /\ IF lander[l].result = "landed" THEN DeleteTemp(l) ELSE temp' = temp /\ NoFault
  /\ SetLander(l, [lander[l] EXCEPT !.pc = "done"])
  /\ UNCHANGED <<head, commits, wasHead, outside>>

CleanUp(l) ==
  /\ lander[l].pc = "clean"
  /\ IF ReLands(l) THEN temp' = temp /\ NoFault ELSE DeleteTemp(l)
  /\ SetLander(l, [lander[l] EXCEPT !.pc = "done"])
  /\ UNCHANGED <<head, commits, wasHead, outside>>

(* The caller gives up and kills the process between two of its requests.  *)
Kill(l) ==
  /\ lander[l].pc \notin {"idle", "done"}
  /\ SetLander(l, End(l, "killed"))
  /\ Fault
  /\ UNCHANGED <<head, commits, temp, wasHead, outside>>

(* Somebody else pushes a commit of their own, or winds the branch back.   *)
Outsider ==
  /\ outside < MaxOutside /\ outside' = outside + 1 /\ head # 0
  /\ \/ /\ commits' = Append(commits, Commit(0, head, FALSE, "outside"))
        /\ MoveHead(Len(commits'))
     \/ /\ commits[head].parent # 0
        /\ MoveHead(commits[head].parent)
        /\ UNCHANGED commits
  /\ UNCHANGED <<temp, lander, faults>>

LandStep(l) ==
  \/ ReadHead(l) \/ BootstrapTempBranch(l) \/ LandOnTempBranch(l) \/ DropTempEarly(l)
  \/ Swing(l) \/ VerifyMove(l) \/ CleanUp(l)

-----------------------------------------------------------------------------
LandTypeOK ==
  /\ head \in 0 .. Len(commits) /\ wasHead \subseteq 1 .. Len(commits)
  /\ \A i \in 1 .. Len(commits) :
       /\ commits[i].tree \in Trees \cup {0} /\ commits[i].parent \in 0 .. (i - 1)
       /\ commits[i].verified \in BOOLEAN
  /\ \A l \in Landers :
       /\ lander[l].pc \in LandPcs /\ lander[l].result \in Results
       /\ {lander[l].observed, lander[l].new, temp[l]} \subseteq 0 .. Len(commits)
  /\ faults \in 0 .. MaxFaults /\ outside \in 0 .. MaxOutside

(* Whatever else moves the branch meanwhile, a landing only ever puts a    *)
(* verified commit of its own tree directly on top of the head its change  *)
(* set was computed against: nobody's commit is dropped.                   *)
LandingExtendsHead ==
  [][\A l \in Landers :
       (Swing(l) /\ head' # head) =>
          /\ commits[head'].parent = From(head)
          /\ commits[head'].verified /\ commits[head'].tree = lander[l].tree]_lvars

(* "landed" is only said of a commit the branch really pointed at, and an  *)
(* invocation that met no fault leaves no temporary branch behind.         *)
LandedIsTrue ==
  \A l \in Landers :
    /\ lander[l].result = "landed" => lander[l].new \in wasHead
    /\ lander[l].pc = "done" /\ faults = 0 => temp[l] = 0
=============================================================================
