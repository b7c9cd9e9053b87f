------------------------------- MODULE Workspace ------------------------------
(***************************************************************************)
(* The workspace controller: a snapshot of a commit is written into a      *)
(* directory path by path, a worker edits the directory, and a             *)
(* reconciliation compares it with the manifest; and the delivery path,    *)
(* which provisions a worktree, commits in it, pushes and opens a draft    *)
(* pull request.                                                           *)
(* The source repository's HEAD and the remote branch move meanwhile.      *)
(***************************************************************************)
EXTENDS Naturals, FiniteSets

CONSTANTS Paths, Kinds, Sparse, MaxHeads, MaxEdits, MaxFaults

VARIABLES
  head, tree,         \* source repository: HEAD, the kind of every path of the base commit
  snap,               \* the call: step, base, head at creation, paths left
  files, manifest,    \* workspace: path -> content ("absent" when there is none)
  report,             \* reconciliation: step, paths left, mutations found, head seen
  changed,            \* history: paths the worker changed since the snapshot
  dirty, local, remote, diverged, pr, deliver,
                      \* delivery: worktree, commits here, of those at the remote, others' commits there
  edits, faults

workspaceVars == <<head, tree, snap, files, manifest, report, changed, dirty, local, remote, diverged,
                   pr, deliver, edits, faults>>
delivery == <<dirty, local, remote, diverged, pr, deliver>>
checkout == <<head, tree, snap, files, manifest, report, changed>>
Off == [step |-> "off", left |-> {}, found |-> {}, head |-> 0, touched |-> {}]

WorkspaceInit ==
  /\ head = 1 /\ tree \in [Paths -> Kinds]
  /\ snap = [step |-> "resolve", base |-> 0, head |-> 0, left |-> Paths, failed |-> FALSE]
  /\ files = [p \in Paths |-> "absent"] /\ manifest = [p \in Paths |-> "absent"]
  /\ report = Off /\ changed = {} /\ edits = 0 /\ faults = 0
  /\ dirty = FALSE /\ local = 0 /\ remote = 0 /\ diverged = FALSE /\ pr = 0 /\ deliver = "none"

(* create_snapshot: the revision is resolved, ... *)
ResolveBase ==
  /\ snap.step = "resolve" /\ snap' = [snap EXCEPT !.step = "write", !.base = head]
  /\ UNCHANGED <<head, tree, files, manifest, report, changed, delivery, edits, faults>>

(* is_sparse_visible, safe_entry_name, ensure_confined_symlink *)
Visible(p) == Sparse = {} \/ p \in Sparse
(* Mutant: a link is written without a look at its target. *)
MutantUnsafe(kind) == kind = "dotgit"
Unsafe(kind) == kind \in {"dotgit", "escapingLink"}

(* ... each entry written and digested in turn; an unsafe one ends the call with the paths     *)
(* before it on disk.  The name is checked before the sparse filter, a link's target after it. *)
Materialize(p) ==
  /\ snap.step = "write" /\ p \in snap.left /\ \A q \in snap.left : p <= q
  /\ LET stops == Unsafe(tree[p]) /\ (tree[p] = "dotgit" \/ Visible(p))
         writes == ~stops /\ Visible(p) IN
       /\ snap' = IF stops THEN [snap EXCEPT !.step = "over", !.failed = TRUE]
                  ELSE [snap EXCEPT !.left = @ \ {p}]
       /\ files' = IF writes THEN [files EXCEPT ![p] = tree[p]] ELSE files
       /\ manifest' = IF writes THEN [manifest EXCEPT ![p] = tree[p]] ELSE manifest
  /\ UNCHANGED <<head, tree, report, changed, delivery, edits, faults>>

(* ... and HEAD is read last, for the drift check. *)
FinishSnapshot ==
  /\ snap.step = "write" /\ snap.left = {} /\ snap' = [snap EXCEPT !.step = "ready", !.head = head]
  /\ UNCHANGED <<head, tree, files, manifest, report, changed, delivery, edits, faults>>

(* reconcile_external_mutations: HEAD, then every manifest path; a missing file is an error. *)
StartReconcile ==
  /\ snap.step = "ready" /\ report.step \in {"off", "done", "error"}
  /\ report' = [Off EXCEPT !.step = "digest", !.left = {p \in Paths : manifest[p] # "absent"},
                           !.head = head]
  /\ UNCHANGED <<head, tree, snap, files, manifest, changed, delivery, edits, faults>>

(* Mutant: only a file that is gone counts. *)
MutantMutated(p) == files[p] = "absent"
Mutated(p) == files[p] # manifest[p]

DigestPath(p) ==
  /\ report.step = "digest" /\ p \in report.left /\ \A q \in report.left : p <= q
  /\ report' = IF files[p] = "absent" THEN [report EXCEPT !.step = "error"]
               ELSE [report EXCEPT !.left = @ \ {p}, !.found = IF Mutated(p) THEN @ \union {p} ELSE @]
  /\ UNCHANGED <<head, tree, snap, files, manifest, changed, delivery, edits, faults>>

EndReconcile ==
  /\ report.step = "digest" /\ report.left = {} /\ report' = [report EXCEPT !.step = "done"]
  /\ UNCHANGED <<head, tree, snap, files, manifest, changed, delivery, edits, faults>>

(* The worker edits, removes or creates files; the source repository moves. *)
Edit ==
  /\ edits < MaxEdits /\ edits' = edits + 1 /\ snap.step = "ready"
  /\ \E p \in Paths, c \in {"edited", "absent"} :
       /\ files[p] # c /\ files' = [files EXCEPT ![p] = c] /\ changed' = changed \union {p}
       /\ report' = [report EXCEPT !.touched = @ \union {p}]
  /\ UNCHANGED <<head, tree, snap, manifest, delivery, faults>>

SourceMoves ==
  /\ head < MaxHeads /\ head' = head + 1
  /\ UNCHANGED <<tree, snap, files, manifest, report, changed, delivery, edits, faults>>

-----------------------------------------------------------------------------
(* provision_worktree: a malformed branch name or base revision, or a branch or directory that *)
(* git worktree add finds taken, is refused and leaves no worktree.                             *)
ProvisionWorktree ==
  /\ deliver \in {"none", "refused"} /\ deliver' \in {"idle", "refused"}
  /\ UNCHANGED <<checkout, dirty, local, remote, diverged, pr, edits, faults>>

(* The worker writes in the worktree. *)
WorkerChanges ==
  /\ deliver \notin {"none", "refused"}
  /\ edits < MaxEdits /\ edits' = edits + 1 /\ dirty' = TRUE
  /\ UNCHANGED <<checkout, local, remote, diverged, pr, deliver, faults>>

(* commit_all: nothing to commit is an error; staging and commit are one step of the worktree. *)
Resting == {"idle", "failed", "rejected", "nothingToCommit", "opened"}
CommitAll ==
  /\ deliver \in Resting
  /\ IF dirty THEN dirty' = FALSE /\ local' = local + 1 /\ deliver' = "credential"
     ELSE deliver' = "nothingToCommit" /\ UNCHANGED <<dirty, local>>
  /\ UNCHANGED <<checkout, remote, diverged, pr, edits, faults>>

(* The message is empty, the status, the staging or the commit fails, or the commit is made    *)
(* and its id cannot be read.                                                                  *)
CommitFails ==
  /\ deliver \in Resting /\ faults < MaxFaults /\ faults' = faults + 1
  /\ deliver' = "failed"
  /\ \/ UNCHANGED <<dirty, local>>
     \/ dirty /\ dirty' = FALSE /\ local' = local + 1
  /\ UNCHANGED <<checkout, remote, diverged, pr, edits>>

(* push_credential comes before any attempt to push. *)
Credential ==
  /\ deliver = "credential" /\ deliver' = "push"
  /\ UNCHANGED <<checkout, dirty, local, remote, diverged, pr, edits, faults>>

(* push: refused when the branch moved on the other side. *)
Push ==
  /\ deliver = "push"
  /\ IF ~diverged THEN remote' = local /\ deliver' = "open"
     ELSE deliver' = "rejected" /\ UNCHANGED remote
  /\ UNCHANGED <<checkout, dirty, local, diverged, pr, edits, faults>>

(* open_draft_pull_request *)
OpenDraft ==
  /\ deliver = "open" /\ pr' = local /\ deliver' = "opened"
  /\ UNCHANGED <<checkout, dirty, local, remote, diverged, edits, faults>>

(* A failure of the step: the commit stays in the worktree, a push may have arrived. *)
(* Mutant: the commit is undone. *)
MutantKeptCommit == local - 1
KeptCommit == local

StepFails ==
  /\ deliver \in {"credential", "push", "open"} /\ faults < MaxFaults /\ faults' = faults + 1
  /\ deliver' = "failed" /\ local' = KeptCommit
  /\ remote' \in IF deliver = "push" /\ ~diverged THEN {remote, local} ELSE {remote}
  /\ UNCHANGED <<checkout, dirty, diverged, pr, edits>>

(* Somebody else pushes to the task branch. *)
OthersPush ==
  /\ ~diverged /\ remote > 0 /\ diverged' = TRUE
  /\ UNCHANGED <<checkout, dirty, local, remote, pr, deliver, edits, faults>>

WorkspaceNext ==
  \/ ResolveBase \/ FinishSnapshot \/ StartReconcile \/ EndReconcile \/ Edit \/ SourceMoves
  \/ \E p \in Paths : Materialize(p) \/ DigestPath(p)
  \/ ProvisionWorktree \/ WorkerChanges \/ CommitAll \/ CommitFails \/ Credential \/ Push
  \/ OpenDraft \/ StepFails \/ OthersPush

-----------------------------------------------------------------------------
(* A snapshot that is handed out holds exactly the visible paths of its commit, and no failed   *)
(* one is handed out.  A finished reconciliation names every path of the snapshot that the      *)
(* worker had changed before it began, and none that was never changed; it goes through the     *)
(* manifest, so a file the worker created is not among them.  Whatever step of a delivery       *)
(* fails, the remote never holds a commit that the worktree lost, and the pull request shows    *)
(* only pushed ones.                                                                            *)
SnapshotAccounted ==
  /\ snap.step = "ready" =>
       /\ \A p \in Paths : manifest[p] = IF Visible(p) THEN tree[p] ELSE "absent"
       /\ \A p \in Paths : manifest[p] \notin {"dotgit", "escapingLink"} /\ ~snap.failed
  /\ report.step = "done" =>
       /\ report.found \subseteq changed
       /\ {p \in changed \ report.touched : manifest[p] # "absent"} \subseteq report.found
  /\ remote <= local /\ pr <= remote
=============================================================================
