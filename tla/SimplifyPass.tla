----------------------------- MODULE SimplifyPass -----------------------------
(***************************************************************************)
(* orc simplify run.  The pass calls the repository's own tools one after  *)
(* the other, each in a process group with a deadline, turns what they     *)
(* print into suggestions, lets some of them rewrite files, marks what was *)
(* fixed, and reports (the tools' statuses are only printed, and left out  *)
(* here).  A finding is what a tool would print of the work tree as it is; *)
(* "what" tells apart findings that differ in their text only.  A          *)
(* developer edits the work tree all the while.                            *)
(***************************************************************************)
EXTENDS Naturals, FiniteSets

CONSTANTS Universe,       \* findings: class, path, line, rule, what
          Runs,           \* command lines and configurations
          Paths,          \* programs that are on PATH
          StagedFiles,    \* git diff --cached; nothing when the index is empty
          PathArgs,       \* values of --path
          MaxTreeEdits    \* bound: edits of the developer

VARIABLES
  args,           \* command line and configuration
  tree,           \* findings of the work tree
  available,      \* programs on PATH
  step,           \* the invocation that comes next or is under way
  child,          \* its process group, and processes that left it
  result,         \* what the invocation came to
  found, applied, \* suggestions, and the ones marked applied
  exit,
  gone, rewrote,  \* findings once seen to be gone; steps that wrote files
  treeEdits

simplifyVars == <<args, tree, available, step, child, result, found, applied,
                  exit, gone, rewrote, treeEdits>>

Programs == {"cargo", "rumdl", "cargo-machete"}
Program(s) == CASE s \in {"rumdl", "rumdlApply"} -> "rumdl"
                [] s = "machete" -> "cargo-machete"
                [] OTHER -> "cargo"
Probed == {"fmt", "rumdl", "clippy", "machete"}
Writing == {"fmtApply", "rumdlApply", "clippyFix"}

NoChild == [leader |-> FALSE, helper |-> FALSE, stray |-> FALSE]
NoResult == [state |-> "none", out |-> {}, tree |-> {}]

SimplifyArgs ==
  [config : {"ok", "unresolvable", "disabled", "zeroBound"}, fix : {"none", "format", "safe"},
   staged : BOOLEAN, scoped : BOOLEAN, gitWorks : BOOLEAN, pedanticCheck : BOOLEAN,
   autoFormat : BOOLEAN, autoSafe : BOOLEAN]

SimplifyInit ==
  /\ args \in Runs \cap SimplifyArgs /\ tree \in {{}, Universe}
  /\ available \in Paths \cap SUBSET Programs
  /\ step = "start" /\ child = NoChild /\ result = NoResult
  /\ found = {} /\ applied = {} /\ exit = "none"
  /\ gone = {} /\ rewrote = {} /\ treeEdits = 0

(* A staged run applies nothing: fixes would rewrite hunks that are not staged. *)
(* Mutant: the scope limits the report only. *)
MutantFix == args.fix
Fix == IF args.staged THEN "none" ELSE args.fix
ApplyFormat == Fix \in {"format", "safe"} /\ args.autoFormat
ApplySafe == Fix = "safe" /\ args.autoSafe

(* A configuration that cannot be used, or a disabled pass: nothing runs. *)
Start ==
  /\ step = "start"
  /\ IF args.config = "ok" THEN step' = "fmt" /\ UNCHANGED exit
     ELSE step' = "done" /\ exit' = "skipped"
  /\ UNCHANGED <<args, tree, available, child, result, found, applied, gone,
                 rewrote, treeEdits>>

(* The rule a step is about; of clippy, all that are nobody else's. *)
Own(s, f) ==
  CASE s \in {"fmt", "fmtApply"} -> f.rule = "rustfmt"
    [] s \in {"rumdl", "rumdlApply"} -> f.rule = "rumdl"
    [] s = "machete" -> f.rule = "unused-dependency"
    [] OTHER -> f.rule \notin {"rustfmt", "rumdl", "unused-dependency"}
Idle == result = NoResult /\ child = NoChild
Unavailable == [state |-> "unavailable", out |-> {}, tree |-> {}]

(* SimplifyExecutor::available, and Command::spawn. *)
NotRun ==
  /\ step \notin {"start", "report", "done"} /\ Idle
  /\ \/ step \in Probed /\ Program(step) \notin available
     \/ Program(step) \in available
  /\ result' = Unavailable
  /\ UNCHANGED <<args, tree, available, step, child, found, applied, exit, gone,
                 rewrote, treeEdits>>

Spawn ==
  /\ step \notin {"start", "report", "done"} /\ Idle /\ Program(step) \in available
  /\ \E h, s \in BOOLEAN : child' = [leader |-> TRUE, helper |-> h, stray |-> s]
  /\ UNCHANGED <<args, tree, available, step, result, found, applied, exit, gone,
                 rewrote, treeEdits>>

(* A tool fixes one finding; the fix may move another of the same file. *)
Rewrite ==
  /\ step \in Writing /\ (child.leader \/ child.helper)
  /\ \E f \in {f \in tree : Own(step, f) /\ (step = "clippyFix" => f.class = "SafeFix")} :
       \/ tree' = tree \ {f}
       \/ \E g \in tree \ {f} : \E h \in Universe \ tree :
            /\ g.path = f.path /\ h = [g EXCEPT !.line = h.line]
            /\ tree' = (tree \ {f, g}) \cup {h}
  /\ rewrote' = rewrote \cup {step}
  /\ UNCHANGED <<args, available, step, child, result, found, applied, exit, gone,
                 treeEdits>>

(* The child ends.  A check that succeeds has printed all there is, one    *)
(* that fails some of it; a formatter succeeds when nothing is left, while *)
(* clippy --fix leaves what it cannot fix.                                 *)
Ends ==
  /\ child.leader /\ child' = [child EXCEPT !.leader = FALSE]
  /\ LET own == {f \in tree : Own(step, f)}
     IN  \/ /\ step \in {"fmtApply", "rumdlApply"} => own = {}
            /\ result' = [state |-> "ok", out |-> own, tree |-> tree]
         \/ \E out \in SUBSET own : result' = [state |-> "fail", out |-> out, tree |-> tree]
  /\ UNCHANGED <<args, tree, available, step, found, applied, exit, gone, rewrote,
                 treeEdits>>

(* The deadline, or a try_wait that fails: terminate_tree ends the group. *)
(* Mutant: only the child is killed. *)
MutantTerminateTree == [child EXCEPT !.leader = FALSE]
TerminateTree == [child EXCEPT !.leader = FALSE, !.helper = FALSE]
TimesOut ==
  /\ child.leader /\ child' = TerminateTree /\ result' = Unavailable
  /\ UNCHANGED <<args, tree, available, step, found, applied, exit, gone, rewrote,
                 treeEdits>>

(* A process that holds the pipes ends by itself. *)
DescendantEnds ==
  /\ \/ child.helper /\ child' = [child EXCEPT !.helper = FALSE]
     \/ child.stray /\ child' = [child EXCEPT !.stray = FALSE]
  /\ UNCHANGED <<args, tree, available, step, result, found, applied, exit, gone,
                 rewrote, treeEdits>>

AfterStep ==
  LET onPath == Program(step) \in available IN
  CASE step = "fmt"          -> IF onPath /\ ApplyFormat THEN "fmtApply" ELSE "rumdl"
    [] step = "fmtApply"     -> "rumdl"
    [] step = "rumdl"        -> IF onPath /\ ApplyFormat THEN "rumdlApply" ELSE "clippy"
    [] step = "rumdlApply"   -> "clippy"
    [] step = "clippy"       -> IF result.state # "unavailable" /\ ApplySafe THEN "clippyFix"
                                ELSE "machete"
    [] step = "clippyFix"    -> IF result.state = "ok" THEN "clippyVerify" ELSE "machete"
    [] step = "clippyVerify" -> "machete"
    [] step = "machete"      -> "report"

(* The identity of a suggestion across a fix leaves the line out, that of  *)
(* the report the text.                                                    *)
Same(f, g) == f.class = g.class /\ f.path = g.path /\ f.rule = g.rule
Key(f) == <<f.class, f.path, f.line, f.rule>>

(* Mutant: a survivor that the fix moved to another line counts as fixed. *)
MutantMarked ==
  CASE step \in {"fmtApply", "rumdlApply"} /\ result.state = "ok" -> {f \in found : Own(step, f)}
    [] step = "clippyVerify" /\ result.state = "ok" ->
         {f \in found : f.class = "SafeFix" /\ f \notin result.out}
    [] OTHER -> {}
Marked ==
  CASE step \in {"fmtApply", "rumdlApply"} /\ result.state = "ok" -> {f \in found : Own(step, f)}
    [] step = "clippyVerify" /\ result.state = "ok" ->
         {f \in found : f.class = "SafeFix" /\ \A g \in result.out : ~Same(f, g)}
    [] OTHER -> {}

(* The readers are joined when every writer of the pipes is gone; then the *)
(* outcome is recorded.                                                    *)
Conclude ==
  /\ result # NoResult /\ child = NoChild
  /\ found' = IF step \in Probed THEN found \cup result.out ELSE found
  /\ applied' = applied \cup Marked
  /\ gone' = IF result.state = "ok"
             THEN gone \cup {f \in found : Own(step, f) /\ \A g \in result.tree : ~Same(f, g)}
             ELSE gone
  /\ step' = AfterStep /\ result' = NoResult
  /\ UNCHANGED <<args, tree, available, child, exit, rewrote, treeEdits>>

(* filter_report: every filter that is set must let a path through;        *)
(* rustfmt prints absolute paths, the index is relative to the top of the  *)
(* repository.  A filter that git could not fill, or that is empty, is no  *)
(* filter, and a finding without a path is always reported.                *)
Normalize(path) == [path EXCEPT !.form = "rel"]
StagedScope == args.staged /\ args.gitWorks /\ StagedFiles # {}
InScope(f) ==
  \/ f.path.form = "none"
  \/ /\ StagedScope => Normalize(f.path) \in StagedFiles
     /\ args.scoped => \E p \in PathArgs : Normalize(p) = Normalize(f.path)

(* dedup keeps the first of a key. *)
Reported ==
  {f \in found : InScope(f) /\ \A g \in found : Key(g) = Key(f) => g.what >= f.what}
Unaddressed(class) == {f \in Reported : f.class = class /\ f \notin applied}

Report ==
  /\ step = "report" /\ step' = "done"
  /\ exit' = IF args.pedanticCheck /\ Unaddressed("SafeFix") \cup Unaddressed("Semantic") # {}
             THEN "refused" ELSE "ok"
  /\ UNCHANGED <<args, tree, available, child, result, found, applied, gone, rewrote,
                 treeEdits>>

DeveloperEdits ==
  /\ treeEdits < MaxTreeEdits /\ treeEdits' = treeEdits + 1
  /\ \E f \in Universe : tree' = IF f \in tree THEN tree \ {f} ELSE tree \cup {f}
  /\ UNCHANGED <<args, available, step, child, result, found, applied, exit, gone,
                 rewrote>>

SimplifyNext ==
  \/ Start \/ NotRun \/ Spawn \/ Rewrite \/ Ends \/ TimesOut \/ DescendantEnds
  \/ Conclude \/ Report \/ DeveloperEdits

-----------------------------------------------------------------------------
(* Whatever a tool leaves undone, however it ends and whatever is edited   *)
(* meanwhile: a suggestion is marked applied only if the run after its fix *)
(* saw it gone; once the deadline has passed nothing of a tool's group     *)
(* keeps the pipes open or writes files; a staged run, or one without a    *)
(* fix policy, rewrites nothing; and when a pedantic check lets a push     *)
(* through, every finding in scope that the checks printed was seen gone,  *)
(* but for those about format, which never refuse.                         *)
PassHonest ==
  /\ applied \subseteq gone
  /\ (result.state = "unavailable" \/ step \in {"report", "done"}) => ~child.helper
  /\ (args.staged \/ args.fix = "none") => rewrote = {}
  /\ (args.fix = "format" \/ ~args.autoSafe) => "clippyFix" \notin rewrote
  /\ (exit = "ok" /\ args.pedanticCheck) =>
       \A f \in found : (f.class # "Format" /\ InScope(f)) => f \in gone
=============================================================================
