------------------------------ MODULE LoopLimits -----------------------------
(***************************************************************************)
(* How the [loop] block becomes the guards of a worker attempt: resolved   *)
(* by `orc loop` or by `orcd watch`, turned into guardrail settings with a *)
(* warning for every guard it switches off, applied to the budgets,        *)
(* validated, and then enforced turn by turn by the turn bound and the     *)
(* churn window.                                                           *)
(***************************************************************************)
EXTENDS Naturals, Sequences, FiniteSets

CONSTANTS
  Settings,        \* bound: the numbers a key may be set to
  DefaultGuard,    \* bootstrap default of every guard that has no case of its own
  DefaultRepeat, DefaultWindow, DefaultTurns,
  CallShapes       \* normalized shapes of a tool call

Guards == {"no_progress", "repeat", "window", "poll", "attempts", "backoff"}
Modes == {"orc loop", "orcd watch"}
Budgets == {"concurrency", "stall", "shutdown", "spend cap", "deadline"}

VARIABLES
  block,       \* the [loop] block: the keys it sets, with their values
  resolves,    \* whether the layered configuration resolves
  weak,        \* the budgets that came in weakened (zero, or no finite cap)
  mode, step,
  settings,    \* GuardrailsSettings
  warned,      \* the keys a warning was given for
  maxTurns,    \* the turn bound the worker enforces
  window,      \* ChurnWindow: the shapes it holds
  run          \* the shapes of the attempt so far, in order

limitVars == <<block, resolves, weak, mode, step, settings, warned, maxTurns, window, run>>

Default(k) == CASE k = "repeat" -> DefaultRepeat [] k = "window" -> DefaultWindow
                [] OTHER -> DefaultGuard
Defaults == [k \in Guards |-> Default(k)]

LimitsInit ==
  /\ block \in UNION {[K -> Settings] : K \in {L \in SUBSET (Guards \cup {"turns"}) :
                                                Cardinality(L) <= 2}}
  /\ resolves \in BOOLEAN
  /\ weak \in {w \in SUBSET Budgets : Cardinality(w) <= 1}
  /\ mode \in Modes /\ step = "resolve"
  /\ settings = Defaults /\ warned = {} /\ maxTurns = DefaultTurns
  /\ window = <<>> /\ run = <<>>

(* GuardrailsSettings::from_config: a key that is set replaces its default; *)
(* a zero, and a repeat count of one, is warned about.                      *)
FromConfig == [k \in Guards |-> IF k \in DOMAIN block THEN block[k] ELSE Default(k)]
(* Mutant: a repeat count of one passes without a word. *)
MutantWarnings == {k \in Guards \cap DOMAIN block : block[k] = 0}
Warnings == {k \in Guards \cap DOMAIN block : block[k] = 0 \/ (k = "repeat" /\ block[k] = 1)}

(* resolve_guardrails: a configuration that does not resolve stops the     *)
(* daemon; the foreground loop warns and goes on with the defaults.        *)
ResolveGuardrails ==
  /\ step = "resolve"
  /\ \/ resolves /\ settings' = FromConfig /\ warned' = Warnings /\ step' = "apply"
     \/ /\ ~resolves /\ mode = "orc loop"
        /\ settings' = Defaults /\ warned' = Guards /\ step' = "apply"
     \/ ~resolves /\ mode = "orcd watch" /\ UNCHANGED <<settings, warned>> /\ step' = "refused"
  /\ UNCHANGED <<block, resolves, weak, mode, maxTurns, window, run>>

TurnsOverride == resolves /\ "turns" \in DOMAIN block

(* with_guardrails: an explicit turn bound is written into the budgets.    *)
AppliedTurns == IF TurnsOverride THEN block["turns"] ELSE maxTurns

(* validate *)
Valid(turns) == weak = {} /\ turns # 0 /\ (TurnsOverride => turns = block["turns"])

WithGuardrails ==
  /\ step = "apply"
  /\ maxTurns' = AppliedTurns
  /\ step' = IF Valid(AppliedTurns) THEN "running" ELSE "refused"
  /\ UNCHANGED <<block, resolves, weak, mode, settings, warned, window, run>>

-----------------------------------------------------------------------------
(* churn_enabled, and the window ChurnWindow::new takes from it. *)
ChurnEnabled == settings["repeat"] > 1 /\ settings["window"] > 0

(* observe: the newest shapes, at most a window of them. *)
(* Mutant: the window keeps one shape too few. *)
MutantObserved(s) ==
  LET all == Append(window, s)
  IN  IF Len(all) >= settings["window"] THEN Tail(all) ELSE all
Observed(s) ==
  LET all == Append(window, s)
  IN  IF Len(all) > settings["window"] THEN Tail(all) ELSE all

Fires(w) ==
  Cardinality({n \in 1 .. Len(w) : w[n] = w[Len(w)]}) >= settings["repeat"]

(* One tool turn of the attempt: the guard fires, or the next turn is      *)
(* checked against the bound.                                              *)
Turn ==
  /\ step = "running" /\ Len(run) < maxTurns
  /\ \E s \in CallShapes :
       /\ run' = Append(run, s)
       /\ window' = IF ChurnEnabled THEN Observed(s) ELSE <<>>
  /\ step' = IF ChurnEnabled /\ Fires(window') THEN "churn" ELSE "running"
  /\ UNCHANGED <<block, resolves, weak, mode, settings, warned, maxTurns>>

TurnsSpent ==
  /\ step = "running" /\ Len(run) >= maxTurns /\ step' = "turns-exhausted"
  /\ UNCHANGED <<block, resolves, weak, mode, settings, warned, maxTurns, window, run>>

LimitsNext == ResolveGuardrails \/ WithGuardrails \/ Turn \/ TurnsSpent

-----------------------------------------------------------------------------
(* The last n turns of the attempt hold its last shape as often as the     *)
(* repeat count asks for.                                                  *)
Churning(n) ==
  run # <<>> /\
  Cardinality({k \in 1 .. Len(run) : k > Len(run) - n /\ run[k] = run[Len(run)]})
    >= settings["repeat"]

(* What an operator relies on when the loop starts: a running attempt has  *)
(* the turn bound the block asks for, at least one turn, and never exceeds *)
(* it; a guard that is off was warned about; and the churn guard fires     *)
(* exactly when one shape fills its share of the last window of turns.     *)
LimitsEnforced ==
  step \in {"running", "churn", "turns-exhausted"} =>
    /\ weak = {} /\ maxTurns > 0 /\ Len(run) <= maxTurns
    /\ (resolves /\ "turns" \in DOMAIN block) => maxTurns = block["turns"]
    /\ \A k \in Guards : settings[k] = 0 => k \in warned
    /\ (~ChurnEnabled) => warned \cap {"repeat", "window"} # {}
    /\ (step = "churn") <=> (ChurnEnabled /\ Churning(settings["window"]))

(* The settings' promise that a guard is never switched off in silence: an *)
(* attempt that repeats one shape as often as the repeat count names is    *)
(* stopped, unless a warning said the churn guard is off.                  *)
ChurnStoppedOrWarned ==
  (step = "turns-exhausted" /\ warned \cap {"repeat", "window"} = {}
     /\ \A k \in 1 .. Len(run) : run[k] = run[1])
    => Len(run) < settings["repeat"]
=============================================================================
