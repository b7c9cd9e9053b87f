----------------------------- MODULE GhDelegation -----------------------------
(***************************************************************************)
(* `orc github gh-env` and `gh-env-pr-create-chain`: the gates before a    *)
(* child command gets the App's token, the child, and the labeling of the  *)
(* pull request it created.  Configuration and gitconfig are read again at *)
(* each gate, while they are edited.                                       *)
(*                                                                         *)
(* A command line is a sequence of words; the words stand for their class. *)
(***************************************************************************)
EXTENDS Naturals, SequencesExt

CONSTANTS Commands, Pins, MaxConfigEdits

VARIABLES
  required, complete,   \* configuration: enforcement, all three App keys set
  email,                \* git config user.email: "unset", "person" or "bot"
  pin,                  \* ORC_GITHUB_APP_ENFORCEMENT
  gh,                   \* the invocation: step, entry point, command, what its gates read
  world,                \* pull requests and labels: [pr, labelled, warned]
  configEdits

ghVars == <<required, complete, email, pin, gh, world, configEdits>>

(* child_command_is_pr_create: the words of gh's own grammar, read until the verb.  A flag whose  *)
(* arity is not known, or a cut command line, is ambiguous.                                       *)
Takes(w) == w \in {"--repo", "-R"}              \* flags with a value in the next word
Bare(w) == w \in {"--repo=x", "-h", "-v"}       \* flags without one
Doubtful(w) == w \in {"--unknown", "-", "-x"}
Advances(s, w) == (s.stage = 0 /\ w \in {"gh", "/usr/bin/gh"}) \/ (s.stage = 1 /\ w = "pr")

ReadWord(s, w) ==
  IF s.shape # "reading" THEN s
  ELSE IF s.skip THEN [s EXCEPT !.skip = FALSE]
  ELSE IF w = "--" THEN [s EXCEPT !.shape = IF s.stage = 2 THEN "yes" ELSE "ambiguous"]
  ELSE IF Takes(w) THEN [s EXCEPT !.skip = TRUE]
  ELSE IF Bare(w) THEN s
  ELSE IF Doubtful(w) THEN [s EXCEPT !.shape = "ambiguous"]
  ELSE IF Advances(s, w) THEN [s EXCEPT !.stage = s.stage + 1]
  ELSE [s EXCEPT !.shape = IF s.stage = 2 /\ w \in {"create", "new"} THEN "yes" ELSE "no"]

Shape(c) == LET end == FoldLeft(ReadWord, [stage |-> 0, skip |-> FALSE, shape |-> "reading"], c)
            IN IF end.shape = "reading" THEN "ambiguous" ELSE end.shape

(* gh itself: what a command line that starts it directly creates.  A shell around it and a     *)
(* POST by `gh api` create pull requests too; the gate does not look for them, and they are not  *)
(* among the commands.                                                                           *)
Creates(c) == /\ c[1] \in {"gh", "/usr/bin/gh"}
              /\ \E i, j \in 2..Len(c) : i < j /\ c[i] = "pr" /\ c[j] \in {"create", "new"}

(* What the gate rests on: no command line that creates a pull request is read as another one. *)
CommandsRecognised == \A c \in Commands : Creates(c) => Shape(c) # "no"

GhInit ==
  /\ required \in BOOLEAN /\ complete \in BOOLEAN /\ email \in {"unset", "person", "bot"} /\ pin \in Pins
  /\ \E entry \in {"env", "chain"}, c \in Commands :
       gh = [step |-> "start", entry |-> entry, command |-> c, gated |-> FALSE, bot |-> FALSE,
             strict |-> FALSE]
  /\ world = [pr |-> "none", labelled |-> {}, warned |-> FALSE] /\ configEdits = 0

To(step) == gh' = [gh EXCEPT !.step = step]
settings == <<required, complete, email, pin, configEdits>>

(* effective_required_mode: the pin can only tighten; another value of it is an error. *)
Garbled == pin \notin {"unset", "required", "recommended"}
(* Mutant: the pin replaces the configuration. *)
MutantRequiredMode == pin = "required" \/ (pin = "unset" /\ required)
RequiredMode == required \/ pin = "required"

(* gh_env: a pull request is not created here in required mode; when in doubt it is refused. *)
GhEnv ==
  /\ gh.step = "start" /\ gh.entry = "env"
  /\ To(IF Garbled \/ (RequiredMode /\ Shape(gh.command) # "no") THEN "refused" ELSE "gates")
  /\ UNCHANGED <<settings, world>>

(* gh_env_pr_create_chain: nothing but a pull request's creation, with the scripts in place. *)
PrCreateChain ==
  /\ gh.step = "start" /\ gh.entry = "chain"
  /\ \/ Shape(gh.command) # "yes" /\ To("refused")
     \/ Shape(gh.command) = "yes" /\ To("gates")
     \/ Shape(gh.command) = "yes" /\ To("refused")
  /\ UNCHANGED <<settings, world>>

(* gh_env_gates_and_mint: mode, then the App configuration, ... *)
Gates ==
  /\ gh.step = "gates"
  /\ gh' = IF Garbled \/ (RequiredMode /\ ~complete) THEN [gh EXCEPT !.step = "refused"]
           ELSE [gh EXCEPT !.gated = RequiredMode, !.strict = required \/ pin = "required",
                           !.step = IF RequiredMode THEN "identity" ELSE "mint"]
  /\ UNCHANGED <<settings, world>>

(* ... require_bot_git_identity: the address git would use must be the bot's, ... *)
(* Mutant: an unset address passes. *)
MutantBotAddress == email # "person"
BotAddress == email = "bot"

Identity ==
  /\ gh.step = "identity"
  /\ gh' = IF BotAddress /\ complete THEN [gh EXCEPT !.step = "mint", !.bot = email = "bot"]
           ELSE [gh EXCEPT !.step = "refused"]
  /\ UNCHANGED <<settings, world>>

(* ... and the token, which needs the complete configuration in either mode. *)
Mint ==
  /\ gh.step = "mint"
  /\ To(IF complete THEN "child" ELSE "refused") \/ To("refused")
  /\ UNCHANGED <<settings, world>>

(* gh_env_spawn_child: the child fails, or succeeds; gh opens the pull request it was asked for, *)
(* in the named repository or, by its own flags, in another, and says where.                     *)
Child ==
  /\ gh.step = "child"
  /\ \/ To("failed") /\ UNCHANGED world
     \/ /\ To(IF gh.entry = "chain" THEN "label" ELSE "done")
        /\ \E pr \in IF Creates(gh.command) THEN {"here", "elsewhere", "noUrl"} ELSE {"none"} :
             world' = [world EXCEPT !.pr = pr]
  /\ UNCHANGED settings

(* The labeling: only for a number of the named repository, and a failure is a warning. *)
(* Mutant: the repository in the URL is not compared. *)
MutantLabels == world.pr # "noUrl"
Labels == world.pr = "here"

Label ==
  /\ gh.step = "label" /\ To("done")
  /\ IF Labels
     THEN \E done \in SUBSET {"pr-labels", "pr-labels-from-issue"} :
            world' = [world EXCEPT !.labelled = done,
                                    !.warned = done # {"pr-labels", "pr-labels-from-issue"}]
     ELSE world' = [world EXCEPT !.warned = TRUE]
  /\ UNCHANGED settings

Reconfigure ==
  /\ configEdits < MaxConfigEdits /\ configEdits' = configEdits + 1
  /\ \/ required' = ~required /\ UNCHANGED <<complete, email>>
     \/ complete' = ~complete /\ UNCHANGED <<required, email>>
     \/ email' \in {"unset", "person", "bot"} \ {email} /\ UNCHANGED <<required, complete>>
  /\ UNCHANGED <<pin, gh, world>>

GhNext == GhEnv \/ PrCreateChain \/ Gates \/ Identity \/ Mint \/ Child \/ Label \/ Reconfigure

GhSpec == GhInit /\ [][GhNext]_ghVars

-----------------------------------------------------------------------------
(* A child that ran under a required mode ran as the bot; with a mode that nobody edits, a pull *)
(* request comes into being through the chain alone; the chain ends with every label or a       *)
(* warning, and labels nothing outside the repository it was given.                             *)
DelegationGated ==
  /\ gh.step \in {"child", "label", "done", "failed"} /\ gh.strict => gh.bot
  /\ (required \/ pin = "required") /\ configEdits = 0 /\ gh.entry = "env" => world.pr = "none"
  /\ gh.entry = "chain" /\ gh.step = "done" =>
       \/ world.warned
       \/ world.pr = "here" /\ world.labelled = {"pr-labels", "pr-labels-from-issue"}
  /\ world.labelled # {} => world.pr = "here"
=============================================================================
