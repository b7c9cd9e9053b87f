---------------------------- MODULE LayeredConfig ----------------------------
(***************************************************************************)
(* The layered configuration, and the declared tools that are resolved     *)
(* from the same layers under stricter rules.                              *)
(***************************************************************************)
EXTENDS Naturals, Sequences, FiniteSets, SequencesExt

-----------------------------------------------------------------------------
(* The layered configuration: sources (a primary file and shards per       *)
(* layer) are edited by `orc config set/unset/migrate`, loaded one after   *)
(* the other, checked for conflicts within a layer and merged from the     *)
(* lowest layer to the highest.  A document is a function of its keys;     *)
(* keys stand for the ways the merge treats a field.                       *)

CONSTANTS
  Sources,      \* [layer, name] records; a layer is its rank, 1 for the built-in defaults
  Keys,         \* subset of AllKeys
  Values,       \* "0" (also a disabled enable), "1", ...
  Editors, MaxEdits

AllKeys == {"schema", "poll", "kickoff", "ingress", "capacity", "intake", "identities", "observability", "loop", "think"}
Unset == "unset"
Docs == [Keys -> Values \union {Unset}]
EmptyDoc == [k \in Keys |-> Unset]
BuiltIn == 1
CURRENT_SCHEMA == "1"

VARIABLES
  file,     \* source -> its document
  backup,   \* source -> the copy `migrate` keeps, or EmptyDoc
  edit,     \* editor -> its local state
  inputs,   \* the loader's sources, in the order read
  loaded,   \* what the loader made of them
  edits

configVars == <<file, backup, edit, inputs, loaded, edits>>

NoEdit == [pc |-> "idle", source |-> CHOOSE s \in Sources : TRUE, doc |-> EmptyDoc]
NotLoaded == [status |-> "loading", effective |-> EmptyDoc, explained |-> EmptyDoc]

(* The built-in defaults set every key they have to 0 (disabled), the poll cadence to 1. *)
BuiltInDefaults == [k \in Keys |-> IF k \in {"poll", "capacity"} THEN "1"
                                   ELSE IF k \in {"kickoff", "ingress", "intake"} THEN "0" ELSE Unset]

ConfigInit ==
  /\ file = [s \in Sources |-> IF s.layer = BuiltIn THEN BuiltInDefaults ELSE EmptyDoc]
  /\ backup = [s \in Sources |-> EmptyDoc] /\ edit = [e \in Editors |-> NoEdit]
  /\ inputs = <<>> /\ loaded = NotLoaded /\ edits = 0

-----------------------------------------------------------------------------
(* orc config *)

(* set_key and remove_key on the document just read *)
Edited(doc) == {[doc EXCEPT ![k] = v] : k \in Keys, v \in Values \union {Unset}}

StartEdit(e) ==
  /\ edit[e].pc = "idle" /\ edits < MaxEdits /\ edits' = edits + 1
  /\ \E s \in {t \in Sources : t.layer # BuiltIn} : \E doc \in Edited(file[s]) :
       edit' = [edit EXCEPT ![e] = [pc |-> "write", source |-> s, doc |-> doc]]
  /\ UNCHANGED <<file, backup, inputs, loaded>>

(* migrate: a document of another schema is copied aside, then stamped. *)
StartMigrate(e) ==
  /\ edit[e].pc = "idle" /\ edits < MaxEdits /\ edits' = edits + 1 /\ "schema" \in Keys
  /\ \E s \in {t \in Sources : t.layer # BuiltIn} :
       /\ file[s] # EmptyDoc /\ file[s]["schema"] # CURRENT_SCHEMA
       /\ backup' = [backup EXCEPT ![s] = file[s]]
       /\ edit' = [edit EXCEPT ![e] = [pc |-> "write", source |-> s, doc |-> [file[s] EXCEPT !["schema"] = CURRENT_SCHEMA]]]
  /\ UNCHANGED <<file, inputs, loaded>>

(* write_document: fs::write truncates the file and then fills it. *)
Truncate(e) ==
  /\ edit[e].pc = "write" /\ edit' = [edit EXCEPT ![e].pc = "fill"]
  /\ file' = [file EXCEPT ![edit[e].source] = EmptyDoc]
  /\ UNCHANGED <<backup, inputs, loaded, edits>>

Fill(e) ==
  /\ edit[e].pc = "fill" /\ edit' = [edit EXCEPT ![e] = NoEdit]
  /\ file' = [file EXCEPT ![edit[e].source] = edit[e].doc]
  /\ UNCHANGED <<backup, inputs, loaded, edits>>

-----------------------------------------------------------------------------
(* Loading *)

(* load_layers: built-in defaults, then user, org, project and directory files. *)
Earlier(a, b) == a.layer < b.layer \/ (a.layer = b.layer /\ a.name < b.name)
LoadOrder == CHOOSE s \in [1 .. Cardinality(Sources) -> Sources] : \A m, n \in DOMAIN s : m < n => Earlier(s[m], s[n])

LoadFile ==
  /\ loaded.status = "loading" /\ Len(inputs) < Cardinality(Sources)
  /\ LET s == LoadOrder[Len(inputs) + 1]
     IN inputs' = Append(inputs, [layer |-> s.layer, name |-> s.name, doc |-> file[s]])
  /\ UNCHANGED <<file, backup, edit, loaded, edits>>

(* reject_ambiguous_conflicts *)
(* Mutant: a conflict is one only where the values differ. *)
MutantConflict(ins) ==
  \E m, n \in DOMAIN ins, k \in Keys :
    m < n /\ ins[m].layer = ins[n].layer /\ Unset \notin {ins[m].doc[k], ins[n].doc[k]} /\ ins[m].doc[k] # ins[n].doc[k]

Conflict(ins) ==
  \E m, n \in DOMAIN ins, k \in Keys :
    m < n /\ ins[m].layer = ins[n].layer /\ Unset \notin {ins[m].doc[k], ins[n].doc[k]}

(* The blocks a key lives in: a block that is still absent is taken over whole. *)
Block(k) == IF k \in {"poll", "kickoff", "ingress", "capacity", "intake"} THEN "watch" ELSE k
HasBlock(doc, k) == \E j \in Keys : Block(j) = Block(k) /\ doc[j] # Unset

(* The merge functions of the blocks: what WatchConfigBlock::merge leaves out (ingress and   *)
(* intake), ToolConfig::merge leaves out (enabled), OrchestraitorConfig::merge leaves out    *)
(* (observability).  The schema version is no key of the document: it is reported as unknown *)
(* and the typed configuration does not have it.                                             *)
LeftOut == {"ingress", "capacity", "intake", "think", "observability"}
Unknown == {"schema"}
NeverTaken == Unknown \union {"observability"}

MergeScalar(current, next) == IF next # Unset THEN next ELSE current

(* Mutant: what is already set is kept. *)
MutantMergeDoc(current, next) ==
  [k \in Keys |->
     IF k \in NeverTaken THEN Unset
     ELSE IF k \in LeftOut /\ HasBlock(current, k) THEN current[k]
     ELSE MergeScalar(next[k], current[k])]

MergeDoc(current, next) ==
  [k \in Keys |->
     IF k \in NeverTaken THEN Unset
     ELSE IF k \in LeftOut /\ HasBlock(current, k) THEN current[k]
     ELSE MergeScalar(current[k], next[k])]

(* resolve_config: stable in the order of the layers. *)
Sorts(p, ins) ==
  \A m, n \in DOMAIN ins : m < n =>
    \/ ins[p[m]].layer < ins[p[n]].layer
    \/ ins[p[m]].layer = ins[p[n]].layer /\ p[m] < p[n]
ByLayer(ins) ==
  LET order == CHOOSE p \in [DOMAIN ins -> DOMAIN ins] : Sorts(p, ins) IN [n \in DOMAIN ins |-> ins[order[n]]]
ResolveConfig(ins) == FoldLeft(LAMBDA acc, i : MergeDoc(acc, i.doc), EmptyDoc, ByLayer(ins))

(* resolve_value and resolved_map: the last input that has the key. *)
Having(ins, k) == {n \in DOMAIN ins : ins[n].doc[k] # Unset}
ResolveValue(ins, k) ==
  IF Having(ins, k) = {} THEN Unset
  ELSE ins[CHOOSE n \in Having(ins, k) : \A m \in Having(ins, k) : ins[m].layer < ins[n].layer \/ m = n].doc[k]

(* WatchConfig::from_layers: a zero cadence or a zero capacity is refused. *)
WatchRefused(ins) ==
  \/ "poll" \in Keys /\ ResolveValue(ins, "poll") = "0"
  \/ "capacity" \in Keys /\ ResolveConfig(ins)["capacity"] = "0"

Resolve ==
  /\ loaded.status = "loading" /\ Len(inputs) = Cardinality(Sources)
  /\ loaded' = IF Conflict(inputs) THEN [NotLoaded EXCEPT !.status = "conflict"]
               ELSE IF WatchRefused(inputs) THEN [NotLoaded EXCEPT !.status = "refused"]
               ELSE [status |-> "loaded", effective |-> ResolveConfig(inputs),
                     explained |-> [k \in Keys |-> ResolveValue(inputs, k)]]
  /\ UNCHANGED <<file, backup, edit, inputs, edits>>

ConfigNext ==
  \/ LoadFile \/ Resolve
  \/ \E e \in Editors : StartEdit(e) \/ StartMigrate(e) \/ Truncate(e) \/ Fill(e)

-----------------------------------------------------------------------------
(* The value of the highest layer that has one, whichever file it came from. *)
Highest(k, v) ==
  LET having == Having(inputs, k)
  IN IF having = {} THEN v = Unset
     ELSE \E n \in having : inputs[n].doc[k] = v /\ \A m \in having : inputs[m].layer <= inputs[n].layer

(* Whatever was edited while the files were read: of a configuration that loads,             *)
(* `orc config explain` shows for every key the value of the highest layer that sets it, the *)
(* configuration in effect has that value for every key the merges handle (neither for those *)
(* of LeftOut nor for an unknown one), and a key set twice in one layer never loads.         *)
LayersResolve ==
  loaded.status = "loaded" =>
    /\ \A k \in Keys : Highest(k, loaded.explained[k])
    /\ \A k \in Keys \ (LeftOut \union Unknown) : loaded.effective[k] = loaded.explained[k]
    /\ \A m, n \in DOMAIN inputs, k \in Keys :
         m # n /\ inputs[m].layer = inputs[n].layer => Unset \in {inputs[m].doc[k], inputs[n].doc[k]}

(* Every enable of the built-in watch defaults is overridable at any higher layer.           *)
OverridesTakeEffect ==
  loaded.status = "loaded" => \A k \in {j \in Keys : Block(j) = "watch"} : Highest(k, loaded.effective[k])

-----------------------------------------------------------------------------
(* The declared tools: tool definitions are layered like the rest of the   *)
(* configuration, but a definition is accepted only from a trusted layer,  *)
(* with a complete mechanism of one kind; the tools visible to the worker  *)
(* role are attached to its session.  One tool id is followed, with its    *)
(* definition in each layer; a field is abstracted to what the checks tell *)
(* apart.  The registry is built once, at start-up.                        *)

CONSTANTS
  ToolLayers,    \* ranks of the layers that may define tools
  Definitions    \* the partial definitions that occur; NoTool for a layer without the entry

Absent == "absent"
Fields == {"kind", "command", "role", "internal", "visible", "budget", "effort", "enabled"}
NoTool == [f \in Fields |-> Absent]

TrustedLayers == {1, 2, 3, 4}   \* built-in, plug-in, user, organization

VARIABLES toolId, defined, registry

toolVars == <<toolId, defined, registry>>

Pending == [status |-> "pending", tool |-> NoTool, layer |-> 0, think |-> TRUE, worker |-> FALSE]

ToolInit ==
  /\ toolId \in {"plain", "think", "reserved", "misshapen"}
  /\ defined \in [ToolLayers -> Definitions] /\ registry = Pending

Carriers == {l \in ToolLayers : defined[l] # NoTool}
Supplying == CHOOSE l \in Carriers : \A m \in Carriers : m <= l

(* ToolConfig::merge: every field but `enabled`, which stays what the lowest carrier says. *)
Merged ==
  LET having(f) == {l \in Carriers : defined[l][f] # Absent}
      top(f) == CHOOSE l \in having(f) : \A m \in having(f) : m <= l
      lowest == CHOOSE l \in Carriers : \A m \in Carriers : l <= m
  IN [f \in Fields |->
        IF f = "enabled" THEN defined[lowest][f]
        ELSE IF having(f) = {} THEN Absent ELSE defined[top(f)][f]]

(* resolve_think_kill_switch: `enabled` and nothing else. *)
ThinkSwitch(t) ==
  IF \E f \in Fields \ {"enabled"} : t[f] # Absent THEN [error |-> "malformed"]
  ELSE [enabled |-> t["enabled"] # "false"]

(* resolve_command_mechanism, resolve_subagent_mechanism *)
(* Mutant: fields of the other mechanism are ignored. *)
MutantCommandOk(t) == t["command"] = "argv"
CommandOk(t) == t["command"] = "argv" /\ \A f \in {"role", "internal", "effort"} : t[f] = Absent
SubagentOk(t) == t["command"] = Absent /\ t["role"] = "known" /\ t["internal"] \in {Absent, "known"}
MechanismOk(t) ==
  CASE t["kind"] = "command" -> CommandOk(t)
    [] t["kind"] = "subagent" -> SubagentOk(t)
    [] OTHER -> FALSE

(* resolve_visible_to, validate_budget, ResolvedEffort::parse *)
VisibleOk(t) == t["visible"] # "unknown"
BudgetOk(t) == t["budget"] # "zero"
EffortOk(t) == t["effort"] \in {Absent, "known"}

(* resolve_tool *)
ToolOk(t) ==
  /\ toolId = "plain" /\ t["enabled"] = Absent
  /\ MechanismOk(t) /\ EffortOk(t) /\ VisibleOk(t) /\ BudgetOk(t)

(* ToolRegistry::from_resolver: the highest layer that carries the entry must be trusted. *)
(* Mutant: it is enough that a trusted layer carries the entry. *)
MutantTrusted == Carriers \intersect TrustedLayers # {}
Trusted == Supplying \in TrustedLayers

(* build_declared_tools: a subagent's role must route to the bootstrap provider. *)
BuildDeclaredTools ==
  /\ registry.status = "pending"
  /\ LET t == Merged
     IN registry' =
          IF Carriers = {} THEN [Pending EXCEPT !.status = "built"]
          ELSE IF ~Trusted THEN [Pending EXCEPT !.status = "untrusted"]
          ELSE IF toolId = "think"
               THEN IF "error" \in DOMAIN ThinkSwitch(t) THEN [Pending EXCEPT !.status = "refused"]
                    ELSE [Pending EXCEPT !.status = "built", !.think = ThinkSwitch(t).enabled]
          ELSE IF ~ToolOk(t) THEN [Pending EXCEPT !.status = "refused"]
          ELSE [status |-> "built", tool |-> t, layer |-> Supplying, think |-> TRUE,
                worker |-> t["visible"] = "worker"]
  /\ UNCHANGED <<toolId, defined>>

(* A sub-session role that does not resolve, or not to the bootstrap provider, ends start-up. *)
SubRoleRefused ==
  /\ registry.status = "pending" /\ Carriers # {} /\ Trusted /\ ToolOk(Merged)
  /\ Merged["kind"] = "subagent" /\ Merged["visible"] = "worker"
  /\ registry' = [Pending EXCEPT !.status = "sub-role"]
  /\ UNCHANGED <<toolId, defined>>

ToolNext == BuildDeclaredTools \/ SubRoleRefused

-----------------------------------------------------------------------------
(* No field of a tool that a worker can call comes from a layer outside the trusted ones:    *)
(* the gate looks at one layer only, the merge at all of them.  A registered tool has one    *)
(* mechanism, and a tool nobody was told about is not on the worker's surface.               *)
ToolsTrusted ==
  registry.status = "built" /\ registry.tool # NoTool =>
    /\ \A l \in ToolLayers \ TrustedLayers : defined[l] = NoTool
    /\ ~(registry.tool["command"] # Absent /\ registry.tool["role"] # Absent)
    /\ registry.worker => \E l \in TrustedLayers \intersect ToolLayers : defined[l]["visible"] = "worker"

(* A trusted layer that disables the built-in think tool removes it.                         *)
KillSwitchWins ==
  registry.status = "built" /\ toolId = "think" /\ Carriers # {} /\ defined[Supplying]["enabled"] = "false" => ~registry.think
=============================================================================
