----------------------------- MODULE RoleRouting -----------------------------
(***************************************************************************)
(* The role router: a role is resolved from the layered routing keys, or   *)
(* by asking a decision provider first, and every decision is recorded in  *)
(* the routing store, which several processes may open for the first time  *)
(* together.  A value is abstracted to what the validators tell apart.     *)
(***************************************************************************)
EXTENDS DecisionProvider, Sequences

CONSTANTS Resolvers

Bootstrap == "bootstrap"
Configured == {"configured"}           \* the ids of [providers]
Providers == Configured \union {Bootstrap, "unlisted", "misshapen"}
Models == {"model", "misshapen"}
Roles == {"builtin", "custom", "misshapen", "unknown"}

VARIABLES
  keys,        \* the routing keys of each role in the layered configuration
  job,         \* resolver -> its local state
  version,     \* schema version of the routing store, 0 before the first opening
  routingRows  \* the routing store

routingVars == <<keys, job, version, routingRows>>

Unset == "unset"
NoDecision == [provider |-> Unset, model |-> Unset, path |-> Unset, fallback |-> FALSE]
NoJob == [pc |-> "idle", role |-> Unset, provider |-> "off", heuristic |-> NoDecision, decision |-> NoDecision]

RoutingInit ==
  /\ keys \in [provider : Providers \union {Unset}, model : Models \union {Unset}]
  /\ job = [r \in Resolvers |-> NoJob] /\ version = 0 /\ routingRows = <<>>

(* RoleRegistry: the built-in roles and the ones the configuration names; a known role may   *)
(* still be misshapen, because the configuration names it.                                   *)
IsKnown(role) == role # "unknown"
ValidRoleId(role) == role # "misshapen"
ValidProvider(p) == p # "misshapen"
ValidModel(m) == m # "misshapen"
AllowedProviders == Configured \union {Bootstrap}

(* validate_pair *)
(* Mutant: only the shape is validated. *)
MutantValidPair(p, m) == ValidProvider(p) /\ ValidModel(m)
ValidPair(p, m) == ValidProvider(p) /\ ValidModel(m) /\ p \in AllowedProviders

(* resolve: both keys or neither; with neither the bootstrap default and its reason. *)
ResolveRole(role) ==
  IF ~IsKnown(role) \/ ~ValidRoleId(role) THEN [error |-> "role"]
  ELSE IF keys.provider = Unset /\ keys.model = Unset
       THEN [provider |-> Bootstrap, model |-> "model", path |-> "bootstrap-default", fallback |-> TRUE]
  ELSE IF Unset \in {keys.provider, keys.model} THEN [error |-> "missing key"]
  ELSE IF ~ValidPair(keys.provider, keys.model) THEN [error |-> "value"]
  ELSE [provider |-> keys.provider, model |-> keys.model, path |-> "roles", fallback |-> FALSE]

(* `orc routing resolve`: the decision provider is built without the command line's factory, *)
(* so only the fixture can be consulted.  The heuristic is computed first and its error ends *)
(* the command.                                                                              *)
StartResolve(r) ==
  /\ job[r].pc = "idle"
  /\ \E role \in Roles, provider \in {"off", "fixture", "error"} :
       LET h == ResolveRole(role)
       IN job' = [job EXCEPT ![r] =
                    IF provider = "error" \/ "error" \in DOMAIN h THEN [NoJob EXCEPT !.pc = "refused"]
                    ELSE [pc |-> IF provider = "off" THEN "open" ELSE "consult", role |-> role,
                          provider |-> provider, heuristic |-> h, decision |-> h]]
  /\ UNCHANGED <<keys, version, routingRows>>

(* resolve_with_decision_provider: the proposal is taken only if it is well formed and names *)
(* a configured provider; otherwise the heuristic, with the rejection as fallback reason.    *)
(* Mutant: an unlisted provider is taken. *)
MutantRoutable(p, m) == ValidProvider(p) /\ ValidModel(m)
Routable(p, m) == ValidProvider(p) /\ ValidModel(m) /\ p \in AllowedProviders

ConsultRole(r) ==
  /\ job[r].pc = "consult"
  /\ \E p \in Providers, m \in Models, answered \in BOOLEAN :
       job' = [job EXCEPT ![r].pc = "open", ![r].decision =
                 IF answered /\ Routable(p, m)
                 THEN [provider |-> p, model |-> m, path |-> "decision-provider", fallback |-> FALSE]
                 ELSE [job[r].heuristic EXCEPT !.fallback = TRUE]]
  /\ UNCHANGED <<keys, version, routingRows>>

(* migrate: the version is looked up outside the transaction; the loser of two first         *)
(* openings inserts the version row again and fails.                                         *)
OpenRouting(r) ==
  /\ job[r].pc = "open"
  /\ job' = [job EXCEPT ![r].pc = IF version = 0 THEN "migrate" ELSE "record"]
  /\ UNCHANGED <<keys, version, routingRows>>
MigrateRouting(r) ==
  /\ job[r].pc = "migrate" /\ version' = 1
  /\ job' = [job EXCEPT ![r].pc = IF version = 0 THEN "record" ELSE "failed"]
  /\ UNCHANGED <<keys, routingRows>>

(* record *)
RecordRouting(r) ==
  /\ job[r].pc = "record"
  /\ routingRows' = Append(routingRows, [by |-> r, decision |-> job[r].decision])
  /\ job' = [job EXCEPT ![r].pc = "done"]
  /\ UNCHANGED <<keys, version>>

RoutingNext ==
  \E r \in Resolvers : StartResolve(r) \/ ConsultRole(r) \/ OpenRouting(r) \/ MigrateRouting(r) \/ RecordRouting(r)

-----------------------------------------------------------------------------
(* Whatever the configuration and the decision provider say, a recorded decision names a     *)
(* provider that is configured, or the bootstrap one; a decision that is not the provider's  *)
(* although one was asked says why; and a command that ends well has its record.             *)
RoutingSound ==
  /\ \A n \in DOMAIN routingRows :
       LET d == routingRows[n].decision
           j == job[routingRows[n].by]
       IN /\ d.provider \in AllowedProviders /\ ValidModel(d.model)
          /\ (j.provider # "off" /\ d.path # "decision-provider") => d.fallback
  /\ \A r \in Resolvers : job[r].pc = "done" => \E n \in DOMAIN routingRows : routingRows[n].by = r
=============================================================================
