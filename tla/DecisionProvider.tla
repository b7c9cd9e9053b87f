--------------------------- MODULE DecisionProvider ---------------------------
(***************************************************************************)
(* What a decision provider may answer.  The System One client asks one    *)
(* question of an HTTP endpoint; the endpoint is the environment and may   *)
(* answer anything.  Every way it can fail is one value, Unavailable: the  *)
(* callers fall back on it.  Confidences are integers, MaxConfidence is    *)
(* the 1.0 of the code.                                                    *)
(***************************************************************************)
EXTENDS Naturals, FiniteSets

CONSTANTS MaxConfidence

Unavailable == [status |-> "unavailable"]
Unsupported == [status |-> "unsupported"]
Stranger == "stranger"          \* a label nobody offered

(* ask: the transport, the status and the body can each fail, the answer can be missing *)
AskFailures == {"http", "status", "unparsed", "missing"}

(* parse_choice_answer and parse_noul_answer: a label and a number, or malformed *)
ChoiceAnswers(labels) ==
  [choice : labels \union {Stranger, "nolabel"}, confidence : 0..(MaxConfidence + 1)]
    \union [failure : AskFailures \union {"noconfidence"}]
NoulAnswers == [noul : 0..(MaxConfidence + 1)] \union [failure : AskFailures \union {"nonoul"}]

Failed(answer) == "failure" \in DOMAIN answer

(* The constructors of proposals: confidence in 0..1; a split has subtasks, a non-split none. *)
ConfidenceOk(c) == c \in 0..MaxConfidence

(* Mutant: what the endpoint says is believed. *)
MutantProposeAmong(offered, answer) ==
  IF Failed(answer) \/ ~ConfidenceOk(answer.confidence) THEN Unavailable
  ELSE [status |-> "ok", value |-> answer.choice]

(* The answer must be one of the offered labels, whatever the endpoint names. *)
ProposeAmong(offered, answer) ==
  IF Failed(answer) \/ answer.choice \notin offered \/ ~ConfidenceOk(answer.confidence) THEN Unavailable
  ELSE [status |-> "ok", value |-> answer.choice]

(* propose_task_selection and propose_tool_selection: an empty offer is not asked about. *)
ProposeTaskSelection(ready, answer) == IF ready = {} THEN Unavailable ELSE ProposeAmong(ready, answer)
ProposeToolSelection(tools, answer) == IF tools = {} THEN Unavailable ELSE ProposeAmong(tools, answer)

(* propose_role_resolution: the candidates are the client's own. *)
RoleCandidates == {"flash", "full"}
ProposeRoleResolution(answer) == ProposeAmong(RoleCandidates, answer)

(* propose_task_split: below one half no split; otherwise a second question gives the shape. *)
ProposeTaskSplit(noul, shape) ==
  IF Failed(noul) THEN Unavailable
  ELSE IF 2 * noul.noul < MaxConfidence THEN [status |-> "ok", value |-> 0]
  ELSE LET picked == ProposeAmong({"pair", "triple"}, shape)
       IN IF picked = Unavailable THEN Unavailable
          ELSE [status |-> "ok", value |-> IF picked.value = "pair" THEN 2 ELSE 3]

(* resolve_decision_provider_with: nothing configured means no provider, "fixture" is built  *)
(* here, another name is asked of the caller's factory; the command line's factory knows     *)
(* "systemone" and builds it only with an endpoint and without a credential in the clear.    *)
ProviderConfigs ==
  [name : {"unset", "fixture", "systemone", "other"}, base_url : {"unset", "http", "loopback", "https", "bad"},
   api_key : {"unset", "none", "unresolvable", "secret", "empty"}]

ResolveEndpoint(c) == IF c.api_key = "unresolvable" THEN "auth" ELSE "ok"
SendsCredential(c) == c.api_key = "secret"

(* Mutant: the credential is sent wherever the URL points. *)
MutantNewProvider(c) == IF c.base_url = "bad" THEN "invalid url" ELSE "built"

NewProvider(c) ==
  IF c.base_url = "bad" THEN "invalid url"
  ELSE IF SendsCredential(c) /\ c.base_url = "http" THEN "cleartext"
  ELSE "built"

BuildNamed(c) ==
  IF c.name # "systemone" THEN "unknown"
  ELSE IF c.base_url = "unset" THEN "no base_url"
  ELSE IF ResolveEndpoint(c) # "ok" THEN "auth"
  ELSE NewProvider(c)

ResolveProvider(c) ==
  CASE c.name = "unset" -> "off"
    [] c.name = "fixture" -> "fixture"
    [] OTHER -> IF BuildNamed(c) = "built" THEN "systemone" ELSE "error"
=============================================================================
