---------------------------- MODULE ProviderProxy ----------------------------
(***************************************************************************)
(* A completion through the provider proxy: the local token, the routing   *)
(* and the body are checked, the provider's transport sends the request    *)
(* and parses the server-sent events as the network cuts them, the usage   *)
(* is charged to the ledger, and only then the answer is given.  An event  *)
(* of the stream is its kind and its place; text is the places it came     *)
(* from.                                                                   *)
(***************************************************************************)
EXTENDS Naturals, Sequences, FiniteSets, SequencesExt

CONSTANTS MaxStream,       \* bound: events of one stream
          MaxRequests      \* bound: requests

VARIABLES
  token,        \* the caller's local bearer token
  request,      \* the request being served
  pc,
  sent,         \* events the provider has sent, the last one perhaps in part
  part,         \* how much of the last one has arrived
  parser,       \* SseParser: events given out, end seen
  answers, ledger, sink

proxyVars == <<token, request, pc, sent, part, parser, answers, ledger, sink>>

Kinds == {"text", "wide", "call", "callHead", "callRest", "usage", "done", "junk", "comment"}
NoPart == [cut |-> "none", garbled |-> FALSE]
Fresh == [events |-> <<>>, done |-> FALSE]
Requests == [path : {"completion", "models", "unknown"}, body : {"ok", "notJson", "noModel", "badMessages"},
             route : {"ok", "missing"}, streamed : BOOLEAN]
Idle == [path |-> "completion", body |-> "ok", route |-> "ok", streamed |-> TRUE]

ProxyInit ==
  /\ token = "unissued" /\ request = Idle /\ pc = "idle" /\ sent = <<>> /\ part = NoPart
  /\ parser = Fresh /\ answers = <<>> /\ ledger = {} /\ sink = {}

IssueLocalToken ==
  /\ token # "live" /\ token' = "live"
  /\ UNCHANGED <<request, pc, sent, part, parser, answers, ledger, sink>>

TokenExpires ==
  /\ token = "live" /\ token' = "expired"
  /\ UNCHANGED <<request, pc, sent, part, parser, answers, ledger, sink>>

Number == Len(answers) + 1
NoOutput == [text |-> <<>>, calls |-> 0, usage |-> 0]
Answer(status, output) ==
  /\ answers' = Append(answers, [status |-> status, output |-> output, sent |-> sent,
                                 cut |-> part.cut])
  /\ pc' = "idle" /\ sent' = <<>> /\ part' = NoPart /\ parser' = Fresh /\ request' = Idle

(* ProxyHandler::handle and completion up to the upstream call: the first  *)
(* thing that is wrong decides the answer.                                 *)
Refusal(r) ==
  CASE token # "live"                      -> 401
    [] r.path = "unknown"                  -> 404
    [] r.path = "models"                   -> 200
    [] r.body \in {"notJson", "noModel"}   -> 400
    [] r.route = "missing"                 -> 404
    [] r.body = "badMessages"              -> 400
    [] OTHER                               -> 0

Handle ==
  /\ pc = "idle" /\ Len(answers) < MaxRequests
  /\ \E r \in Requests :
       IF Refusal(r) # 0
       THEN Answer(Refusal(r), NoOutput)
       ELSE /\ request' = r /\ pc' = "sent"
            /\ UNCHANGED <<sent, part, parser, answers>>
  /\ token' = IF token = "expired" THEN "unissued" ELSE token
  /\ UNCHANGED <<ledger, sink>>

(* send_streaming_completion and the loop over the chunks: the connection, *)
(* the status, the timeout or a chunk fails.                               *)
TransportFails ==
  /\ pc \in {"sent", "streaming"} /\ Answer(502, NoOutput)
  /\ UNCHANGED <<token, ledger, sink>>

Connected ==
  /\ pc = "sent" /\ request.streamed /\ pc' = "streaming"
  /\ UNCHANGED <<token, request, sent, part, parser, answers, ledger, sink>>

(* chunk_to_events: arguments that come in fragments are no JSON and are   *)
(* lost, and a fragment without a name is no call.                         *)
Event(k, at, garbled) == [kind |-> k, at |-> at, garbled |-> garbled]
Decoded(k, at, garbled) ==
  CASE k \in {"text", "wide"}  -> <<Event("text", at, garbled)>>
    [] k \in {"call", "callHead"} -> <<Event("call", at, k = "callHead")>>
    [] k = "usage"             -> <<Event("usage", at, FALSE)>>
    [] k = "done"              -> <<Event("completed", at, FALSE)>>
    [] OTHER                   -> <<>>

(* Mutant: the events before a cut one are parsed again with its rest. *)
MutantFirstNew == IF part.cut = "none" \/ Len(sent) = 1 THEN Len(sent) + 1 ELSE Len(sent) - 1
FirstNew == IF part.cut = "none" THEN Len(sent) + 1 ELSE Len(sent)

(* Parsed(s, from, to): what the parser gives out for the events at these  *)
(* places of the stream s, at most three: a chunk ends one that was cut    *)
(* and brings two.                                                         *)
Given(s, to, i) ==
  IF i > to THEN <<>>
  ELSE Decoded(s[i], i, i = Len(sent) /\ part.cut # "none" /\ part.garbled)
Parsed(s, from, to) ==
  (Given(s, to, from) \o Given(s, to, from + 1)) \o Given(s, to, from + 2)
Has(s, from, to, k) == \E i \in from .. to : s[i] = k

Cuts(k) == [cut : {"prefix", "cut", "undelimited"}, garbled : IF k = "wide" THEN BOOLEAN ELSE {FALSE}]

(* SseParser::feed and drain_complete_events: a chunk ends the event that  *)
(* was cut, brings whole ones, and may cut the last; what follows the end  *)
(* in the same chunk is still given out.                                   *)
Feed(s, p) ==
  LET whole == IF p.cut = "none" THEN Len(s) ELSE Len(s) - 1
  IN  /\ sent' = s /\ part' = p
      /\ parser' = IF parser.done THEN parser
                   ELSE [events |-> parser.events \o Parsed(s, FirstNew, whole),
                         done |-> Has(s, FirstNew, whole, "done")]

Chunk ==
  /\ pc = "streaming" /\ Len(sent) < MaxStream
  /\ \E more \in {<<k>> : k \in Kinds} \cup {<<k, l>> : k \in Kinds, l \in Kinds} :
     \E p \in {NoPart} \cup Cuts(Last(more)) :
       /\ Len(sent) + Len(more) <= MaxStream
       /\ LET s == sent \o more
              whole == IF p.cut = "none" THEN Len(s) ELSE Len(s) - 1
          IN  IF ~parser.done /\ Has(s, FirstNew, whole, "junk")
              THEN Answer(502, NoOutput)
              ELSE Feed(s, p) /\ UNCHANGED <<request, pc, answers>>
  /\ UNCHANGED <<token, ledger, sink>>

(* The rest of an event alone. *)
Rest ==
  /\ pc = "streaming" /\ part.cut # "none"
  /\ IF ~parser.done /\ Last(sent) = "junk" THEN Answer(502, NoOutput)
     ELSE Feed(sent, NoPart) /\ UNCHANGED <<request, pc, answers>>
  /\ UNCHANGED <<token, ledger, sink>>

(* record_cost: one entry for every usage the stream reported. *)
Usages(events) == {i \in 1 .. Len(events) : events[i].kind = "usage"}
Charge(events) == sink' = sink \cup {<<Number, events[i].at>> : i \in Usages(events)}

(* SseParser::finish: what is left in the buffer is an event without its   *)
(* delimiter, or the beginning of one: no JSON, unless it had no data yet. *)
Leftover ==
  IF parser.done \/ part.cut \in {"none", "prefix"} \/ (part.cut = "cut" /\ Last(sent) = "comment")
  THEN <<>>
  ELSE Decoded(Last(sent), Len(sent), part.garbled)

EndOfStream ==
  /\ pc = "streaming"
  /\ IF ~parser.done /\ ((part.cut = "cut" /\ Last(sent) # "comment")
                         \/ (part.cut = "undelimited" /\ Last(sent) = "junk"))
     THEN Answer(502, NoOutput) /\ UNCHANGED sink
     ELSE /\ parser' = [events |-> parser.events \o Leftover, done |-> TRUE]
          /\ Charge(parser'.events) /\ pc' = "collected"
          /\ UNCHANGED <<request, sent, part, answers>>
  /\ UNCHANGED <<token, ledger>>

(* send_chat_completion and response_to_events: the whole answer at once. *)
WholeResponse ==
  /\ pc = "sent" /\ ~request.streamed
  /\ \E s \in {<<>>, <<"text">>, <<"text", "usage">>, <<"call", "usage">>} :
       LET all == Append(s, "done")
       IN  /\ sent' = all /\ parser' = [events |-> Parsed(all, 1, Len(all)), done |-> TRUE]
           /\ Charge(parser'.events)
  /\ pc' = "collected"
  /\ UNCHANGED <<token, request, part, answers, ledger>>

(* CompletionOutput::from_events: the pieces of text, under the numbers of *)
(* their events, and the last usage.                                       *)
Output(events) ==
  LET Of(kind) == {i \in 1 .. Len(events) : events[i].kind = kind}
      last == CHOOSE i \in Usages(events) : \A j \in Usages(events) : j <= i
  IN  [text  |-> [i \in Of("text") |-> events[i]],
       calls |-> Cardinality(Of("call")),
       usage |-> IF Usages(events) = {} THEN 0 ELSE events[last].at]

(* record_completion, then the answer; a ledger that fails means no answer. *)
Complete ==
  /\ pc = "collected"
  /\ LET output == Output(parser.events)
     IN  \/ ledger' = ledger \cup {<<Number, output.usage>>} /\ Answer(200, output)
         \/ UNCHANGED ledger /\ Answer(502, NoOutput)
  /\ UNCHANGED <<token, sink>>

ProxyNext ==
  \/ IssueLocalToken \/ TokenExpires \/ Handle \/ TransportFails \/ Connected
  \/ Chunk \/ Rest \/ EndOfStream \/ WholeResponse \/ Complete

-----------------------------------------------------------------------------
Texts(s) == {i \in 1 .. Len(s) : s[i] \in {"text", "wide"}}
BeforeEnd(s) == {i \in 1 .. Len(s) : \A j \in 1 .. i : s[j] # "done"}

(* However the network cuts the stream, a completion that is answered has  *)
(* every piece of text the provider sent up to the end of the stream, once *)
(* and in order, also the one that was left in the buffer without its      *)
(* delimiter; a stream that ends inside the prefix of its last event loses *)
(* that one, and no other.  What is garbled is only what a cut went        *)
(* through in the middle of a character.  A completion is charged exactly  *)
(* once, with the usage it shows, while no refused or failed request is    *)
(* charged.                                                                *)
ProxyHonest ==
  /\ \A n \in 1 .. Len(answers) :
       LET a == answers[n]
           text == a.output.text
       IN  /\ \A i \in DOMAIN text :
                /\ text[i].at \in Texts(a.sent)
                /\ \A j \in DOMAIN text : j < i => text[j].at < text[i].at
                /\ text[i].garbled => a.sent[text[i].at] = "wide"
           /\ (a.status = 200 /\ a.sent # <<>>) =>
                /\ \A i \in Texts(a.sent) \cap BeforeEnd(a.sent) :
                     i < Len(a.sent) \/ a.cut # "prefix" => \E j \in DOMAIN text : text[j].at = i
                /\ {e \in ledger : e[1] = n} = {<<n, a.output.usage>>}
           /\ (a.status # 200 \/ a.sent = <<>>) => a.output = NoOutput
  /\ \A e \in ledger : e[1] \in 1 .. Len(answers) /\ answers[e[1]].status = 200
=============================================================================
