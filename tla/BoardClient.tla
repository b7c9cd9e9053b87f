----------------------------- MODULE BoardClient -----------------------------
(***************************************************************************)
(* The way to the board: the GitHub Projects client with its file of node  *)
(* ids, and the write-through cache over a provider.                       *)
(***************************************************************************)
EXTENDS Naturals, Sequences, FiniteSets

-----------------------------------------------------------------------------
(* The GitHub Projects client: processes resolve the project's node ids    *)
(* through a cache file they share, page through the items, and move the   *)
(* item of an issue number, while people edit the board and its fields.    *)
(*                                                                         *)
(* Ids carry the generation of the fields they were resolved from; people  *)
(* may rebuild the fields, which gives new ids.  `execute` fails by any of *)
(* its checks: one failure stands for all.                                 *)

CONSTANTS Callers, Repos, Statuses,
          Listings,                   \* bound: the listings of the board to consider
          MaxBoardEdits, MaxFaults

VARIABLES
  gen, options,    \* the platform: generation of the fields, option names of the ready field
  issue,           \* repository -> [exists, member, whole, status]: the issue of the number
  pages,           \* the shapes of the project's items, one per page
  idFile,          \* the cache file's ids; NoIds when it is missing or does not decode
  caller,          \* each process
  edits, faults

clientVars == <<gen, options, issue, pages, idFile, caller, edits, faults>>

NoIds == [gen |-> 0, options |-> {}]
Idle == [pc |-> "idle", op |-> "none", ids |-> NoIds, to |-> "none", left |-> {}, matches |-> {},
         seen |-> FALSE, at |-> 1, facts |-> {}, warned |-> {}, wrote |-> {}, confirmed |-> FALSE,
         outcome |-> "none"]

ClientInit ==
  /\ gen = 1 /\ options \in {Statuses, Statuses \ {CHOOSE s \in Statuses : TRUE}}
  /\ issue \in [Repos -> [exists: {TRUE}, member: BOOLEAN, whole: BOOLEAN, status: {"none"}]
                         \union [exists: {FALSE}, member: {FALSE}, whole: {TRUE}, status: {"none"}]]
  /\ pages \in Listings
  /\ idFile \in {NoIds, [gen |-> 1, options |-> options]}
  /\ caller = [c \in Callers |-> Idle] /\ edits = 0 /\ faults = 0

Becomes(c, r) == caller' = [caller EXCEPT ![c] = r]
Ends(c, o) == Becomes(c, [caller[c] EXCEPT !.pc = "done", !.outcome = o])
World == <<gen, options, issue, pages, edits>>

(* execute: token, transport, HTTP status, size, envelope errors and missing data; the request *)
(* may have taken effect before the answer was lost.                                           *)
ExecuteFails(c) ==
  /\ caller[c].pc \in {"resolve", "page", "find", "write", "read-back"}
  /\ faults < MaxFaults /\ faults' = faults + 1 /\ Ends(c, "failed")
  /\ UNCHANGED <<World, idFile>>

(* The call begins: resolved_ids loads the cache file; a file it cannot decode is an empty one. *)
Hit == idFile # NoIds
Begin(c) ==
  /\ caller[c].pc = "idle"
  /\ \E to \in Statuses \union {"none"} :
       Becomes(c, [Idle EXCEPT !.op = IF to = "none" THEN "facts" ELSE "move", !.to = to,
                               !.left = Repos, !.ids = idFile,
                               !.pc = IF Hit THEN "start" ELSE "resolve"])
  /\ UNCHANGED <<World, idFile, faults>>

(* resolve_project: the project, then its fields with their options; stored in the file, *)
(* which is truncated first.                                                             *)
ResolveProject(c) ==
  /\ caller[c].pc = "resolve" /\ idFile' = NoIds
  /\ Becomes(c, [caller[c] EXCEPT !.ids = [gen |-> gen, options |-> options], !.pc = "store"])
  /\ UNCHANGED <<World, faults>>

StoreIds(c) ==
  /\ caller[c].pc = "store" /\ idFile' = caller[c].ids
  /\ Becomes(c, [caller[c] EXCEPT !.pc = "start"]) /\ UNCHANGED <<World, faults>>

(* move_item looks the option up in the ids before it looks for the item. *)
OptionKnown(c) == caller[c].to \in caller[c].ids.options
Start(c) ==
  /\ caller[c].pc = "start"
  /\ \/ caller[c].op = "facts" /\ Becomes(c, [caller[c] EXCEPT !.pc = "page"])
     \/ /\ caller[c].op = "move"
        /\ IF OptionKnown(c) THEN Becomes(c, [caller[c] EXCEPT !.pc = "find"]) ELSE Ends(c, "noOption")
  /\ UNCHANGED <<World, idFile, faults>>

(* find_item: one lookup per configured repository; a window that does not show all of the *)
(* issue's project items ends the call.                                                    *)
FindIn(c, r) ==
  /\ caller[c].pc = "find" /\ r \in caller[c].left
  /\ LET i == issue[r] IN
       IF i.exists /\ ~i.whole THEN Ends(c, "truncated")
       ELSE Becomes(c, [caller[c] EXCEPT !.left = @ \ {r}, !.seen = @ \/ i.exists,
                          !.matches = IF i.member THEN @ \union {r} ELSE @])
  /\ UNCHANGED <<World, idFile, faults>>

(* The number must name one item of the project. *)
(* Mutant: the last match is taken. *)
MutantUnique(c) == caller[c].matches # {}
Unique(c) == Cardinality(caller[c].matches) = 1

Found(c) ==
  /\ caller[c].pc = "find" /\ caller[c].left = {}
  /\ IF Unique(c) THEN Becomes(c, [caller[c] EXCEPT !.pc = "write"])
     ELSE Ends(c, IF caller[c].matches # {} THEN "ambiguous"
                  ELSE IF caller[c].seen THEN "notOnBoard" ELSE "notFound")
  /\ UNCHANGED <<World, idFile, faults>>

(* The mutation: the platform refuses ids of an earlier generation. *)
Write(c) ==
  /\ caller[c].pc = "write"
  /\ LET r == CHOOSE m \in caller[c].matches : TRUE IN
       \/ /\ caller[c].ids.gen = gen
          /\ issue' = [issue EXCEPT ![r].status = caller[c].to]
          /\ \/ Becomes(c, [caller[c] EXCEPT !.pc = "read-back", !.wrote = {r}]) /\ UNCHANGED faults
             \/ /\ faults < MaxFaults /\ faults' = faults + 1
                /\ Becomes(c, [caller[c] EXCEPT !.pc = "done", !.outcome = "failed", !.wrote = {r}])
       \/ caller[c].ids.gen # gen /\ Ends(c, "failed") /\ UNCHANGED <<issue, faults>>
  /\ UNCHANGED <<gen, options, pages, idFile, edits>>

(* The field is read back, and only the requested value is a success. *)
(* Mutant: the answer to the mutation is enough. *)
MutantVerified(c, observed) == TRUE
Verified(c, observed) == observed = caller[c].to

ReadBack(c) ==
  /\ caller[c].pc = "read-back"
  /\ LET observed == issue[CHOOSE m \in caller[c].wrote : TRUE].status
     IN Becomes(c, [caller[c] EXCEPT !.pc = "done", !.confirmed = observed = caller[c].to,
                      !.outcome = IF Verified(c, observed) THEN "moved" ELSE "unverified"])
  /\ UNCHANGED <<World, idFile, faults>>

(* RawItem::facts, in the order of its checks: "fields" and "labels" are windows that were cut, *)
(* "draft" and "foreign" items are no business of this project, "broken" has a part missing.    *)
(* Mutant: a cut window is read as if it were whole. *)
MutantFactOf(shape) == IF shape \in {"open", "fields", "labels"} THEN "fact"
                       ELSE IF shape \in {"draft", "foreign"} THEN "ignored" ELSE "warning"
FactOf(shape) ==
  CASE shape \in {"fields", "broken", "closed", "labels"} -> "warning"
    [] shape \in {"draft", "foreign"} -> "ignored"
    [] OTHER -> "fact"

(* item_facts: one page after the other. *)
Page(c) ==
  /\ caller[c].pc = "page" /\ caller[c].at <= Len(pages)
  /\ LET k == FactOf(pages[caller[c].at]) IN
       Becomes(c, [caller[c] EXCEPT !.at = @ + 1,
                     !.facts = IF k = "fact" THEN @ \union {<<caller[c].at, pages[caller[c].at]>>} ELSE @,
                     !.warned = IF k = "warning" THEN @ \union {<<caller[c].at, pages[caller[c].at]>>} ELSE @])
  /\ UNCHANGED <<World, idFile, faults>>

(* The last page, or a page that announces another without a cursor. *)
LastPage(c) ==
  /\ caller[c].pc = "page"
  /\ \/ caller[c].at > Len(pages) /\ Ends(c, "listed") /\ UNCHANGED faults
     \/ /\ caller[c].at \in 2..Len(pages) /\ faults < MaxFaults /\ faults' = faults + 1
        /\ Ends(c, "truncated")
  /\ UNCHANGED <<World, idFile>>

(* People move the item, take it off the board, close issues, rebuild the fields. *)
People ==
  /\ edits < MaxBoardEdits /\ edits' = edits + 1
  /\ \/ \E r \in Repos, s \in Statuses : issue[r].member /\ issue' = [issue EXCEPT ![r].status = s]
        /\ UNCHANGED <<gen, options, pages>>
     \/ \E r \in Repos : issue[r].exists /\ issue' = [issue EXCEPT ![r].member = ~@]
        /\ UNCHANGED <<gen, options, pages>>
     \/ \E n \in DOMAIN pages : pages' = [pages EXCEPT ![n] = "closed"]
        /\ UNCHANGED <<gen, options, issue>>
     \/ gen' = gen + 1 /\ options' = Statuses /\ UNCHANGED <<issue, pages>>
  /\ UNCHANGED <<idFile, caller, faults>>

ClientNext ==
  \/ \E c \in Callers : \/ Begin(c) \/ ResolveProject(c) \/ StoreIds(c) \/ Start(c) \/ Found(c)
                        \/ Write(c) \/ ReadBack(c) \/ Page(c) \/ LastPage(c) \/ ExecuteFails(c)
                        \/ \E r \in Repos : FindIn(c, r)
  \/ People

-----------------------------------------------------------------------------
(* A move reports success only when its own read-back showed the status it asked for on the    *)
(* one item that the number named; a refusal before the mutation left the board alone, an      *)
(* ambiguous number above all; a listing that finished has warned of every item whose windows  *)
(* were cut or whose parts are missing, and offers none of them as a fact.                     *)
Cut == {"fields", "labels", "broken"}
ClientHonest ==
  \A c \in Callers :
    /\ caller[c].outcome = "moved" => caller[c].confirmed
    /\ caller[c].outcome \in {"noOption", "truncated", "ambiguous", "notOnBoard", "notFound"}
         => caller[c].wrote = {}
    /\ caller[c].wrote # {} => Cardinality(caller[c].matches) = 1 /\ caller[c].left = {}
    /\ \A f \in caller[c].facts : f[2] \notin Cut \union {"draft", "foreign"}
    /\ caller[c].outcome = "listed" =>
         \A n \in 1..Len(pages) : pages[n] \in Cut => <<n, pages[n]>> \in caller[c].warned

-----------------------------------------------------------------------------
(* The write-through cache over the board provider, and the in-memory      *)
(* provider under it.  Each provider call is awaited and takes the         *)
(* provider's lock; the cache's own lock covers one update of its state.   *)
(* Writers and people interleave between those steps.                      *)
(*                                                                         *)
(* A body stands for its digest, and a field value for one of its kind.    *)

CONSTANTS Users, Contents, KnownStatuses, MaxItems, MaxWrites, MaxPeople

VARIABLES
  items,      \* the provider: item -> [status, title, body, field], Absent when not created
  edges, refs,       \* dependency edges <<blocked, blocks>>, cross references
  cache,             \* item -> the cached copy with its body's version
  pending, drained,  \* events not yet taken, number already taken by drain_events
  user,              \* each user of the cache: the call in progress
  writes, people,
  past, mismatches   \* history: the states items had; read-backs that contradict their write

cacheVars == <<items, edges, refs, cache, pending, drained, user, writes, people, past, mismatches>>
provider == <<items, edges, refs, past>>
ItemIds == 1..MaxItems

Copy(s, t, b, f) == [status |-> s, title |-> t, body |-> b, field |-> f]
Absent == Copy("absent", "absent", "absent", "absent")
Blank == Copy("none", "none", "none", "none")
Quiet == [pc |-> "idle", item |-> 1, part |-> "none", value |-> "none", observed |-> FALSE,
          read |-> Absent, bad |-> {}, result |-> "none"]

CacheInit ==
  /\ items = [i \in ItemIds |-> IF i = 1 THEN Blank ELSE Absent] /\ edges = {} /\ refs = {}
  /\ cache = [i \in ItemIds |-> Absent] /\ pending = {} /\ drained = 0
  /\ user = [u \in Users |-> Quiet] /\ writes = 0 /\ people = 0
  /\ past = {<<1, Blank>>} /\ mismatches = 0

Exists(i) == items[i] # Absent
Goes(u, r) == user' = [user EXCEPT ![u] = r]
Puts(i, copy) == items' = [items EXCEPT ![i] = copy] /\ past' = past \union {<<i, copy>>}

(* create_item: the next id, an empty status; the cache is not touched. *)
CreateItem(u) ==
  /\ user[u].pc = "idle" /\ writes < MaxWrites /\ writes' = writes + 1
  /\ \E i \in ItemIds : /\ ~Exists(i) /\ \A j \in 1..(i - 1) : Exists(j)
                        /\ Puts(i, Blank)
  /\ UNCHANGED <<edges, refs, cache, pending, drained, user, people, mismatches>>

(* The provider's answer to a write: unknown item or status, or a value of another kind. *)
Refused(i, part, v) ==
  IF ~Exists(i) THEN "noItem"
  ELSE IF part = "status" /\ v \notin KnownStatuses THEN "noStatus"
  ELSE IF part = "field" /\ v \notin Contents THEN "wrongKind" ELSE "none"

Written(copy, part, v) ==
  CASE part = "status" -> [copy EXCEPT !.status = v]
    [] part = "field" -> [copy EXCEPT !.field = v]
    [] part = "body" -> [copy EXCEPT !.title = v, !.body = v]

(* set_item_status, set_field_value, update_item_body: the provider's write comes first, and a *)
(* refusal leaves the cache alone.  update_item_body notes before whether it had seen a body.  *)
WriteThrough(u) ==
  /\ user[u].pc = "idle" /\ writes < MaxWrites /\ writes' = writes + 1
  /\ \E i \in ItemIds, part \in {"status", "field", "body"}, v \in Contents \union KnownStatuses :
       LET no == Refused(i, part, v) IN
       IF no # "none"
       THEN Goes(u, [Quiet EXCEPT !.item = i, !.result = no]) /\ UNCHANGED <<items, past>>
       ELSE /\ Puts(i, Written(items[i], part, v))
            /\ Goes(u, [Quiet EXCEPT !.pc = "fetch", !.item = i, !.part = part, !.value = v,
                                     !.observed = cache[i] # Absent])
  /\ UNCHANGED <<edges, refs, cache, pending, drained, people, mismatches>>

(* cached_item, and the refresh of a write: the provider is read, ... *)
CachedItem(u) ==
  /\ user[u].pc = "idle"
  /\ \E i \in ItemIds : Exists(i) /\ Goes(u, [Quiet EXCEPT !.pc = "insert", !.item = i, !.read = items[i]])
  /\ UNCHANGED <<provider, cache, pending, drained, writes, people, mismatches>>

(* A refresh that fails ends the call with an error: the write stands, the cached copy is the  *)
(* one from before it, and nothing is compared.                                                *)
Fetch(u) ==
  /\ user[u].pc = "fetch"
  /\ \/ Goes(u, [user[u] EXCEPT !.pc = "insert", !.read = items[user[u].item]])
     \/ Goes(u, [Quiet EXCEPT !.item = user[u].item, !.result = "noRefresh"])
  /\ UNCHANGED <<provider, cache, pending, drained, writes, people, mismatches>>

(* ... and what it said goes into the cache later, under the lock.  The field's value is asked *)
(* for separately.                                                                             *)
Insert(u) ==
  /\ user[u].pc = "insert" /\ cache' = [cache EXCEPT ![user[u].item] = user[u].read]
  /\ Goes(u, IF user[u].part = "none" THEN [user[u] EXCEPT !.pc = "idle", !.result = "ok"]
             ELSE [user[u] EXCEPT !.pc = "compare"])
  /\ UNCHANGED <<provider, pending, drained, writes, people, mismatches>>

(* What the write assumed and the provider does not show. *)
Contradicted(u) ==
  LET w == user[u] IN
  CASE w.part = "status" -> IF w.read.status # w.value THEN {"status"} ELSE {}
    [] w.part = "field" -> IF items[w.item].field # w.value THEN {"field"} ELSE {}
    [] w.part = "body" -> (IF w.observed /\ w.read.body # w.value THEN {"body"} ELSE {})
                            \union (IF w.read.title # w.value THEN {"title"} ELSE {})

Compare(u) ==
  /\ user[u].pc = "compare"
  /\ LET bad == Contradicted(u) IN
       /\ Goes(u, [user[u] EXCEPT !.bad = bad, !.pc = IF bad = {} THEN "idle" ELSE "record", !.result = "ok"])
       /\ mismatches' = mismatches + Cardinality(bad)
  /\ UNCHANGED <<provider, cache, pending, drained, writes, people>>

(* record_divergence: one event, and the state that was read wins, under one lock. *)
(* Mutant: the event replaces one already recorded for the item. *)
MutantPush(e) == {o \in pending : o.item # e.item} \union {e}
Push(e) == pending \union {e}

RecordDivergence(u) ==
  /\ user[u].pc = "record"
  /\ \E part \in user[u].bad :
       /\ part = "title" => user[u].bad = {"title"}
       /\ pending' = Push([item |-> user[u].item, part |-> part, n |-> drained + Cardinality(pending)])
       /\ Goes(u, [user[u] EXCEPT !.bad = @ \ {part}, !.pc = IF user[u].bad = {part} THEN "idle" ELSE @])
  /\ cache' = [cache EXCEPT ![user[u].item] = user[u].read]
  /\ UNCHANGED <<provider, drained, writes, people, mismatches>>

DrainEvents ==
  /\ pending # {} /\ drained' = drained + Cardinality(pending) /\ pending' = {}
  /\ UNCHANGED <<provider, cache, user, writes, people, mismatches>>

(* Edges join existing items and are unique; cross references are kept once. *)
AddEdge(u) ==
  /\ user[u].pc = "idle" /\ writes < MaxWrites /\ writes' = writes + 1
  /\ \E b, k \in ItemIds :
       LET no == IF ~Exists(b) \/ ~Exists(k) THEN "noItem" ELSE IF <<b, k>> \in edges THEN "duplicate" ELSE "ok"
       IN /\ Goes(u, [Quiet EXCEPT !.result = no])
          /\ edges' = IF no = "ok" THEN edges \union {<<b, k>>} ELSE edges
  /\ UNCHANGED <<items, past, refs, cache, pending, drained, people, mismatches>>

RemoveEdge(u) ==
  /\ user[u].pc = "idle" /\ \E e \in edges : edges' = edges \ {e}
  /\ UNCHANGED <<items, past, refs, cache, pending, drained, user, writes, people, mismatches>>

AddReference(u) ==
  /\ user[u].pc = "idle" /\ writes < MaxWrites /\ writes' = writes + 1
  /\ \E i \in ItemIds : Exists(i) /\ i \notin refs /\ refs' = refs \union {i}
  /\ UNCHANGED <<items, past, edges, cache, pending, drained, user, people, mismatches>>

(* People edit the board behind the cache. *)
BoardEdit ==
  /\ people < MaxPeople /\ people' = people + 1
  /\ \E i \in ItemIds, part \in {"status", "field", "body"}, v \in Contents :
       Exists(i) /\ Puts(i, Written(items[i], part, v))
  /\ UNCHANGED <<edges, refs, cache, pending, drained, user, writes, mismatches>>

CacheNext ==
  \/ \E u \in Users : \/ CreateItem(u) \/ WriteThrough(u) \/ CachedItem(u) \/ Fetch(u) \/ Insert(u)
                      \/ Compare(u) \/ RecordDivergence(u) \/ AddEdge(u) \/ RemoveEdge(u) \/ AddReference(u)
  \/ DrainEvents \/ BoardEdit

-----------------------------------------------------------------------------
(* Every read-back that contradicted its write is reported once, whatever other writers, people *)
(* and drains did between the write, the read-back and the report; and the cache never holds a  *)
(* copy that the provider did not have (an older read may replace a newer one: the lock covers  *)
(* the insertion, not the read).                                                                *)
DivergenceReported ==
  /\ \A u \in Users : user[u].pc \in {"idle", "fetch", "insert", "compare"} => user[u].bad = {}
  /\ mismatches = drained + Cardinality(pending)
       + Cardinality({q \in Users \X {"status", "field", "title", "body"} : q[2] \in user[q[1]].bad})
  /\ \A i \in ItemIds : cache[i] # Absent => <<i, cache[i]>> \in past
  /\ \A e \in edges : Exists(e[1]) /\ Exists(e[2])
=============================================================================
