-------------------------------- MODULE Tools --------------------------------
(****************************************************************************)
(* What agents and the command line reach the outside through: the board    *)
(* tools and the other tools of the MCP gateway, the walk over blockers,    *)
(* the verdict on a pull request, the expansion of references, the record   *)
(* of thoughts, the clients of the platform's board and of its cache, the   *)
(* delegation of gh, the index a context is assembled from, the proxy in    *)
(* front of the model providers, and the simplify pass.                     *)
(****************************************************************************)
EXTENDS BoardTools, GhDelegation, GatewayTools

CONSTANTS
  MaxBoardSteps,  \* bound: calls, faults and edits of the board together
  MaxBoardCalls,  \* bound: calls of the board tools at a time
  NewFiles,       \* files of the gateway's work tree that are not there at first
  BoardItems, BoardEdges, MAX_BLOCKED_DEPTH, MAX_RESULT_ITEMS,
  Oids, Checks, KNOWN_DISABLED_JOBS, Buckets, Prefix(_), MaxMoves,
  Refs, MAX_PASS_CHARS, MAX_REFERENCE_CHARS, NoticeChars, MaxSpans,
  Callers, Repos, WholeRepos, Statuses, Listings, MaxBoardEdits, MaxClientFaults,
  Users, Contents, KnownStatuses, MaxItems, MaxWrites, MaxCachePeople,
  IndexFiles, IndexContents, Definitions(_), Mentions(_, _), Unsupported, MaxFileEdits,
  MaxStream, MaxRequests,
  Universe, Runs, Paths, StagedFiles, PathArgs, MaxTreeEdits

VARIABLES
  focus,         \* the component that moves in this behaviour
  mode, matches, root_exists, walkEdges, stack, walkSeen, path, walkFound, cycle,
  depth_capped, answer, walkPc,
  pr, runs, files, snap, verdict, statusPc, moves, ticks, cleaned,
  spans, raw, queue, site, subst, pass_chars, budget_exceeded, fetched,
  outcomes,
  gen, options, issue, pages, idFile, caller, edits, clientFaults,
  items, cacheEdges, refs, cache, pending, drained, user, writes,
  cachePeople, past, mismatches,
  disk, index, next, walked, todo, passing, contextSeen, basis, fileEdits,
  token, request, pc, sent, part, parser, proxyAnswers, ledger, sink,
  args, simplifyTree, available, step, child, result, simplifyFound, applied,
  exit, gone, rewrote, treeEdits

Reads == INSTANCE BoardReads WITH edges <- walkEdges, seen <- walkSeen, found <- walkFound
Client == INSTANCE BoardClient WITH
  MaxFaults <- MaxClientFaults, MaxPeople <- MaxCachePeople, faults <- clientFaults,
  edges <- cacheEdges, people <- cachePeople
Index == INSTANCE ContextIndex WITH
  Files <- IndexFiles, Contents <- IndexContents, seen <- contextSeen
Proxy == INSTANCE ProviderProxy WITH answers <- proxyAnswers
Simplify == INSTANCE SimplifyPass WITH tree <- simplifyTree, found <- simplifyFound

(* What the code justifies: creations of pull requests are recognised, a     *)
(* process has finitely many users, and nothing the board holds has the name *)
(* of what is not there;                                                     *)
(* findings are of three classes, and of the tools only clippy has fixes     *)
(* that are safe.  Limits are natural numbers, a board and the checks of a   *)
(* commit are finite, and the depth cap is below the walk's two markers.     *)
ASSUME ToolsAssumption ==
  /\ BoardToolsAssumption /\ CommandsRecognised /\ GatewayAssumption
  /\ Listings \subseteq Seq({"open", "draft", "foreign", "fields", "labels", "broken", "closed"})
  /\ IsFiniteSet(Users) /\ "absent" \notin Contents \cup KnownStatuses
  /\ \A f \in Universe :
       /\ f.class \in {"Format", "SafeFix", "Semantic"} /\ f.what \in Nat
       /\ f.class = "SafeFix" => f.rule \notin {"rustfmt", "rumdl", "unused-dependency"}
  /\ IsFiniteSet(BoardItems) /\ BoardItems \subseteq Nat /\ 0 \in BoardItems
  /\ MAX_BLOCKED_DEPTH \in Nat /\ MAX_BLOCKED_DEPTH + 1 < Reads!Unseen
  /\ MAX_RESULT_ITEMS \in Nat
  /\ 0 \in Oids /\ IsFiniteSet(Checks)
  /\ MAX_PASS_CHARS \in Nat /\ MAX_REFERENCE_CHARS \in Nat /\ NoticeChars \in Nat /\ MaxSpans \in Nat
  /\ MAX_THOUGHTS_PER_RUN \in Nat /\ MaxNumber \in Nat
  /\ IndexFiles \subseteq Nat

-----------------------------------------------------------------------------
(* Values for the run: graphs over four items, deeper than the walk goes, *)
(* with cycles through the root and through one item; two commits that    *)
(* share the prefix the verdict file is named by; three files of which    *)
(* one has no grammar; two findings of a rule in one file and two of one  *)
(* key; three clients, of which two call under one session.               *)
ClientSessions == <<"s1", "s2", "s1">>
Blocking == {<<"y", "x">>}
ReadyAndBlocking == [i \in {"x", "y"} |-> IF i = "x" THEN "Ready" ELSE "InProgress"]
(* Every handle of the gateway wired, and all but one. *)
SomeWirings == {Handles, Handles \ {"registry"}, Handles \ {"audit"}}
Shortened(oid) == oid % 2
WalkedEdges == ({0, 1, 2, 3} \X {1, 2, 3} \ {<<1, 1>>, <<3, 3>>}) \cup {<<0, 0>>, <<3, 0>>}
Defined(content) ==
  CASE content = 1 -> {<<1, "f">>} [] content = 2 -> {<<1, "f">>, <<2, "g">>} [] OTHER -> {}
Mentioned(content, name) == IF content = 2 /\ name = "g" THEN {"f"} ELSE {}
InTree(file) == [form |-> "rel", file |-> file]
Finding(class, where, line, rule, text) ==
  [class |-> class, path |-> where, line |-> line, rule |-> rule, what |-> text]
ToolFindings ==
  {Finding("Format", [form |-> "abs", file |-> "a"], 0, "rustfmt", 1),
   Finding("SafeFix", InTree("a"), 1, "r", 1), Finding("SafeFix", InTree("a"), 2, "r", 1),
   Finding("Semantic", InTree("b"), 0, "unused-dependency", 1),
   Finding("Semantic", InTree("b"), 0, "unused-dependency", 2)}
SimplifyRun(config, fix, staged, scoped, autoSafe) ==
  [config |-> config, fix |-> fix, staged |-> staged, scoped |-> scoped, gitWorks |-> TRUE,
   pedanticCheck |-> TRUE, autoFormat |-> TRUE, autoSafe |-> autoSafe]
TwoPaths == {{"cargo", "cargo-machete"}, {"cargo", "rumdl"}}
StagedA == {InTree("a")}
PathA == {[form |-> "abs", file |-> "a"]}
OneListing == {<<"fields", "open">>}
SimplifyRuns ==
  {SimplifyRun("ok", "safe", FALSE, TRUE, TRUE), SimplifyRun("ok", "safe", TRUE, FALSE, TRUE),
   SimplifyRun("ok", "safe", FALSE, FALSE, FALSE), SimplifyRun("ok", "format", FALSE, FALSE, TRUE),
   SimplifyRun("disabled", "safe", TRUE, TRUE, TRUE)}
GhCommands ==
  {<<"gh", "pr", "create">>, <<"gh", "--repo", "x", "pr", "new">>,
   <<"gh", "--unknown", "pr", "create">>, <<"/usr/bin/gh", "--repo=x", "pr", "--", "create">>,
   <<"gh", "pr", "view">>, <<"git", "push">>, <<"gh">>, <<"-h", "gh">>}

-----------------------------------------------------------------------------
walkState == <<mode, matches, root_exists, walkEdges, stack, walkSeen, path, walkFound,
               cycle, depth_capped, answer, walkPc>>
verdictState == <<pr, runs, files, snap, verdict, statusPc, moves, ticks,
                  cleaned>>
refsState == <<spans, raw, queue, site, subst, pass_chars, budget_exceeded,
               fetched, outcomes>>
clientState == <<gen, options, issue, pages, idFile, caller, edits,
                 clientFaults>>
cacheState == <<items, cacheEdges, refs, cache, pending, drained, user,
                writes, cachePeople, past, mismatches>>
contextState == <<disk, index, next, walked, todo, passing, contextSeen,
                  basis, fileEdits>>
proxyState == <<token, request, pc, sent, part, parser, proxyAnswers, ledger,
                sink>>
simplifyState == <<args, simplifyTree, available, step, child, result,
                   simplifyFound, applied, exit, gone, rewrote, treeEdits>>
toolsVars == <<focus, vars, gatewayVars, walkState, verdictState,
          refsState, thoughtVars, clientState, cacheState, ghVars,
          contextState, proxyState, simplifyState>>

(* The components do not meet: one of them moves, the others stay as they *)
(* begin.                                                                 *)
ToolsInit ==
  /\ focus \in {"board", "gateway", "walk", "verdict", "refs", "thoughts",
                "client", "cache", "gh", "context", "proxy", "simplify"}
  /\ Init
  /\ GatewayInit /\ (\A f \in NewFiles : tree[f] = Absent)
       /\ (wired = Handles \/ \A f \in Files \ NewFiles : tree[f] = {})
       /\ (focus # "gateway" => wired = Handles /\ \A f \in Files \ NewFiles : tree[f] # {})
  /\ Reads!WalkInit /\ (focus # "walk" => mode = "search")
  /\ Reads!StatusInit
  /\ Reads!RefInit /\ (focus # "refs" => spans = <<>> /\ raw = [r \in Refs |-> 0])
  /\ ThoughtInit
  /\ Client!ClientInit /\ (\A r \in WholeRepos : issue[r].whole)
       /\ (focus # "client" => options # Statuses /\ idFile = Client!NoIds
       /\ \A r \in Repos : ~issue[r].exists)
  /\ Client!CacheInit
  /\ GhInit /\ (focus # "gh" => required /\ complete /\ email = "unset" /\ pin = "unset"
       /\ gh.entry = "env" /\ gh.command = <<"gh">>)
  /\ Index!ContextInit /\ (focus # "context" => disk = [f \in IndexFiles |-> 0])
  /\ Proxy!ProxyInit
  /\ Simplify!SimplifyInit
       /\ (focus # "simplify" => simplifyTree = {} /\ args.config = "disabled"
            /\ available = CHOOSE p \in Paths \cap SUBSET Simplify!Programs : TRUE)

(* Clients of one session are alike: the first that is free takes a call. *)
FirstFreeCalls ==
  \A c, d \in Clients :
    (d < c /\ SessionOf[d] = SessionOf[c] /\ call[d].pc = "idle" /\ call[c].pc = "idle")
      => call'[c].pc = "idle"

ToolsNext ==
  \/ /\ focus = "board" /\ Next /\ calls' + faults' + people' <= MaxBoardSteps
     /\ Cardinality({c \in Clients : call'[c].pc # "idle"}) <= MaxBoardCalls /\ FirstFreeCalls
     /\ UNCHANGED <<focus, gatewayVars, walkState, verdictState, refsState,
                    thoughtVars, clientState, cacheState, ghVars,
                    contextState, proxyState, simplifyState>>
  \/ /\ focus = "gateway" /\ GatewayNext
     /\ UNCHANGED <<focus, vars, walkState, verdictState, refsState,
                    thoughtVars, clientState, cacheState, ghVars,
                    contextState, proxyState, simplifyState>>
  \/ /\ focus = "walk" /\ Reads!WalkNext
     /\ UNCHANGED <<focus, vars, gatewayVars, verdictState, refsState,
                    thoughtVars, clientState, cacheState, ghVars,
                    contextState, proxyState, simplifyState>>
  \/ /\ focus = "verdict" /\ Reads!StatusNext
     /\ UNCHANGED <<focus, vars, gatewayVars, walkState, refsState,
                    thoughtVars, clientState, cacheState, ghVars,
                    contextState, proxyState, simplifyState>>
  \/ /\ focus = "refs" /\ Reads!RefNext
     /\ UNCHANGED <<focus, vars, gatewayVars, walkState, verdictState,
                    thoughtVars, clientState, cacheState, ghVars,
                    contextState, proxyState, simplifyState>>
  \/ /\ focus = "thoughts" /\ ThoughtNext
     /\ UNCHANGED <<focus, vars, gatewayVars, walkState, verdictState,
                    refsState, clientState, cacheState, ghVars,
                    contextState, proxyState, simplifyState>>
  \/ /\ focus = "client" /\ Client!ClientNext
     /\ UNCHANGED <<focus, vars, gatewayVars, walkState, verdictState,
                    refsState, thoughtVars, cacheState, ghVars,
                    contextState, proxyState, simplifyState>>
  \/ /\ focus = "cache" /\ Client!CacheNext
     /\ UNCHANGED <<focus, vars, gatewayVars, walkState, verdictState,
                    refsState, thoughtVars, clientState, ghVars,
                    contextState, proxyState, simplifyState>>
  \/ /\ focus = "gh" /\ GhNext
     /\ UNCHANGED <<focus, vars, gatewayVars, walkState, verdictState,
                    refsState, thoughtVars, clientState, cacheState,
                    contextState, proxyState, simplifyState>>
  \/ /\ focus = "context" /\ Index!ContextNext
     /\ UNCHANGED <<focus, vars, gatewayVars, walkState, verdictState,
                    refsState, thoughtVars, clientState, cacheState,
                    ghVars, proxyState, simplifyState>>
  \/ /\ focus = "proxy" /\ Proxy!ProxyNext
     /\ UNCHANGED <<focus, vars, gatewayVars, walkState, verdictState,
                    refsState, thoughtVars, clientState, cacheState,
                    ghVars, contextState, simplifyState>>
  \/ /\ focus = "simplify" /\ Simplify!SimplifyNext
     /\ UNCHANGED <<focus, vars, gatewayVars, walkState, verdictState,
                    refsState, thoughtVars, clientState, cacheState,
                    ghVars, contextState, proxyState>>

ToolsSpec == ToolsInit /\ [][ToolsNext]_toolsVars

-----------------------------------------------------------------------------
(* What a read says is complete and of one moment: the walk over the       *)
(* blockers finds all of them within the depth or the cut is named (those  *)
(* whose lookup then fails are missing from the answer, which does not say *)
(* so), a verdict whose head, base, reviews and checks belong together,    *)
(* every reference expanded, or left out and said so, within the pass      *)
(* budget, an index without symbols of lost content, and every recorded    *)
(* thought in its sequence.                                                *)
ReadsComplete ==
  /\ Reads!BlockersComplete
  /\ Reads!VerdictOfOneSnapshot
  /\ Reads!ExpansionAccounted
  /\ Index!IndexSound
  /\ RecordsReadable

(* A move reports success only after its own read-back of the one item the *)
(* number names, a refusal before the mutation left the board alone, and a *)
(* listing warns of every item it saw cut; through the cache, every        *)
(* read-back that contradicted its write is reported once, and no copy is  *)
(* kept that the platform never had.  A completion has all the text the    *)
(* provider sent, however the network cut it, but for a last event of      *)
(* which only a part of the prefix came, and is charged once.  And a       *)
(* simplify pass marks as applied what it saw gone, lets no finding in     *)
(* scope through but those about format, which never refuse, and rewrites  *)
(* nothing it was not told to.                                             *)
ClientsHonest ==
  /\ Client!ClientHonest /\ Client!DivergenceReported
  /\ Proxy!ProxyHonest
  /\ Simplify!PassHonest
=============================================================================
