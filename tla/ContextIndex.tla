----------------------------- MODULE ContextIndex -----------------------------
(***************************************************************************)
(* The incremental repository index.  A pass walks the repository, reads   *)
(* file after file while others edit them, and works on a copy that        *)
(* replaces the index when every file was read.  Blobs are keyed by        *)
(* content: content that was parsed before, at this path or another, is    *)
(* not parsed again.  A symbol's identity holds the path it was parsed at. *)
(* A file is a number, in walk order; a content is its own digest.         *)
(***************************************************************************)
EXTENDS Naturals, FiniteSets, FiniteSetsExt

CONSTANTS Files, Contents,
          Definitions(_),    \* of a content: pairs of a line and a name
          Mentions(_, _),    \* content, name: the names called in its body
          Unsupported,       \* files whose grammar is not built in
          MaxFileEdits       \* bound: edits of the repository

VARIABLES
  disk,          \* content of every file, 0 where there is none
  index,         \* paths, blobs, symbols and calls
  next,          \* the copy a pass works on
  walked, todo,  \* files the walk found, and those not read yet
  passing,       \* a pass is under way
  seen,          \* what this pass read of every file
  basis,         \* what the last complete pass read
  fileEdits

contextVars == <<disk, index, next, walked, todo, passing, seen, basis, fileEdits>>

Empty == [x \in {} |-> 0]
Without(f, S) == [x \in DOMAIN f \ S |-> f[x]]
With(f, x, v) == [y \in {x} \cup DOMAIN f |-> IF y = x THEN v ELSE f[y]]
Having(f, v) == {x \in DOMAIN f : f[x] = v}

ContextInit ==
  /\ disk \in [Files -> Contents \cup {0}]
  /\ index = [paths |-> Empty, blobs |-> Empty, symbols |-> Empty, calls |-> {}]
  /\ next = index /\ walked = {} /\ todo = {} /\ passing = FALSE
  /\ seen = Empty /\ basis = Empty /\ fileEdits = 0

(* repository_files: the walk; its answer is sorted. *)
BeginPass ==
  /\ ~passing /\ passing' = TRUE
  /\ walked' = {f \in Files : disk[f] # 0} /\ todo' = walked'
  /\ next' = index /\ seen' = Empty
  /\ UNCHANGED <<disk, index, basis, fileEdits>>

PurgeDigestData(ix, D) ==
  [ix EXCEPT !.symbols = Without(ix.symbols, {id \in DOMAIN ix.symbols : ix.symbols[id] \in D}),
             !.blobs = Without(ix.blobs, D)]

(* remove_path for each of the paths: what no other path has is purged. *)
(* Mutant: a path loses its content, the content stays. *)
MutantRemovePaths(ix, S) == [ix EXCEPT !.paths = Without(ix.paths, S)]
RemovePaths(ix, S) ==
  LET left == [ix EXCEPT !.paths = Without(ix.paths, S)]
  IN  PurgeDigestData(left, {d \in {ix.paths[f] : f \in S \cap DOMAIN ix.paths} : Having(left.paths, d) = {}})

Detached(ix, f, d) ==
  IF f \in DOMAIN ix.paths /\ ix.paths[f] # d THEN RemovePaths(ix, {f}) ELSE ix

(* classify_age, once the path's former content is detached. *)
Reused(ix, f, d) == (f \in DOMAIN ix.paths /\ ix.paths[f] = d) \/ d \in DOMAIN ix.blobs

ReassociatePath(ix, f, d) ==
  [ix EXCEPT !.paths = With(Without(ix.paths, Having(ix.paths, d)), f, d)]

(* parse_blob and insert_symbol: a symbol with the same path, line and     *)
(* name is replaced, whatever content it belongs to.                       *)
ParseBlob(ix, f, d) ==
  LET new == {<<f, x>> : x \in Definitions(d)}
  IN  [ix EXCEPT !.symbols =
         [id \in new \cup DOMAIN ix.symbols |-> IF id \in new THEN d ELSE ix.symbols[id]]]

(* upsert_blob; "still" says that the blob never left the path it was      *)
(* parsed at.                                                              *)
UpsertBlob(ix, f, d, reused) ==
  LET blob == [path |-> f, age |-> IF reused THEN "reused" ELSE "current",
               still |-> reused => ix.blobs[d].still /\ ix.blobs[d].path = f]
      stored == ReassociatePath([ix EXCEPT !.blobs = With(ix.blobs, d, blob)], f, d)
  IN  IF reused THEN stored ELSE ParseBlob(stored, f, d)

IndexPath ==
  /\ passing /\ todo # {}
  /\ LET f == Min(todo)
         d == disk[f]
         ix == Detached(next, f, d)
         reused == Reused(ix, f, d)
     IN  /\ d # 0 /\ (reused \/ f \notin Unsupported)
         /\ next' = UpsertBlob(ix, f, d, reused)
         /\ todo' = todo \ {f} /\ seen' = With(seen, f, d)
  /\ UNCHANGED <<disk, index, walked, passing, basis, fileEdits>>

(* A file vanished after the walk, or has no grammar: the copy is dropped. *)
PassFails ==
  /\ passing /\ todo # {}
  /\ LET f == Min(todo)
         d == disk[f]
     IN  d = 0 \/ (f \in Unsupported /\ ~Reused(Detached(next, f, d), f, d))
  /\ passing' = FALSE /\ todo' = {} /\ walked' = {} /\ next' = index /\ seen' = Empty
  /\ UNCHANGED <<disk, index, basis, fileEdits>>

EvictOrphanedPaths(ix) == RemovePaths(ix, DOMAIN ix.paths \ walked)

(* rebuild_references_and_calls: a symbol calls every other one whose name *)
(* its body mentions.                                                      *)
Rebuilt(ix) ==
  [ix EXCEPT !.calls =
     {e \in (DOMAIN ix.symbols) \X (DOMAIN ix.symbols) :
        e[1] # e[2] /\ e[2][2][2] \in Mentions(ix.symbols[e[1]], e[1][2][2])}]

EndPass ==
  /\ passing /\ todo = {}
  /\ index' = Rebuilt(EvictOrphanedPaths(next)) /\ basis' = seen
  /\ passing' = FALSE /\ walked' = {} /\ next' = index' /\ seen' = Empty
  /\ UNCHANGED <<disk, todo, fileEdits>>

Edit ==
  /\ fileEdits < MaxFileEdits
  /\ \E f \in Files : \E c \in (Contents \cup {0}) \ {disk[f]} : disk' = [disk EXCEPT ![f] = c]
  /\ fileEdits' = fileEdits + 1
  /\ UNCHANGED <<index, next, walked, todo, passing, seen, basis>>

ContextNext == BeginPass \/ IndexPath \/ PassFails \/ EndPass \/ Edit

-----------------------------------------------------------------------------
(* search_text and read_excerpt answer by the path map, find_symbol by the *)
(* symbols, callers and callees by the edges.                              *)
SearchText(name) ==
  {f \in DOMAIN index.paths : \E x \in Definitions(index.paths[f]) : x[2] = name}
FindSymbol(name) == {id \in DOMAIN index.symbols : id[2][2] = name}
CallersOf(id) == {e[1] : e \in {e \in index.calls : e[2] = id}}

(* Whatever was moved, copied, swapped or deleted between and during the   *)
(* passes, the index is the one of the last complete pass: it holds        *)
(* exactly the contents that pass read, each under one path that had it;   *)
(* no symbol or call edge is of content that is gone, nor one the content  *)
(* does not define; and a blob that stayed where it was parsed has all its *)
(* symbols, so that a search and a symbol query agree on it.               *)
IndexSound ==
  /\ DOMAIN index.blobs = {basis[f] : f \in DOMAIN basis}
  /\ \A f \in DOMAIN index.paths : f \in DOMAIN basis /\ index.paths[f] = basis[f]
  /\ \A d \in DOMAIN index.blobs : Having(index.paths, d) = {index.blobs[d].path}
  /\ \A id \in DOMAIN index.symbols :
       /\ index.symbols[id] \in DOMAIN index.blobs
       /\ id[2] \in Definitions(index.symbols[id])
       /\ CallersOf(id) \subseteq DOMAIN index.symbols
  /\ \A d \in DOMAIN index.blobs : index.blobs[d].still =>
       \A x \in Definitions(d) :
         /\ index.blobs[d].path \in SearchText(x[2])
         /\ <<index.blobs[d].path, x>> \in FindSymbol(x[2])
         /\ index.symbols[<<index.blobs[d].path, x>>] = d
=============================================================================
