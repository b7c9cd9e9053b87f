----------------------------- MODULE EventStores -----------------------------
(***************************************************************************)
(* The two append-only event stores, each with several connections: the    *)
(* audit log with its verified head, and the daemon's store with its blob  *)
(* directory.                                                              *)
(***************************************************************************)
EXTENDS Naturals, Sequences, FiniteSets

-----------------------------------------------------------------------------
(* The SQLite audit log of orchestraitor-events: several connections to    *)
(* one hash-chained table, each with a cached verified head and the        *)
(* data_version the cache was proven current at.  A hash is the sequence   *)
(* of the payloads up to its record: equal exactly when the chains are.    *)
(* An outside connection may edit or delete rows (Tamper).                 *)

CONSTANTS LogConns, Payloads, MaxCommits, MaxImport

VARIABLES
  rows,       \* the audit_records table
  commits,    \* the write transactions committed so far
  version,    \* connection -> PRAGMA data_version, moved by the others' commits only
  cache,      \* connection -> verified_head and cached_data_version
  envelope,   \* connection -> the envelope its producer built, or none
  importing,  \* connections whose import has committed and not yet cached
  raced,      \* connections that trust a version their import cached and did not commit
  tampered

logVars == <<rows, commits, version, cache, envelope, importing, raced, tampered>>

None == [seq |-> 0, prev |-> <<>>, payload |-> 0, hash |-> <<>>]
NoEnvelope == [seq |-> 0, prev |-> <<>>]

(* hash_envelope, AuditRecord::try_from_envelope *)
Record(seq, prev, payload) ==
  [seq |-> seq, prev |-> prev, payload |-> payload, hash |-> Append(prev, payload)]

(* load_verified_records and validate_hash_chain: recomputed hashes agree with the stored *)
(* ones, sequence numbers run from 1 without a gap, each record names its predecessor.    *)
Verifies(table) ==
  /\ {r.seq : r \in table} = 1..Cardinality(table)
  /\ \A r \in table :
       /\ r.hash = Append(r.prev, r.payload)
       /\ IF r.seq = 1 THEN r.prev = <<>>
          ELSE \E p \in table : p.seq = r.seq - 1 /\ r.prev = p.hash

(* head_record *)
DiskHead == IF rows = {} THEN None ELSE CHOOSE r \in rows : \A o \in rows : o.seq <= r.seq

(* A commit by one of the connections, or by a program outside. *)
Committed(by) ==
  /\ commits < MaxCommits /\ commits' = commits + 1
  /\ version' = [c \in LogConns |-> IF c = by THEN version[c] ELSE version[c] + 1]

LogInit ==
  /\ rows = {} /\ commits = 0 /\ version = [c \in LogConns |-> 0]
  /\ cache = [c \in LogConns |-> [head |-> None, version |-> 0]]
  /\ envelope = [c \in LogConns |-> NoEnvelope]
  /\ importing = {} /\ raced = {} /\ tampered = FALSE

(* trusted_head_with_version: the cached head when nothing foreign was committed since and *)
(* its row is still there; otherwise the whole chain is verified.                          *)
(* Mutant: the row's presence is proof enough. *)
MutantCacheCurrent(c) == cache[c].head # None /\ cache[c].head.hash \in {r.hash : r \in rows}

CacheCurrent(c) ==
  /\ cache[c].head # None /\ version[c] = cache[c].version
  /\ \E r \in rows : r.seq = cache[c].head.seq /\ r.hash = cache[c].head.hash

TrustedHead(c) == IF CacheCurrent(c) THEN cache[c].head ELSE DiskHead

(* head: one deferred transaction reads the chain and its length; the producer builds its *)
(* envelope from the answer.                                                              *)
ReadHead(c) ==
  /\ c \notin importing /\ Verifies(rows)
  /\ envelope' = [envelope EXCEPT ![c] = [seq |-> Cardinality(rows) + 1, prev |-> DiskHead.hash]]
  /\ UNCHANGED <<rows, commits, version, cache, importing, raced, tampered>>

(* EventCursor::empty: a producer that appends one record after the other (the partial       *)
(* results of a session) keeps a place of its own and does not read the head.                *)
EmptyCursor == [seq |-> 1, prev |-> <<>>]
WrapStore(c) ==
  /\ c \notin importing /\ envelope' = [envelope EXCEPT ![c] = EmptyCursor]
  /\ UNCHANGED <<rows, commits, version, cache, importing, raced, tampered>>

(* preserve: the place after the record that was stored. *)
CursorAfter(r) == [seq |-> r.seq + 1, prev |-> r.hash]

(* validate_next_envelope against the trusted head; insert's primary key is the last word. *)
(* Mutant: only the sequence number is compared. *)
MutantAccepted(c) ==
  /\ CacheCurrent(c) \/ Verifies(rows)
  /\ envelope[c].seq = TrustedHead(c).seq + 1
  /\ envelope[c].seq \notin {r.seq : r \in rows}

Accepted(c) ==
  /\ CacheCurrent(c) \/ Verifies(rows)
  /\ envelope[c].seq = TrustedHead(c).seq + 1 /\ envelope[c].prev = TrustedHead(c).hash
  /\ envelope[c].seq \notin {r.seq : r \in rows}

(* append: an IMMEDIATE transaction holds the write lock from the head's read to commit.     *)
(* The producer is done, or goes on from its cursor; one that was refused keeps its cursor or *)
(* gives up.                                                                                  *)
AppendRecord(c) ==
  /\ c \notin importing /\ envelope[c] # NoEnvelope
  /\ IF Accepted(c)
     THEN \E p \in Payloads :
            LET r == Record(envelope[c].seq, envelope[c].prev, p)
            IN /\ rows' = rows \union {r}
               /\ Committed(c)
               /\ cache' = [cache EXCEPT ![c] = [head |-> r, version |-> version[c]]]
               /\ raced' = IF CacheCurrent(c) THEN raced ELSE raced \ {c}
               /\ \E next \in {NoEnvelope, CursorAfter(r)} : envelope' = [envelope EXCEPT ![c] = next]
     ELSE /\ envelope' = [envelope EXCEPT ![c] = NoEnvelope]
          /\ UNCHANGED <<rows, commits, version, cache, raced>>
  /\ UNCHANGED <<importing, tampered>>

(* import: a validated chain replaces the table in one transaction. *)
ImportCommit(c) ==
  /\ c \notin importing
  /\ \E n \in 0..MaxImport : \E s \in [1..n -> Payloads] :
       LET chain == [i \in 1..n |-> Record(i, SubSeq(s, 1, i - 1), s[i])]
       IN /\ rows' = {chain[i] : i \in 1..n}
          /\ cache' = [cache EXCEPT ![c] = [head |-> IF n = 0 THEN None ELSE chain[n],
                                           version |-> version[c]]]
  /\ Committed(c)
  /\ importing' = importing \union {c} /\ raced' = raced \ {c} /\ tampered' = FALSE
  /\ UNCHANGED envelope

(* The version is read after the commit, by a statement of its own. *)
ImportCache(c) ==
  /\ c \in importing
  /\ raced' = IF version[c] # cache[c].version THEN raced \union {c} ELSE raced
  /\ cache' = [cache EXCEPT ![c].version = version[c]]
  /\ importing' = importing \ {c}
  /\ UNCHANGED <<rows, commits, version, envelope, tampered>>

(* Another program edits a payload or deletes a row. *)
Tamper ==
  /\ rows # {}
  /\ \E r \in rows :
       \/ rows' = rows \ {r}
       \/ \E p \in Payloads \ {r.payload} : rows' = (rows \ {r}) \union {[r EXCEPT !.payload = p]}
  /\ Committed("outside") /\ tampered' = TRUE
  /\ UNCHANGED <<cache, envelope, importing, raced>>

LogNext ==
  \/ \E c \in LogConns : ReadHead(c) \/ WrapStore(c) \/ ImportCache(c) \/ AppendRecord(c) \/ ImportCommit(c)
  \/ Tamper

-----------------------------------------------------------------------------
(* Whatever the connections interleave, as long as nobody edits the file the table is *)
(* one hash chain without gap or fork: a stale cached head never forks it.            *)
ChainKept == tampered \/ Verifies(rows)

(* A record is only ever appended to a chain that verifies, although append skips the *)
(* verification when its cache is current: an edit of the file is seen at the next    *)
(* append.  Not by a connection whose import was overtaken between its commit and the *)
(* reading of the version (ImportCache): it takes the other's commit for its own and  *)
(* appends on, until its cache is found stale and the chain is verified again.        *)
AppendsToVerified ==
  [][\A c \in LogConns :
       envelope'[c] # envelope[c] /\ rows' # rows /\ c \notin raced => Verifies(rows)]_logVars

-----------------------------------------------------------------------------
(* The daemon's store: the event_records table, appended to by read,       *)
(* compare and insert statements that are not one transaction; the         *)
(* migration every process runs when it opens the file; and the            *)
(* content-addressed blob directory, whose writers of one digest share one *)
(* temporary file name.  A hash is the sequence of payloads it covers.     *)

CONSTANTS StoreConns, MaxEvents, MaxRestarts

VARIABLES
  migrated,   \* the version row of schema_migrations
  conn,       \* connection -> where it is, and what it has read
  events,     \* the event_records table: rows of seq, prev and hash
  writer,     \* connection -> its call of store_bytes for the one digest
  held,       \* connection -> the file its write goes to
  temp, object,  \* the files at the temporary and the final path, 0 for none
  content,    \* file -> "empty" or "full"
  restarts

storeVars == <<migrated, conn, events, writer, held, temp, object, content, restarts>>

Closed == [pc |-> "closed", seq |-> 0, prev |-> <<>>, lastHash |-> <<>>]
Idle == [Closed EXCEPT !.pc = "idle"]

StoreInit ==
  /\ migrated = FALSE /\ conn = [c \in StoreConns |-> Closed] /\ events = {}
  /\ writer = [c \in StoreConns |-> "none"] /\ held = [c \in StoreConns |-> 0]
  /\ temp = 0 /\ object = 0 /\ content = <<>> /\ restarts = 0

(* next_event_sequence, last_event_hash *)
LastHash == IF events = {} THEN <<>> ELSE (CHOOSE e \in events : \A o \in events : o.seq <= e.seq).hash
NextSequence == IF events = {} THEN 1 ELSE 1 + (CHOOSE e \in events : \A o \in events : o.seq <= e.seq).seq

(* migrate: the version is looked up outside the transaction that applies it. *)
OpenProbe(c) ==
  /\ conn[c].pc = "closed"
  /\ conn' = [conn EXCEPT ![c].pc = IF migrated THEN "idle" ELSE "migrate"]
  /\ UNCHANGED <<migrated, events, writer, held, temp, object, content, restarts>>

(* The loser of two first openings meets the winner's version row: its open fails. *)
OpenMigrate(c) ==
  /\ conn[c].pc = "migrate" /\ migrated' = TRUE
  /\ conn' = [conn EXCEPT ![c].pc = IF migrated THEN "closed" ELSE "idle"]
  /\ UNCHANGED <<events, writer, held, temp, object, content, restarts>>

(* A producer asks for the next sequence number and the last hash, in two calls. *)
BuildSequence(c) ==
  /\ conn[c].pc \in {"idle", "hashed"}
  /\ conn' = [conn EXCEPT ![c].pc = IF @ = "idle" THEN "numbered" ELSE "append",
                          ![c].seq = NextSequence]
  /\ UNCHANGED <<migrated, events, writer, held, temp, object, content, restarts>>

BuildPrevious(c) ==
  /\ conn[c].pc \in {"idle", "numbered"}
  /\ conn' = [conn EXCEPT ![c].pc = IF @ = "idle" THEN "hashed" ELSE "append",
                          ![c].prev = LastHash]
  /\ UNCHANGED <<migrated, events, writer, held, temp, object, content, restarts>>

(* append_event: the last hash is read, *)
AppendReadHash(c) ==
  /\ conn[c].pc = "append"
  /\ conn' = [conn EXCEPT ![c].pc = "validate", ![c].lastHash = LastHash]
  /\ UNCHANGED <<migrated, events, writer, held, temp, object, content, restarts>>

(* then the next sequence number, and the envelope is compared with both. *)
(* Mutant: the hash is not compared. *)
MutantValidNext(c) == conn[c].seq = NextSequence

ValidNext(c) == conn[c].seq = NextSequence /\ conn[c].prev = conn[c].lastHash

AppendValidate(c) ==
  /\ conn[c].pc = "validate"
  /\ conn' = [conn EXCEPT ![c] = IF ValidNext(c) THEN [@ EXCEPT !.pc = "insert"] ELSE Idle]
  /\ UNCHANGED <<migrated, events, writer, held, temp, object, content, restarts>>

(* The insert is refused by the primary key when another connection came first. *)
AppendInsert(c) ==
  /\ conn[c].pc = "insert"
  /\ IF conn[c].seq \in {e.seq : e \in events} THEN UNCHANGED events
     ELSE events' = events \union
            {[seq |-> conn[c].seq, prev |-> conn[c].prev, hash |-> Append(conn[c].prev, c)]}
  /\ conn' = [conn EXCEPT ![c] = Idle]
  /\ UNCHANGED <<migrated, writer, held, temp, object, content, restarts>>

(* store_bytes: an object that is already a file is taken as stored. *)
PutCheck(c) ==
  /\ writer[c] = "none"
  /\ writer' = [writer EXCEPT ![c] = IF object # 0 THEN "ok" ELSE "open"]
  /\ UNCHANGED <<migrated, conn, events, held, temp, object, content, restarts>>

(* fs::write opens and truncates the temporary file, which another writer may have made, *)
(* then writes.                                                                           *)
PutOpen(c) ==
  /\ writer[c] = "open" /\ writer' = [writer EXCEPT ![c] = "write"]
  /\ IF temp = 0
     THEN /\ content' = Append(content, "empty") /\ temp' = Len(content) + 1
          /\ held' = [held EXCEPT ![c] = Len(content) + 1]
     ELSE /\ content' = [content EXCEPT ![temp] = "empty"] /\ held' = [held EXCEPT ![c] = temp]
          /\ UNCHANGED temp
  /\ UNCHANGED <<migrated, conn, events, object, restarts>>

(* Mutant: the name is installed before the bytes are written. *)
MutantPutWrite(c) ==
  /\ writer[c] = "write" /\ writer' = [writer EXCEPT ![c] = "rename"]
  /\ UNCHANGED <<migrated, conn, events, held, temp, object, content, restarts>>

PutWrite(c) ==
  /\ writer[c] = "write" /\ writer' = [writer EXCEPT ![c] = "rename"]
  /\ content' = [content EXCEPT ![held[c]] = "full"]
  /\ UNCHANGED <<migrated, conn, events, held, temp, object, restarts>>

(* rename: the temporary name may be gone, with the writer that shared it. *)
PutRename(c) ==
  /\ writer[c] = "rename" /\ held' = [held EXCEPT ![c] = 0]
  /\ writer' = [writer EXCEPT ![c] = IF temp = 0 THEN "failed" ELSE "ok"]
  /\ object' = IF temp = 0 THEN object ELSE temp
  /\ temp' = 0
  /\ UNCHANGED <<migrated, conn, events, content, restarts>>

PutAgain(c) ==
  /\ writer[c] \in {"ok", "failed"} /\ writer' = [writer EXCEPT ![c] = "none"]
  /\ UNCHANGED <<migrated, conn, events, held, temp, object, content, restarts>>

(* A process dies and is started again; files keep what was written. *)
StoreCrash(c) ==
  /\ restarts < MaxRestarts /\ restarts' = restarts + 1
  /\ conn' = [conn EXCEPT ![c] = Closed]
  /\ writer' = [writer EXCEPT ![c] = "none"] /\ held' = [held EXCEPT ![c] = 0]
  /\ UNCHANGED <<migrated, events, temp, object, content>>

StoreNext ==
  \E c \in StoreConns :
    \/ OpenProbe(c) \/ OpenMigrate(c)
    \/ Cardinality(events) < MaxEvents /\ (BuildSequence(c) \/ BuildPrevious(c))
    \/ AppendReadHash(c) \/ AppendValidate(c) \/ AppendInsert(c)
    \/ PutCheck(c) \/ PutOpen(c) \/ PutWrite(c) \/ PutRename(c) \/ PutAgain(c)
    \/ StoreCrash(c)

-----------------------------------------------------------------------------
(* The daemon's event table is one hash chain, although append_event reads the hash, reads *)
(* the sequence number and inserts in three statements any connection can come between.    *)
EventChainKept ==
  /\ {e.seq : e \in events} = 1..Cardinality(events)
  /\ \A e \in events : IF e.seq = 1 THEN e.prev = <<>>
                       ELSE \E p \in events : p.seq = e.seq - 1 /\ e.prev = p.hash

(* Once no writer is at work and no process died, an object whose name is installed holds *)
(* all its bytes: the shared temporary name costs a writer an error, never the blob.      *)
BlobsComplete ==
  restarts = 0 /\ object # 0 /\ (\A c \in StoreConns : held[c] = 0) => content[object] = "full"
=============================================================================
