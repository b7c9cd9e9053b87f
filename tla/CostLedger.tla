------------------------------ MODULE CostLedger ------------------------------
(***************************************************************************)
(* The cost ledger: processes that share one SQLite file migrate it,       *)
(* insert cost entries and context receipts, ask before each spawn whether *)
(* a cap allows it, and read token rollups.  A file may predate the        *)
(* profile column; the rows it has then get profile "none".                *)
(***************************************************************************)
EXTENDS Naturals, FiniteSets, FiniteSetsExt

CONSTANTS LedgerConns, LedgerSessions, Profiles, HardCap, SoftCap, Estimate, MaxTokens, MaxEntries

VARIABLES
  schema,     \* "none", "old" (no profile column), "current"
  entries,    \* cost_entries: request id, session, profile, tokens
  receipts,   \* context_receipts: request id, session, candidate and selected tokens
  ledger,     \* process -> where it is
  decision    \* process -> the last pre-spawn decision

ledgerVars == <<schema, entries, receipts, ledger, decision>>

NoProfile == "none"

LedgerInit ==
  /\ \/ schema = "none" /\ entries = {}
     \/ /\ schema = "old"
        /\ entries = {[id |-> 0, session |-> CHOOSE s \in LedgerSessions : TRUE,
                       profile |-> NoProfile, tokens |-> 1]}
  /\ receipts = {} /\ ledger = [c \in LedgerConns |-> "closed"]
  /\ decision = [c \in LedgerConns |-> "none"]

(* init_schema: the probe outside the lock, *)
LedgerProbe(c) ==
  /\ ledger[c] = "closed"
  /\ ledger' = [ledger EXCEPT ![c] = IF schema = "current" THEN "open" ELSE "migrate"]
  /\ UNCHANGED <<schema, entries, receipts, decision>>

(* migrate_schema_locked: under the write lock the column is looked for again, because the *)
(* process that held the lock before may have added it.  Adding it twice is an error.      *)
(* Mutant: the probe's answer is used. *)
MutantMigrateLocked(c) ==
  /\ ledger[c] = "migrate"
  /\ ledger' = [ledger EXCEPT ![c] = IF schema = "current" THEN "failed" ELSE "open"]
  /\ schema' = "current" /\ UNCHANGED <<entries, receipts, decision>>

MigrateLocked(c) ==
  /\ ledger[c] = "migrate" /\ ledger' = [ledger EXCEPT ![c] = "open"]
  /\ schema' = "current" /\ UNCHANGED <<entries, receipts, decision>>

(* open_read_only never migrates: it asks for a migration instead. *)
OpenReadOnly(c) ==
  /\ ledger[c] = "closed"
  /\ ledger' = [ledger EXCEPT ![c] = IF schema = "current" THEN "reading" ELSE "refused"]
  /\ UNCHANGED <<schema, entries, receipts, decision>>

CloseLedger(c) ==
  /\ ledger[c] \in {"open", "reading", "refused"}
  /\ ledger' = [ledger EXCEPT ![c] = "closed"] /\ decision' = [decision EXCEPT ![c] = "none"]
  /\ UNCHANGED <<schema, entries, receipts>>

(* token_usage_for_scope: the sum over the scope's entries. *)
TokenUsage == MapThenSumSet(LAMBDA e : e.tokens, entries)

(* pre_spawn_check: any exceeded hard cap blocks, else an exceeded soft cap warns. *)
Decide == IF TokenUsage + Estimate > HardCap THEN "hard"
          ELSE IF TokenUsage + Estimate > SoftCap THEN "warn" ELSE "allow"

PreSpawnCheck(c) ==
  /\ ledger[c] = "open" /\ decision' = [decision EXCEPT ![c] = Decide]
  /\ UNCHANGED <<schema, entries, receipts, ledger>>

(* insert_entry: in one IMMEDIATE transaction, one profile per session, one row per request. *)
(* Mutant: the session's profile is not looked at. *)
MutantFitsSession(e) == e.id \notin {o.id : o \in entries}

FitsSession(e) ==
  /\ \A o \in entries : o.session = e.session => o.profile = e.profile
  /\ e.id \notin {o.id : o \in entries}

(* Whoever made a call reports its cost, asked for or not and above its estimate or not. *)
InsertEntry(c) ==
  /\ ledger[c] = "open"
  /\ \E id \in 1..MaxEntries, s \in LedgerSessions, p \in Profiles \union {NoProfile}, t \in 1..MaxTokens :
       LET e == [id |-> id, session |-> s, profile |-> p, tokens |-> t]
       IN entries' = IF FitsSession(e) THEN entries \union {e} ELSE entries
  /\ UNCHANGED <<schema, receipts, ledger, decision>>

(* insert_context_receipt: the request id is the primary key. *)
InsertReceipt(c) ==
  /\ ledger[c] = "open"
  /\ \E id \in 1..MaxEntries, s \in LedgerSessions :
       receipts' = IF id \in {r.id : r \in receipts} THEN receipts
                   ELSE receipts \union {[id |-> id, session |-> s, candidate |-> 2, selected |-> 1]}
  /\ UNCHANGED <<schema, entries, ledger, decision>>

LedgerNext ==
  \E c \in LedgerConns :
    \/ LedgerProbe(c) \/ MigrateLocked(c) \/ OpenReadOnly(c) \/ CloseLedger(c)
    \/ PreSpawnCheck(c) \/ InsertEntry(c) \/ InsertReceipt(c)

-----------------------------------------------------------------------------
(* token_efficiency_rollups grouped by profile: entries are summed per session and profile, *)
(* receipts per session, the two joined on the session and summed per profile.              *)
Groups == {[session |-> e.session, profile |-> e.profile] : e \in entries}
SessionCandidates(s) == MapThenSumSet(LAMBDA r : r.candidate, {r \in receipts : r.session = s})
ProfileRollup(p) ==
  [tokens |-> MapThenSumSet(LAMBDA e : e.tokens, {e \in entries : e.profile = p}),
   candidate |-> MapThenSumSet(LAMBDA g : SessionCandidates(g.session), {g \in Groups : g.profile = p})]

(* The rollups by profile add up to what the receipts of the sessions with entries say: no   *)
(* receipt is counted for two profiles, whichever processes inserted concurrently and        *)
(* whether the rows are older than the profile column.                                       *)
RollupsExact ==
  MapThenSumSet(LAMBDA p : ProfileRollup(p).candidate, Profiles \union {NoProfile}) =
    MapThenSumSet(SessionCandidates, {e.session : e \in entries})

(* A decision that warns or blocks stands: whatever other processes insert, migrate or close *)
(* after it was read, usage with the estimate is still above that cap.  (An allowance may be *)
(* out of date at once: nothing holds the spend between the check and the call.)  And no     *)
(* opening of a ledger fails because another process migrates.                               *)
BlocksStand ==
  /\ \A c \in LedgerConns :
       /\ decision[c] = "hard" => TokenUsage + Estimate > HardCap
       /\ decision[c] = "warn" => TokenUsage + Estimate > SoftCap
  /\ \A c \in LedgerConns : ledger[c] # "failed"
=============================================================================
