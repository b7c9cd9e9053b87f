-------------------------- MODULE InstallationTokens --------------------------
(***************************************************************************)
(* The GitHub App's installation tokens: threads share one cache slot      *)
(* under a mutex and a condition variable.  One caller mints while the     *)
(* others wait; the mint runs without the lock and may fail or panic.      *)
(***************************************************************************)
EXTENDS Naturals, FiniteSets

CONSTANTS Threads, Skew, Lifetimes, MaxLifetime, MaxCalls, MaxEpoch

TokensAssumption == Skew \in Nat /\ Lifetimes \subseteq Nat /\ MaxLifetime \in Nat

VARIABLES
  slot,      \* CacheState: [state |-> "empty", "minting" or "ready", expires]
  thread,    \* where each caller is
  got,       \* the answer of a caller's last call: [ok, cached, expires, at]
  calls, epoch

tokenVars == <<slot, thread, got, calls, epoch>>
Nothing == [ok |-> FALSE, cached |-> FALSE, expires |-> 0, at |-> 0]
Empty == [state |-> "empty", expires |-> 0]

TokensInit ==
  /\ slot = Empty /\ thread = [t \in Threads |-> "idle"] /\ got = [t \in Threads |-> Nothing]
  /\ calls = 0 /\ epoch = 0

(* is_usable_at *)
(* Mutant: a token is used to its last second. *)
MutantUsable(expires) == epoch < expires
Usable(expires) == epoch + Skew < expires

CallStarts(t) ==
  /\ thread[t] = "idle" /\ calls < MaxCalls /\ calls' = calls + 1
  /\ thread' = [thread EXCEPT ![t] = "look"] /\ UNCHANGED <<slot, got, epoch>>

(* installation_token, one turn of the loop under the lock. *)
(* Mutant: a caller who finds the slot taken mints too. *)
MutantMustWait == FALSE
MustWait == slot.state = "minting"

Look(t) ==
  /\ thread[t] = "look"
  /\ IF slot.state = "ready" /\ Usable(slot.expires)
     THEN /\ got' = [got EXCEPT ![t] = [ok |-> TRUE, cached |-> TRUE, expires |-> slot.expires, at |-> epoch]]
          /\ thread' = [thread EXCEPT ![t] = "idle"] /\ UNCHANGED slot
     ELSE IF MustWait
     THEN thread' = [thread EXCEPT ![t] = "wait"] /\ UNCHANGED <<slot, got>>
     ELSE thread' = [thread EXCEPT ![t] = "mint"] /\ slot' = [Empty EXCEPT !.state = "minting"] /\ UNCHANGED got
  /\ UNCHANGED <<calls, epoch>>

(* notify_all: the waiters look again. *)
Notified(s) == [t \in Threads |-> IF s[t] = "wait" THEN "look" ELSE s[t]]

(* into_validated *)
Valid(expires) == expires > epoch /\ expires <= epoch + MaxLifetime

(* mint_once answered: a fresh token into the slot, or the slot is emptied; all waiters wake. *)
MintEnds(t) ==
  /\ thread[t] = "mint"
  /\ \/ \E l \in Lifetimes :
          IF Valid(epoch + l)
          THEN /\ slot' = [state |-> "ready", expires |-> epoch + l]
               /\ got' = [got EXCEPT ![t] = [ok |-> TRUE, cached |-> FALSE, expires |-> epoch + l, at |-> epoch]]
          ELSE slot' = Empty /\ got' = [got EXCEPT ![t] = Nothing]
     \/ slot' = Empty /\ got' = [got EXCEPT ![t] = Nothing]
  /\ thread' = Notified([thread EXCEPT ![t] = "idle"]) /\ UNCHANGED <<calls, epoch>>

(* A panic in the mint: the guard's drop empties the slot and wakes the waiters. *)
(* Mutant: no guard. *)
MutantGuardDrops(t) == slot' = slot /\ thread' = [thread EXCEPT ![t] = "dead"]
GuardDrops(t) == slot' = Empty /\ thread' = Notified([thread EXCEPT ![t] = "dead"])

MintPanics(t) == thread[t] = "mint" /\ GuardDrops(t) /\ UNCHANGED <<got, calls, epoch>>

Seconds == epoch < MaxEpoch /\ epoch' = epoch + 1 /\ UNCHANGED <<slot, thread, got, calls>>

TokensNext == Seconds \/ \E t \in Threads : CallStarts(t) \/ Look(t) \/ MintEnds(t) \/ MintPanics(t)

TokensSpec == TokensInit /\ [][TokensNext]_tokenVars

TokensFair == \A t \in Threads : WF_tokenVars(Look(t)) /\ WF_tokenVars(MintEnds(t))

-----------------------------------------------------------------------------
(* No two mints are in flight, the slot says "minting" exactly while one is, and a token comes  *)
(* out of the cache only with more than the skew left (a fresh one may have less).              *)
OneMint ==
  /\ Cardinality({t \in Threads : thread[t] = "mint"}) <= 1
  /\ slot.state = "minting" <=> \E t \in Threads : thread[t] = "mint"
  /\ \A t \in Threads : got[t].ok => got[t].at + (IF got[t].cached THEN Skew ELSE 0) < got[t].expires
  /\ (\E t \in Threads : thread[t] = "wait") => \E t \in Threads : thread[t] = "mint"

Settled == \A t \in Threads : thread[t] # "wait"

(* Every call returns: no waiter is left behind by a mint that failed or panicked. *)
CallsReturn == []<>Settled
=============================================================================
