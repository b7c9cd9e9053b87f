------------------------------- MODULE RunLedger -------------------------------
(***************************************************************************)
(* What the run-state store promises to its readers (the dashboard, the    *)
(* reconcile pass, the operator), stated without the loop that writes it:  *)
(* a run claims its task when its row appears, the claim is exclusive for  *)
(* as long as the row is running, and the row is settled exactly once,     *)
(* either by its supervisor or by a recovery that settles all open rows at *)
(* one instant.                                                            *)
(***************************************************************************)
CONSTANTS Tasks, NoTask, RunIds, Settled

VARIABLES claim,   \* the task of each run, NoTask before its row exists
          status

ledger == <<claim, status>>

LedgerInit ==
  /\ claim = [r \in RunIds |-> NoTask]
  /\ status = [r \in RunIds |-> "absent"]

Free(t) == \A r \in RunIds : status[r] = "running" => claim[r] # t

Claim(r, t) ==
  /\ status[r] = "absent" /\ Free(t)
  /\ claim' = [claim EXCEPT ![r] = t]
  /\ status' = [status EXCEPT ![r] = "running"]

Settle(r, s) ==
  /\ status[r] = "running" /\ s \in Settled \ {"orphaned"}
  /\ status' = [status EXCEPT ![r] = s]
  /\ UNCHANGED claim

Recover ==
  /\ status' = [r \in RunIds |-> IF status[r] = "running" THEN "orphaned" ELSE status[r]]
  /\ UNCHANGED claim

LedgerNext ==
  \/ \E r \in RunIds, t \in Tasks : Claim(r, t)
  \/ \E r \in RunIds, s \in Settled : Settle(r, s)
  \/ Recover

LedgerSpec == LedgerInit /\ [][LedgerNext]_ledger
=============================================================================
