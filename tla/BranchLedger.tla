---------------------------- MODULE BranchLedger ----------------------------
(***************************************************************************)
(* What ForkOrchestrator promises about branches, without threads, sweeps,  *)
(* leases or close: a ledger of ids and the backend halves each one holds.  *)
(*                                                                         *)
(*   - a half is acquired only under a journaled "forking" row;             *)
(*   - a row turns "live" only with both halves in place;                   *)
(*   - a half is released only under a row that says so, "forking" (a       *)
(*     rollback) or "killing" (a journaled kill);                           *)
(*   - a row is dropped last, when nothing is held under it;                *)
(*   - a supervisor crash may lose halves, never rows.                      *)
(*                                                                         *)
(* Orchestrator implements it (OrchestratorRefinement).                     *)
(***************************************************************************)
CONSTANT ID

VARIABLES ledger, held

ledgerVars == <<ledger, held>>

Half == {"kv", "sandbox"}

LedgerTypeOK ==
    /\ ledger \in [ID -> {"absent", "forking", "live", "killing"}]
    /\ held \in [ID -> SUBSET Half]

LedgerInit ==
    /\ ledger = [b \in ID |-> "absent"]
    /\ held = [b \in ID |-> {}]

\* create_parent, or fork with one row per child.
Enter(C) ==
    /\ \A b \in C : ledger[b] = "absent" /\ held[b] = {}
    /\ ledger' = [b \in ID |-> IF b \in C THEN "forking" ELSE ledger[b]]
    /\ UNCHANGED held

Acquire(b, h) ==
    /\ ledger[b] = "forking"
    /\ held' = [held EXCEPT ![b] = @ \cup {h}]
    /\ UNCHANGED ledger

Settle(b) ==
    /\ ledger[b] = "forking" /\ held[b] = Half
    /\ ledger' = [ledger EXCEPT ![b] = "live"]
    /\ UNCHANGED held

Doom(b) ==
    /\ ledger[b] # "absent"
    /\ ledger' = [ledger EXCEPT ![b] = "killing"]
    /\ UNCHANGED held

Release(b, h) ==
    /\ ledger[b] \in {"forking", "killing"}
    /\ held' = [held EXCEPT ![b] = @ \ {h}]
    /\ UNCHANGED ledger

Drop(b) ==
    /\ ledger[b] \in {"forking", "killing"} /\ held[b] = {}
    /\ ledger' = [ledger EXCEPT ![b] = "absent"]
    /\ UNCHANGED held

Lose ==
    /\ held' \in [ID -> SUBSET Half]
    /\ \A b \in ID : held'[b] \subseteq held[b]
    /\ UNCHANGED ledger

LedgerNext ==
    \/ \E C \in SUBSET ID : Enter(C)
    \/ \E b \in ID : Settle(b) \/ Doom(b) \/ Drop(b)
    \/ \E b \in ID, h \in Half : Acquire(b, h) \/ Release(b, h)
    \/ Lose

LedgerSpec == LedgerInit /\ [][LedgerNext]_ledgerVars

\* Whatever is held is on the ledger.
NoOrphan == \A b \in ID : held[b] # {} => ledger[b] # "absent"
=============================================================================
