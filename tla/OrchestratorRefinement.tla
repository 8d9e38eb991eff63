----------------------- MODULE OrchestratorRefinement -----------------------
(***************************************************************************)
(* Orchestrator implements BranchLedger: the ledger is the state column of  *)
(* the registry, and a sandbox that exited by itself is still held.         *)
(***************************************************************************)
EXTENDS Orchestrator

StateOf == [b \in ID |-> branches[b].state]

HeldBy(b) == (IF b \in kv THEN {"kv"} ELSE {})
             \cup (IF sandbox[b] # "none" THEN {"sandbox"} ELSE {})

Ledger == INSTANCE BranchLedger
            WITH ledger <- StateOf, held <- [b \in ID |-> HeldBy(b)]

\* Every behaviour of the orchestrator is one of the ledger: halves come and go
\* only under a row that announces it, and rows go last.
ImplementsLedger == Ledger!LedgerSpec
=============================================================================
