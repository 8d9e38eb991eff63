--------------------------- MODULE MCOrchestrator ---------------------------
(***************************************************************************)
(* Instances of Orchestrator for TLC: branch ids are interchangeable model  *)
(* values.                                                                  *)
(***************************************************************************)
EXTENDS OrchestratorRefinement, TLC

Symmetry == Permutations(ID)
=============================================================================
