----------------------- MODULE MCFirecrackerSnapshots -----------------------
(***************************************************************************)
(* Instances of FirecrackerSnapshots for TLC.                               *)
(***************************************************************************)
EXTENDS FirecrackerSnapshots, TLC

Symmetry == Permutations(ID)
=============================================================================
