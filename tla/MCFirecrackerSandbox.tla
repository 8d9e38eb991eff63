------------------------ MODULE MCFirecrackerSandbox ------------------------
(***************************************************************************)
(* Instances of FirecrackerSandbox for TLC.                                 *)
(***************************************************************************)
EXTENDS FirecrackerSandbox, TLC

Symmetry == Permutations(ID)
=============================================================================
