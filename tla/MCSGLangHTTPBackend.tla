------------------------ MODULE MCSGLangHTTPBackend ------------------------
(***************************************************************************)
(* Instances of SGLangHTTPBackend for TLC.                                  *)
(***************************************************************************)
EXTENDS SGLangHTTPBackend, TLC

Symmetry == Permutations(Branch) \cup Permutations(Thread)
=============================================================================
