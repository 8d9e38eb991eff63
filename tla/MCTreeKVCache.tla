--------------------------- MODULE MCTreeKVCache ----------------------------
(***************************************************************************)
(* Instances of TreeKVCache for TLC.                                        *)
(***************************************************************************)
EXTENDS TreeKVCache

Symmetry == Permutations(ID) \cup Permutations(Token)
=============================================================================
