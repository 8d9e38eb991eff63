----------------------------- MODULE MCTreeAgent -----------------------------
(***************************************************************************)
(* Instances of TreeAgent for TLC.  The first caller runs two rounds, the   *)
(* second one.  A list may extend the context, a winner's continuation, or  *)
(* neither: one text equals a winner's prefix, and one is longer than the   *)
(* context but does not begin with it.  One list is empty.                  *)
(***************************************************************************)
EXTENDS TreeAgent, TLC

MCContexts  == {<<1>>}
MCRounds    == << { <<<<1, 2>>, <<1, 2, 3>>>>, <<<<1, 2, 3>>>> }, { <<<<1, 2>>>>, <<<<2, 2>>>>, <<>> } >>
MCDepth     == <<2, 1>>
MCMaxRounds == <<2, 1>>

=============================================================================
