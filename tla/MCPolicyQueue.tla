--------------------------- MODULE MCPolicyQueue ----------------------------
(***************************************************************************)
(* PolicyQueue for TLC with two kinds of request: a short interactive one, *)
(* whose budget is soon spent, and a long batch one.                       *)
(***************************************************************************)
EXTENDS PolicyQueue, TLC

CONSTANTS short, long

MCKinds == {short, long}
MCClass == short :> "interactive" @@ long :> "batch"
MCBudget == short :> 4 @@ long :> 4
MCService == short :> 1 @@ long :> 4
=============================================================================
