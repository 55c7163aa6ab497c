---------------------------- MODULE MCPaperBroker ----------------------------
(* PaperBroker for TLC: two markets, whose names do not matter. *)
EXTENDS PaperBroker, TLC

SmallDrifts == {-1, 1}
Symmetry == Permutations(Markets)
==============================================================================
