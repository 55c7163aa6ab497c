--------------------------- MODULE MCTradingCycle ----------------------------
(* TradingCycle for TLC: markets 1 and 2 move together. *)
EXTENDS TradingCycle

Two    == 1..2
Three  == 1..3
Pairs  == {{1, 2}}
None   == {}
Second == {2}
==============================================================================
