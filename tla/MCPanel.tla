------------------------------- MODULE MCPanel --------------------------------
(* Panel for TLC: two trading markets, of which D is barred, B on the watchlist and C that  *)
(* only the scan finds; no room for a third trading market.                               *)
EXTENDS Panel

SmallConfigured == [l \in ListNames |-> IF l = "markets" THEN {"A", "D"} ELSE {"B"}]
SmallCap        == [l \in ListNames |-> 2]
OneEach         == [p \in Providers |-> 1]

Ticker(name, volume, score) ==
    [market |-> name, volume |-> volume, spread |-> 1, old |-> TRUE, score |-> score, move |-> 5]
SmallTickers == {Ticker("A", 9, 4), Ticker("B", 8, 3), Ticker("C", 7, 4), Ticker("D", 9, 4)}
===============================================================================
