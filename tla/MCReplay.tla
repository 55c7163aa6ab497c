------------------------------- MODULE MCReplay -------------------------------
(* Replay for TLC: two markets that move together, prices around a stop of 970 and a     *)
(* target of 1120 for a fill at 1020.  Amounts are tenths of a euro.                     *)
EXTENDS Replay

Two == 1..2
Both == {{1, 2}}

Prices == {900, 1000, 1060, 1150}

Quiet == [trend |-> 0, zone |-> FALSE, hist |-> 0, prev |-> 0, band |-> FALSE, hot |-> FALSE]
Flip  == [Quiet EXCEPT !.trend = 1, !.hist = 1]
Tired == [Quiet EXCEPT !.trend = -1, !.hot = TRUE]

Candle(low, price, high, atr, s) ==
    [low |-> low, price |-> price, high |-> high, atr |-> atr, trend |-> s.trend, zone |-> s.zone,
     hist |-> s.hist, prev |-> s.prev, band |-> s.band, hot |-> s.hot]

SmallCandles ==
    {Candle(1000, 1000, 1000, 25, Flip), Candle(1000, 1000, 1000, 5, Flip),
     Candle(1000, 1060, 1060, 25, Quiet), Candle(1000, 1000, 1060, 25, Quiet),
     Candle(900, 1000, 1000, 25, Quiet), Candle(1000, 1150, 1150, 25, Tired),
     Candle(900, 900, 1150, 25, Flip), Candle(1060, 1060, 1060, 25, Tired)}

\* The settings of the run are such that only targets win.
ASSUME MarginsPay
===============================================================================
