---------------------------- MODULE MCMeasurement -----------------------------
(* Measurement for TLC: one candidate that passes every check, one that ran away from   *)
(* its signal, and one whose ATR is too small for its costs.                             *)
EXTENDS Measurement

SmallSettings == 0..2

SmallCandidates ==
    {[signal |-> TRUE, closed |-> TRUE, close |-> 1000, atr |-> 25],
     [signal |-> TRUE, closed |-> TRUE, close |-> 1060, atr |-> 25],
     [signal |-> TRUE, closed |-> TRUE, close |-> 1060, atr |-> 5]}
SmallPrices == {1060}
SmallCash   == {1000}
SmallPnl    == {0, -200}

\* Nothing binds; a parameter of 0 turns its gate off.
Shadow == [core |-> 0, binding |-> [g \in AllGates |-> FALSE],
           param |-> [g \in AllGates |-> IF g = "regime" THEN 0 ELSE 1], judge |-> 0]
Strict == [Shadow EXCEPT !.binding["veto"] = TRUE, !.param["regime"] = 1, !.param["chase"] = 0,
                         !.param["breakeven"] = 0]
SmallConfigs ==
    {Shadow, Strict, [Strict EXCEPT !.judge = 1],
     [Shadow EXCEPT !.binding["timestop"] = TRUE, !.param["veto"] = 0]}
===============================================================================
