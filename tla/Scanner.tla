-------------------------------- MODULE Scanner -------------------------------
(***************************************************************************)
(* The market scan and the choice of the auto-fill (scanner.py,            *)
(* engine.py).  A ticker has a market, a volume in euros, a spread, and    *)
(* the score and the expected move that its candles would give.            *)
(***************************************************************************)
EXTENDS Integers, FiniteSets

CONSTANTS MinVolume, MaxSpread, ScoreNeeded,
          CostsAndProfit,       \* round trip plus min_profit_pct
          CandleTop

\* liquidity_filter; a crossed or empty book has spread 0.
Liquid(t) == t.volume >= MinVolume /\ t.spread > 0 /\ t.spread <= MaxSpread

\* scan: the largest liquid markets, of those the ones with enough candles. A market whose candles
\* cannot be had is skipped like one with too few.
Scanned(tickers, barred) ==
    LET candidates == {t \in tickers : Liquid(t) /\ t.market \notin barred}
    IN  {t \in candidates : /\ t.old
                            /\ Cardinality({u \in candidates : u.volume > t.volume}) < CandleTop}

Required(t) == CostsAndProfit + t.spread
Better(t, u) == \/ t.score > u.score
                \/ t.score = u.score /\ t.move - Required(t) >= u.move - Required(u)

\* select_auto_fill: the best want rows that are tradeable and not excluded; equal rows in
\* either order.
AutoFills(rows, exclude, want) ==
    LET fit == {t \in rows : /\ t.move >= Required(t) /\ t.score >= ScoreNeeded
                             /\ t.market \notin exclude}
        n   == IF Cardinality(fit) < want THEN Cardinality(fit) ELSE want
    IN  {picks \in SUBSET fit : /\ Cardinality(picks) = n
                                /\ \A t \in picks, u \in fit \ picks : Better(t, u)}
===============================================================================
