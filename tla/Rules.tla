-------------------------------- MODULE Rules ---------------------------------
(***************************************************************************)
(* The rules of strategy.py and decision.py that engine, position guard    *)
(* and backtest share.  Prices and euros are integers, percentages whole   *)
(* numbers; a comparison of fractions is multiplied out.                   *)
(***************************************************************************)
EXTENDS Integers, FiniteSets

CONSTANTS
    MakerPct, TakerPct, SlippagePct,    \* FeeModel
    EntryIsMaker,
    StopMult, Reward,                   \* atr_stop_multiplier, reward_risk_ratio
    MinProfitPct, MaxWinRatePct,        \* min_profit_pct, max_breakeven_win_rate
    MinScore,                           \* min_signal_score
    Bucket,                             \* bucket_eur; 0: sizing = "percent"
    PositionPct, MaxPositions,          \* max_position_pct, max_open_positions
    Cooldown, LossCapPct,               \* cooldown_hours_after_trade, daily_loss_cap_pct
    MinOrder,                           \* "below 10 fees dominate"
    Never                               \* last_trade_at = None

ASSUME FeeAssumption ==
    /\ MakerPct \in Nat /\ TakerPct \in Nat /\ SlippagePct \in Nat
    /\ TakerPct <= 100 /\ SlippagePct <= 100
    /\ EntryIsMaker \in BOOLEAN
ASSUME DecisionAssumption ==
    /\ StopMult \in Nat \ {0} /\ Reward \in Nat \ {0}
    /\ MinProfitPct \in Nat /\ MaxWinRatePct \in Nat /\ MinScore \in Nat
ASSUME RiskAssumption ==
    /\ Bucket \in Nat /\ PositionPct \in 0..100 /\ MaxPositions \in Nat
    /\ Cooldown \in Nat /\ LossCapPct \in Nat /\ MinOrder \in Nat /\ Never \notin Nat

Least(a, b) == IF a < b THEN a ELSE b
Most(a, b)  == IF a < b THEN b ELSE a

-------------------------------------------------------------------------------
(* Costs *)

RoundTrip == (IF EntryIsMaker THEN MakerPct ELSE TakerPct) + TakerPct
MinEdge   == RoundTrip + SlippagePct + MinProfitPct

StopDistance(atr)   == atr * StopMult
TargetDistance(atr) == StopDistance(atr) * Reward

\* The target is nearer than costs and profit: the additive gate.
TooNear(price, atr) == TargetDistance(atr) * 100 < MinEdge * price

\* breakeven_win_rate > max_breakeven_win_rate, with
\* p = (stop + costs) / (stop * (1 + reward)) and stop and costs in per cent of the price.
NeedsTooMuch(price, atr) ==
    LET stop == StopDistance(atr) * 100
        cost == (RoundTrip + SlippagePct) * price
    IN  atr > 0 /\ MaxWinRatePct > 0 /\ (stop + cost) * 100 > MaxWinRatePct * stop * (1 + Reward)

-------------------------------------------------------------------------------
(* Signals: a snapshot has the order of the EMAs (-1, 0, 1), the RSI in its zone, two   *)
(* MACD histograms, the lower band in reach, the price and the ATR.                     *)

Score(snap) ==
    (IF snap.trend > 0 THEN 1 ELSE 0) + (IF snap.zone THEN 1 ELSE 0)
    + (IF snap.hist > 0 /\ snap.prev <= 0 THEN 2 ELSE IF snap.hist > snap.prev /\ snap.prev > 0 THEN 1 ELSE 0)
    + (IF snap.band THEN 1 ELSE 0)

Signals(snap) == Score(snap) >= MinScore

ChaseTooFar(signal, live, atr, maxChase) ==
    /\ maxChase > 0 /\ atr > 0 /\ signal > 0
    /\ Most(live - signal, signal - live) > maxChase * atr

-------------------------------------------------------------------------------
(* Exits *)

\* check_exit: "stop", "target" or "none".
CheckExit(price, stop, target) ==
    IF price <= stop THEN "stop" ELSE IF price >= target THEN "target" ELSE "none"

\* A candle that touches both counts as the stop.
IntrabarExit(low, high, stop, target) ==
    IF low <= stop THEN "stop" ELSE IF high >= target THEN "target" ELSE "none"

\* A position that stood still for n closed candles.
TimeStopHit(elapsed, entry, price, n, minNetPct) ==
    /\ n > 0 /\ entry > 0 /\ elapsed >= n
    /\ (price - entry) * 100 <= (RoundTrip + minNetPct) * entry

\* A profit of trigger * ATR is gone; peak is the highest high after the entry, 0 for none.
BreakevenHit(peak, entry, price, atr, trigger, offsetPct) ==
    /\ entry > 0 /\ atr > 0 /\ trigger > 0
    /\ peak > 0 /\ peak >= entry + trigger * atr
    /\ price * 100 <= entry * (100 + offsetPct)

BreakevenOffset(marginPct) == RoundTrip + marginPct

-------------------------------------------------------------------------------
(* RiskManager *)

EffectiveMaxOneMore(portfolio) ==                    \* mutant: one slot more than buckets
    IF Bucket = 0 THEN MaxPositions ELSE Most(1, Least(MaxPositions, portfolio \div Bucket + 1))

EffectiveMax(portfolio) ==
    IF Bucket = 0 THEN MaxPositions ELSE Most(1, Least(MaxPositions, portfolio \div Bucket))

PositionSize(portfolio, free) ==
    Least(IF Bucket = 0 THEN (portfolio * PositionPct) \div 100 ELSE Bucket, free)

\* open are the markets with a position; times count in the unit of Cooldown.
CanOpen(m, open, lastTrade, now, portfolio, dailyPnl) ==
    /\ m \notin open
    /\ Cardinality(open) < EffectiveMax(portfolio)
    /\ (lastTrade # Never => now - lastTrade >= Cooldown)
    /\ ~(portfolio > 0 /\ dailyPnl * 100 < -(portfolio * LossCapPct))
===============================================================================
