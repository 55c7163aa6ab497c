-------------------------------- MODULE Replay --------------------------------
(***************************************************************************)
(* The backtest (backtest.py): bar by bar and market by market it sells    *)
(* and buys with the rules of the engine.  Every candle is a choice out of *)
(* Candles.  What an order invests (amount * entry) is kept as one number. *)
(***************************************************************************)
EXTENDS Rules, Functions

CONSTANTS
    Markets,            \* numbered in the sorted order of the timeline
    Candles,            \* candles with their snapshot
    StartEur,
    TimeStop, MinNetPct,                \* time_stop_candles, time_stop_min_net_pct
    BeTrigger, BeMarginPct,             \* breakeven_stop, enabled and binding; 0: not
    RegimeBinding,
    Correlated, MaxCluster,
    BarsPerDay,
    MaxBars             \* bound: length of the history

Modes == {"single", "portfolio", "legacy"}      \* legacy: the first row of calibrate

ASSUME ReplayAssumption ==
    /\ Markets \subseteq Nat /\ IsFiniteSet(Markets)
    /\ \A c \in Candles :
          /\ {c.low, c.price, c.high} \subseteq Nat \ {0} /\ c.atr \in Nat
          /\ c.low <= c.price /\ c.price <= c.high
    /\ StartEur \in Nat /\ TimeStop \in Nat /\ MinNetPct \in Int
    /\ BeTrigger \in Nat /\ BeMarginPct \in Nat
    /\ RegimeBinding \in BOOLEAN /\ MaxCluster \in Nat
    /\ BarsPerDay \in Nat \ {0} /\ MaxBars \in Nat

VARIABLES
    mode,
    bar, turn,          \* timestamp, and the markets that have not had their turn in it
    present, riskOn,    \* markets with a candle at it; the proxy market is not down
    gap,                \* the previous timestamp has no candle for the market
    cash, positions, lastClose, lastTrade, dailyPnl,
    wins, exitReasons,
    booked              \* history: bar of the last order, a purchase or a sale

clock   == <<mode, bar, turn, present, riskOn>>
account == <<cash, positions, lastTrade, dailyPnl, wins, exitReasons, booked>>
vars    == <<clock, gap, lastClose, account>>

Reasons  == {"stop", "target", "time", "breakeven", "trend"}
Position == [invested : Nat, fees : Nat, entry : Nat \ {0}, stop : Int, target : Nat,
             age : Nat, peak : Nat]     \* candles since the entry, their highest high
None     == [invested |-> 0, fees |-> 0, entry |-> 0, stop |-> 0, target |-> 0,
             age |-> -1, peak |-> 0]
Days     == 0..(MaxBars \div BarsPerDay)

TypeOK ==
    /\ mode \in Modes /\ bar \in 0..MaxBars
    /\ turn \subseteq Markets /\ present \subseteq Markets /\ riskOn \in BOOLEAN
    /\ gap \in [Markets -> BOOLEAN]
    /\ cash \in Nat
    /\ positions \in [Markets -> Position \cup {None}]
    /\ lastClose \in [Markets -> Nat]
    /\ lastTrade \in [Markets -> 0..MaxBars \cup {Never}]
    /\ booked \in [Markets -> 0..MaxBars \cup {Never}]
    /\ dailyPnl \in [Days -> Int]
    /\ wins \in Nat /\ exitReasons \in [Reasons -> Nat]

Init ==
    /\ mode \in Modes /\ bar = 0 /\ turn = {} /\ present = {} /\ riskOn = TRUE
    /\ gap = [m \in Markets |-> FALSE]
    /\ cash = StartEur
    /\ positions = [m \in Markets |-> None]
    /\ lastClose = [m \in Markets |-> 0]
    /\ lastTrade = [m \in Markets |-> Never] /\ booked = lastTrade
    /\ dailyPnl = [d \in Days |-> 0]
    /\ wins = 0 /\ exitReasons = [r \in Reasons |-> 0]

-------------------------------------------------------------------------------
Open == {m \in Markets : positions[m] # None}
Day  == bar \div BarsPerDay

\* leg_slippage_pct; the legacy row fills without.
Leg  == SlippagePct \div 2
Slip == IF mode = "legacy" THEN 0 ELSE Leg

\* amount * price
Worth(p, price) == (p.invested * price) \div p.entry

Values == [m \in Markets |-> IF m \in Open THEN Worth(positions[m], lastClose[m]) ELSE 0]
Equity == cash + SumFunction(Values)

(* _check_exit_at_bar; config_voor turns the stops at the close off for the legacy row. *)

\* The interval of drop_unclosed spans the gap: it takes the newest candle for open (a
\* history ends with two adjacent candles, see _interval_ms).
Elapsed(p, gapped) == IF gapped THEN p.age - 1 ELSE p.age

ExitReason(p, c, gapped) ==
    LET level == IF mode = "legacy" THEN CheckExit(c.price, p.stop, p.target)
                 ELSE IntrabarExit(c.low, c.high, p.stop, p.target)
    IN  IF level # "none" THEN level
        ELSE IF mode = "legacy" THEN IF c.trend < 0 /\ c.hot THEN "trend" ELSE "none"
        ELSE IF TimeStopHit(Elapsed(p, gapped), p.entry, c.price, TimeStop, MinNetPct) THEN "time"
        ELSE IF BreakevenHit(p.peak, p.entry, c.price, c.atr, BeTrigger, BreakevenOffset(BeMarginPct))
             THEN "breakeven"
        ELSE "none"

\* A level fills at the level, the rest (and everything in the old model) at the close.
ExitPrice(p, c, reason) ==
    IF mode = "legacy" \/ reason \notin {"stop", "target"} THEN c.price
    ELSE IF reason = "stop" THEN p.stop ELSE p.target

(* Entry limits *)

\* _can_open, on the clock of the bars
ReplayCanOpen(m) ==
    /\ m \notin Open
    /\ Cardinality(Open) < EffectiveMax(Equity)
    /\ (lastTrade[m] # Never => bar - lastTrade[m] >= Cooldown)
    /\ ~(Equity > 0 /\ dailyPnl[Day] * 100 < -(Equity * LossCapPct))

\* A position without a candle at this timestamp does not count.
ClusterBlocked(m) == Cardinality({p \in Open \cap present : {m, p} \in Correlated}) >= MaxCluster

MayEnter(m) == IF mode = "portfolio" THEN ReplayCanOpen(m) /\ ~ClusterBlocked(m) ELSE Open = {}

SpendBucket == IF mode = "portfolio" THEN Bucket ELSE cash      \* mutant: free cash forgotten
Spend == IF mode = "portfolio" THEN Least(PositionSize(Equity, cash), cash) ELSE cash

-------------------------------------------------------------------------------
(* The loop of _run *)

First(S) == CHOOSE m \in S : \A n \in S : m <= n

NextBar ==
    /\ bar < MaxBars /\ turn = {}
    /\ bar' = bar + 1 /\ turn' = Markets
    /\ present' \in (SUBSET Markets) \ {{}}
    /\ riskOn' \in IF RegimeBinding THEN BOOLEAN ELSE {TRUE}
    /\ UNCHANGED <<mode, gap, lastClose, account>>

\* The turn of market m ends.
Visit(m, gapped) ==
    /\ turn # {} /\ m = First(turn) /\ turn' = turn \ {m}
    /\ gap' = [gap EXCEPT ![m] = gapped]
    /\ UNCHANGED <<mode, bar, present, riskOn>>

\* No candle, or one of the warm-up.
NoCandle(m) ==
    /\ m \notin present /\ Visit(m, TRUE)
    /\ UNCHANGED <<lastClose, account>>

See(m, c) ==
    /\ m \in present /\ Visit(m, FALSE)
    /\ lastClose' = [lastClose EXCEPT ![m] = c.price]

\* The position with candle c counted.
Aged(m, c) == [positions[m] EXCEPT !.age = @ + 1, !.peak = Most(@, c.high)]

HoldBlind(m, c) ==                                   \* mutant: the first candle is skipped
    /\ m \in Open /\ See(m, c)
    /\ Aged(m, c).age = 1 \/ ExitReason(Aged(m, c), c, gap[m]) = "none"
    /\ positions' = [positions EXCEPT ![m] = Aged(m, c)]
    /\ UNCHANGED <<cash, lastTrade, dailyPnl, wins, exitReasons, booked>>

Hold(m, c) ==
    /\ m \in Open /\ See(m, c)
    /\ ExitReason(Aged(m, c), c, gap[m]) = "none"
    /\ positions' = [positions EXCEPT ![m] = Aged(m, c)]
    /\ UNCHANGED <<cash, lastTrade, dailyPnl, wins, exitReasons, booked>>

Proceeds(p, c, reason) ==
    LET gross == Worth(p, (ExitPrice(p, c, reason) * (100 - Slip)) \div 100)
    IN  gross - (gross * TakerPct) \div 100

ProfitGross(p, proceeds) == proceeds - p.invested    \* mutant: the fee of the entry is left out
Profit(p, proceeds) == proceeds - (p.invested + p.fees)

CloseUndated(m, reason, proceeds) ==                 \* mutant: the cooldown does not start
    LET pnl == Profit(positions[m], proceeds) IN
    /\ cash' = cash + proceeds
    /\ dailyPnl' = [dailyPnl EXCEPT ![Day] = @ + pnl]
    /\ wins' = IF pnl > 0 THEN wins + 1 ELSE wins
    /\ exitReasons' = [exitReasons EXCEPT ![reason] = @ + 1]
    /\ booked' = [booked EXCEPT ![m] = bar] /\ UNCHANGED lastTrade
    /\ positions' = [positions EXCEPT ![m] = None]

Close(m, reason, proceeds) ==
    LET pnl == Profit(positions[m], proceeds) IN
    /\ cash' = cash + proceeds
    /\ dailyPnl' = [dailyPnl EXCEPT ![Day] = @ + pnl]
    /\ wins' = IF pnl > 0 THEN wins + 1 ELSE wins
    /\ exitReasons' = [exitReasons EXCEPT ![reason] = @ + 1]
    /\ lastTrade' = [lastTrade EXCEPT ![m] = bar] /\ booked' = [booked EXCEPT ![m] = bar]
    /\ positions' = [positions EXCEPT ![m] = None]

Exit(m, c) ==
    /\ m \in Open /\ See(m, c)
    /\ LET reason == ExitReason(Aged(m, c), c, gap[m]) IN
       reason # "none" /\ Close(m, reason, Proceeds(positions[m], c, reason))

\* What is asked of a candle before the limits.
WantedAnyway(c) == c.atr > 0 /\ riskOn /\ Signals(c) \* mutant: no fee gate
Wanted(c) == c.atr > 0 /\ riskOn /\ Signals(c) /\ ~TooNear(c.price, c.atr)

\* The equity of the limits has the close of this candle only for open positions: none.
Enter(m, c) ==
    /\ m \notin Open /\ See(m, c)
    /\ Wanted(c) /\ MayEnter(m) /\ Spend >= MinOrder
    /\ LET fill == (c.price * (100 + Slip)) \div 100
           fee  == (Spend * TakerPct) \div 100
       IN  positions' = [positions EXCEPT ![m] =
               [invested |-> Spend - fee, fees |-> fee, entry |-> fill,
                stop |-> fill - StopDistance(c.atr), target |-> fill + TargetDistance(c.atr),
                age |-> 0, peak |-> 0]]
    /\ cash' = cash - Spend
    /\ booked' = [booked EXCEPT ![m] = bar]
    /\ UNCHANGED <<lastTrade, dailyPnl, wins, exitReasons>>

Pass(m, c) ==
    /\ m \notin Open /\ See(m, c)
    /\ ~(Wanted(c) /\ MayEnter(m) /\ Spend >= MinOrder)
    /\ UNCHANGED account

Next ==
    \/ NextBar
    \/ \E m \in Markets : NoCandle(m)
    \/ \E m \in Markets, c \in Candles : Hold(m, c) \/ Exit(m, c) \/ Enter(m, c) \/ Pass(m, c)

Spec == Init /\ [][Next]_vars

-------------------------------------------------------------------------------
\* What every market costs; None costs nothing.
Costs == [m \in Markets |-> positions[m].invested + positions[m].fees]

\* Every euro is accounted for: cash and what the open positions cost are the start
\* capital and the results of all days, the one the daily loss cap looks at among them.
BooksBalance == cash + SumFunction(Costs) = StartEur + SumFunction(dailyPnl)

\* What the fee gate is for: a target that was let in pays for its costs. And what the stops at
\* the close come to: the time stop (timestop.py says so of the win rate) and the breakeven stop
\* wait for a price around the costs, or below it, and are counted as losses. For the breakeven
\* stop that is not what strategy.py:269 promises ("mag geen verlies worden"): it fires at
\* whatever price a bar closes on or below its level (README, section 5).
WinsAreTargets == mode # "legacy" => wins = exitReasons["target"]

\* When WinsAreTargets holds, as a condition on the settings.  Amounts and prices are whole
\* numbers here: n units with this margin each outweigh what is rounded away.
Covers(n, margin, rounding) == margin > 0 /\ rounding \div margin < n

\* Of 100 * 100 * 100 * 100 parts spent, this is lost between a purchase with fee t and a
\* sale at w per cent of its price, of which slippage leaves v per cent, with fee t again.
LossMargin(t, v, w)    == 100000000 - (100 - t) * ((100 - t) * (v * w))
LossRounding(t, v, w)  == 99 * ((100 - t) * (v * w))

\* And this is gained when the fill, h per cent of the price, is e per cent of the price
\* below the sale.
GainMargin(t, v, h, e) == ((100 - t) * (100 - t)) * ((h + e) * v) - 1000000 * h
PriceRounding(t, h)    == 198 * (((100 - t) * (100 - t)) * h)
AmountRounding(t, h)   == 20000 * ((100 - t) * h)

Loses(pct) ==
    LET w == 100 + RoundTrip + pct
    IN  Covers(MinOrder, LossMargin(TakerPct, 100 - Leg, w), LossRounding(TakerPct, 100 - Leg, w))

\* Fees and slippage of a round trip are more than the exits near the entry wait for, and
\* min_edge_pct is more than fees and slippage.
MarginsPay ==
    LET margin == GainMargin(TakerPct, 100 - Leg, 100 + Leg, MinEdge) IN
    /\ TimeStop > 0 => Loses(MinNetPct)
    /\ BeTrigger > 0 => Loses(BeMarginPct)
    /\ Covers(MinOrder, margin, AmountRounding(TakerPct, 100 + Leg))
    /\ \A c \in Candles : Covers(c.price, margin, PriceRounding(TakerPct, 100 + Leg))

\* Backtest and guard agree on what is still open: a position that came through a bar
\* after its entry is one that check_exit would keep at the close of that bar.
SurvivorsAreInside ==
    \A m \in Open : positions[m].age > 0 =>
        CheckExit(lastClose[m], positions[m].stop, positions[m].target) = "none"

\* The copy of RiskManager.can_open in the backtest, which dates a market by its last
\* exit, answers what the engine would, which dates it by its last trade of either side.
SameRiskGate ==
    mode = "portfolio" => \A m \in Markets :
        ReplayCanOpen(m) <=> CanOpen(m, Open, booked[m], bar, Equity, dailyPnl[Day])

\* A second position and those after it are only opened on capital that fills as many
\* buckets: a loss gives the slots it cost back.
SlotsFollowCapital ==
    [][mode = "portfolio" /\ Bucket > 0 /\ Open' \ Open # {} =>
          Cardinality(Open') = 1 \/ Cardinality(Open') * Bucket <= Equity]_vars
===============================================================================
