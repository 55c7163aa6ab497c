---------------------------- MODULE ReplayProofs ------------------------------
(***************************************************************************)
(* What the replay keeps for every history of candles, every number of     *)
(* markets and every setting: no position survives a bar that the guard    *)
(* would not let it survive, the copy of the entry limits answers what the *)
(* engine would, every euro is accounted for, slots follow the capital     *)
(* and, with settings whose margins pay, only targets win.                 *)
(***************************************************************************)
EXTENDS Replay, SumTheorems, TLAPS

\* What a position is compared with.
Levels == [Markets -> Int]

\* The levels of an open position are numbers and its last close is between them.
LevelInv ==
    /\ mode \in Modes
    /\ DOMAIN positions = Markets
    /\ lastClose \in Levels
    /\ \A m \in Open : /\ positions[m].stop \in Int /\ positions[m].target \in Int
                       /\ positions[m].age \in Nat
    /\ SurvivorsAreInside

\* The engine sees both sides of a market, the replay only sales; they differ while a
\* position is open, and then both refuse.
DateInv ==
    /\ DOMAIN lastTrade = Markets /\ DOMAIN booked = Markets
    /\ \A m \in Markets : m \notin Open => lastTrade[m] = booked[m]

LEMMA CandleNumbers ==
  ASSUME NEW c \in Candles
  PROVE  c.low \in Int /\ c.price \in Int /\ c.high \in Int /\ c.atr \in Int
         /\ c.low <= c.price /\ c.price <= c.high
  BY ReplayAssumption

\* A position without a reason to end is inside its levels at the close, whichever of the
\* two ways of looking the mode has.
LEMMA NoReasonMeansInside ==
  ASSUME NEW c \in Candles, NEW p, NEW gapped, p.stop \in Int, p.target \in Int,
         ExitReason(p, c, gapped) = "none"
  PROVE  CheckExit(c.price, p.stop, p.target) = "none"
  <1>. DEFINE level == IF mode = "legacy" THEN CheckExit(c.price, p.stop, p.target)
                       ELSE IntrabarExit(c.low, c.high, p.stop, p.target)
  <1>1. level = "none"
    BY DEF ExitReason
  <1>2. CASE mode = "legacy"
    BY <1>1, <1>2
  <1>3. CASE mode # "legacy"
    <2>1. IntrabarExit(c.low, c.high, p.stop, p.target) = "none"
      BY <1>1, <1>3
    <2>2. ~(c.low <= p.stop) /\ ~(c.high >= p.target)
      BY <2>1 DEF IntrabarExit
    <2>3. ~(c.price <= p.stop) /\ ~(c.price >= p.target)
      BY <2>2, CandleNumbers
    <2>. QED BY <2>3 DEF CheckExit
  <1>. QED BY <1>2, <1>3

\* The levels of a purchase are numbers.
LEMMA FillNumbers ==
  ASSUME NEW c \in Candles
  PROVE  LET fill == (c.price * (100 + Slip)) \div 100
         IN  fill - StopDistance(c.atr) \in Int /\ fill + TargetDistance(c.atr) \in Int
  <1>1. Slip \in Int
    BY FeeAssumption DEF Slip, Leg
  <1>2. (c.price * (100 + Slip)) \div 100 \in Int
    <2>1. c.price * (100 + Slip) \in Int
      BY <1>1, CandleNumbers
    <2>. QED BY <2>1
  <1>3. StopDistance(c.atr) \in Int /\ TargetDistance(c.atr) \in Int
    BY CandleNumbers, DecisionAssumption DEF StopDistance, TargetDistance
  <1>. QED BY <1>2, <1>3

LEMMA LevelHold ==
  ASSUME LevelInv, NEW m \in Markets, NEW c \in Candles, Hold(m, c)
  PROVE  LevelInv'
  <1>. DEFINE p == Aged(m, c)
  <1>1. /\ p.stop = positions[m].stop /\ p.target = positions[m].target
        /\ p.age \in Nat
    BY DEF Aged, Hold, LevelInv
  <1>2. CheckExit(c.price, p.stop, p.target) = "none"
    BY <1>1, NoReasonMeansInside DEF Hold, LevelInv
  <1>3. /\ positions' = [positions EXCEPT ![m] = p]
        /\ lastClose' = [lastClose EXCEPT ![m] = c.price] /\ mode' = mode
    BY DEF Hold, See, Visit
  <1>4. Open' \subseteq Open
    BY <1>3 DEF Hold, Open, LevelInv
  <1>. HIDE DEF p
  <1>5. /\ DOMAIN positions' = Markets /\ lastClose' \in Levels
        /\ \A n \in Open' : /\ positions'[n].stop \in Int /\ positions'[n].target \in Int
                            /\ positions'[n].age \in Nat
    BY <1>1, <1>3, <1>4, CandleNumbers DEF LevelInv, Levels, Open
  <1>6. SurvivorsAreInside'
    BY <1>2, <1>3, <1>4 DEF SurvivorsAreInside, LevelInv, Levels, Open
  <1>. QED BY <1>3, <1>5, <1>6 DEF LevelInv

LEMMA LevelExit ==
  ASSUME LevelInv, NEW m \in Markets, NEW c \in Candles, Exit(m, c)
  PROVE  LevelInv'
  <1>1. /\ positions' = [positions EXCEPT ![m] = None]
        /\ lastClose' = [lastClose EXCEPT ![m] = c.price] /\ mode' = mode
    BY DEF Exit, Close, See, Visit
  <1>2. Open' = Open \ {m}
    BY <1>1 DEF Open, LevelInv
  <1>. QED BY <1>1, <1>2, CandleNumbers DEF LevelInv, Levels, SurvivorsAreInside, Open

\* What a purchase leaves.
Bought(c) ==
    LET fill == (c.price * (100 + Slip)) \div 100
        fee  == (Spend * TakerPct) \div 100
    IN  [invested |-> Spend - fee, fees |-> fee, entry |-> fill,
         stop |-> fill - StopDistance(c.atr), target |-> fill + TargetDistance(c.atr),
         age |-> 0, peak |-> 0]

LEMMA LevelEnter ==
  ASSUME LevelInv, NEW m \in Markets, NEW c \in Candles, Enter(m, c)
  PROVE  LevelInv'
  <1>. DEFINE p == Bought(c)
  <1>1. /\ positions' = [positions EXCEPT ![m] = p]
        /\ p.stop \in Int /\ p.target \in Int /\ p.age = 0
    BY FillNumbers DEF Enter, Bought
  <1>. HIDE DEF p
  <1>2. lastClose' = [lastClose EXCEPT ![m] = c.price] /\ mode' = mode
    BY DEF Enter, See, Visit
  <1>3. Open' \subseteq Open \cup {m}
    BY <1>1 DEF Open, LevelInv
  <1>4. /\ DOMAIN positions' = Markets /\ lastClose' \in Levels
        /\ \A n \in Open' : /\ positions'[n].stop \in Int /\ positions'[n].target \in Int
                            /\ positions'[n].age \in Nat
    BY <1>1, <1>2, <1>3, CandleNumbers DEF LevelInv, Levels, Open
  <1>5. SurvivorsAreInside'
    BY <1>1, <1>2, <1>3 DEF SurvivorsAreInside, LevelInv, Levels, Open
  <1>. QED BY <1>2, <1>4, <1>5 DEF LevelInv

\* A market without a position only gets a new close.
LEMMA LevelPass ==
  ASSUME LevelInv, NEW m \in Markets, NEW c \in Candles, Pass(m, c)
  PROVE  LevelInv'
  BY CandleNumbers DEF LevelInv, Levels, Pass, account, See, Visit, SurvivorsAreInside, Open

LEMMA LevelInit == Init => LevelInv
  BY DEF Init, LevelInv, Levels, Open, SurvivorsAreInside

LEMMA LevelStep ==
  ASSUME LevelInv, [Next]_vars
  PROVE  LevelInv'
  <1>1. CASE NextBar
    BY <1>1 DEF NextBar, account, LevelInv, Levels, SurvivorsAreInside, Open
  <1>2. ASSUME NEW m \in Markets, NoCandle(m) PROVE LevelInv'
    BY <1>2 DEF NoCandle, Visit, account, LevelInv, Levels, SurvivorsAreInside, Open
  <1>3. ASSUME NEW m \in Markets, NEW c \in Candles, Hold(m, c) PROVE LevelInv'
    BY <1>3, LevelHold
  <1>4. ASSUME NEW m \in Markets, NEW c \in Candles, Exit(m, c) PROVE LevelInv'
    BY <1>4, LevelExit
  <1>5. ASSUME NEW m \in Markets, NEW c \in Candles, Enter(m, c) PROVE LevelInv'
    BY <1>5, LevelEnter
  <1>6. ASSUME NEW m \in Markets, NEW c \in Candles, Pass(m, c) PROVE LevelInv'
    BY <1>6, LevelPass
  <1>7. CASE UNCHANGED vars
    BY <1>7 DEF vars, clock, account, LevelInv, Levels, SurvivorsAreInside, Open
  <1>. QED BY <1>1, <1>2, <1>3, <1>4, <1>5, <1>6, <1>7 DEF Next

\* Backtest and guard agree on what is still open, whatever the candles: a position that
\* came through a bar is one that check_exit keeps at the close of that bar.
THEOREM SurvivorsCorrect == Spec => []SurvivorsAreInside
  <1>1. LevelInv => SurvivorsAreInside
    BY DEF LevelInv
  <1>. QED BY <1>1, LevelInit, LevelStep, PTL DEF Spec

-------------------------------------------------------------------------------
(* The entry limits *)

LEMMA DateInit == Init => DateInv
  BY DEF Init, DateInv, Open

LEMMA DateStep ==
  ASSUME LevelInv, DateInv, [Next]_vars
  PROVE  DateInv'
  <1>1. CASE NextBar
    BY <1>1 DEF NextBar, account, DateInv, Open
  <1>2. ASSUME NEW m \in Markets, NoCandle(m) PROVE DateInv'
    BY <1>2 DEF NoCandle, account, DateInv, Open
  <1>3. ASSUME NEW m \in Markets, NEW c \in Candles, Hold(m, c) PROVE DateInv'
    <2>1. \A n \in Markets : n # m => (n \in Open' <=> n \in Open)
      BY <1>3 DEF Hold, LevelInv, Open
    <2>2. lastTrade' = lastTrade /\ booked' = booked
      BY <1>3 DEF Hold
    <2>3. m \in Open'
      <3>1. Aged(m, c).age \in Nat /\ None.age = -1
        BY <1>3 DEF Aged, Hold, LevelInv, None
      <3>. QED BY <1>3, <3>1 DEF Hold, LevelInv, Open
    <2>. QED BY <1>3, <2>1, <2>2, <2>3 DEF DateInv, Hold
  <1>4. ASSUME NEW m \in Markets, NEW c \in Candles, Exit(m, c) PROVE DateInv'
    <2>1. /\ positions' = [positions EXCEPT ![m] = None]
          /\ lastTrade' = [lastTrade EXCEPT ![m] = bar]
          /\ booked' = [booked EXCEPT ![m] = bar]
      BY <1>4 DEF Exit, Close
    <2>. QED BY <2>1 DEF DateInv, LevelInv, Open
  <1>5. ASSUME NEW m \in Markets, NEW c \in Candles, Enter(m, c) PROVE DateInv'
    <2>. DEFINE p == Bought(c)
    <2>1. positions' = [positions EXCEPT ![m] = p] /\ p.age = 0
      BY <1>5 DEF Enter, Bought
    <2>. HIDE DEF p
    <2>2. p # None
      BY <2>1 DEF None
    <2>3. Open' = Open \cup {m} /\ lastTrade' = lastTrade /\ booked' = [booked EXCEPT ![m] = bar]
      BY <1>5, <2>1, <2>2 DEF Enter, LevelInv, Open
    <2>. QED BY <2>3 DEF DateInv
  <1>6. ASSUME NEW m \in Markets, NEW c \in Candles, Pass(m, c) PROVE DateInv'
    BY <1>6 DEF Pass, account, DateInv, Open
  <1>7. CASE UNCHANGED vars
    BY <1>7 DEF vars, account, DateInv, Open
  <1>. QED BY <1>1, <1>2, <1>3, <1>4, <1>5, <1>6, <1>7 DEF Next

\* The entry limits of the replay and RiskManager.can_open give the same answer for every
\* market at every moment, although they date the last trade differently.
THEOREM LimitsAgree == Spec => []SameRiskGate
  <1>1. DateInv => SameRiskGate
    BY DEF DateInv, SameRiskGate, ReplayCanOpen, CanOpen
  <1>. QED BY <1>1, LevelInit, LevelStep, DateInit, DateStep, PTL DEF Spec

-------------------------------------------------------------------------------
(* Types: no euro and no price below zero *)

\* A percentage of an amount is a part of it.
LEMMA PartOf ==
  ASSUME NEW x \in Nat, NEW p \in 0..100
  PROVE  (x * p) \div 100 \in 0..x
  <1>1. x * p \in Nat /\ x * (100 - p) >= 0 /\ x * (100 - p) = x * 100 - x * p
    OBVIOUS
  <1>. DEFINE y == x * p
  <1>2. y \in Nat /\ y <= x * 100
    BY <1>1
  <1>. HIDE DEF y
  <1>3. y \div 100 \in 0..x
    BY <1>2
  <1>. QED BY <1>3 DEF y

LEMMA Quotient ==
  ASSUME NEW a \in Nat, NEW n \in Nat \ {0}
  PROVE  a \div n \in Nat /\ (a \div n) * n <= a
  OBVIOUS

LEMMA QuotientMonotone ==
  ASSUME NEW a \in Nat, NEW b \in Nat, a <= b, NEW n \in Nat \ {0}
  PROVE  a \div n <= b \div n
  <1>. DEFINE q == a \div n
              r == b \div n
  <1>1. q \in Nat /\ n * q <= a
    OBVIOUS
  <1>4. r \in Nat /\ b < n * r + n
    OBVIOUS
  <1>. HIDE DEF q, r
  <1>2. ASSUME q > r PROVE FALSE
    <2>1. n * (q - (r + 1)) >= 0
      BY <1>1, <1>4, <1>2
    <2>2. n * (q - (r + 1)) = n * q - (n * r + n)
      BY <1>1, <1>4
    <2>3. n * q \in Nat /\ n * r \in Nat
      BY <1>1, <1>4
    <2>. QED BY <1>1, <1>4, <2>1, <2>2, <2>3
  <1>3. q <= r
    BY <1>1, <1>4, <1>2
  <1>. QED BY <1>3 DEF q, r

LEMMA DayInDays == ASSUME TypeOK PROVE Day \in Days
  <1>1. bar \in Nat /\ bar <= MaxBars /\ MaxBars \in Nat /\ BarsPerDay \in Nat \ {0}
    BY ReplayAssumption DEF TypeOK
  <1>. QED BY <1>1, Quotient, QuotientMonotone DEF Day, Days

LEMMA OpenPosition ==
  ASSUME TypeOK, NEW m \in Open
  PROVE  m \in Markets /\ positions[m] \in Position
  BY DEF TypeOK, Open

LEMMA SlipRange == Slip \in 0..50
  BY FeeAssumption DEF Slip, Leg

\* What a position is worth is a number of euros.
LEMMA WorthNat ==
  ASSUME NEW p \in Position, NEW price \in Nat
  PROVE  Worth(p, price) \in Nat
  <1>1. p.invested * price \in Nat /\ p.entry \in Nat \ {0}
    BY DEF Position
  <1>. QED BY <1>1, Quotient DEF Worth

LEMMA SumNat ==
  ASSUME NEW S, IsFiniteSet(S), NEW f \in [S -> Nat]
  PROVE  SumFunction(f) \in Nat
  <1>. DEFINE zero == [x \in S |-> 0]
  <1>1. zero \in [S -> Int] /\ \A x \in S : zero[x] = 0
    OBVIOUS
  <1>. HIDE DEF zero
  <1>2. f \in [S -> Int] /\ \A x \in S : zero[x] <= f[x]
    BY <1>1
  <1>3. SumFunction(zero) = Cardinality(S) * 0
    BY <1>1, SumConstant
  <1>4. SumFunction(zero) <= SumFunction(f)
    BY <1>1, <1>2, SumMonotone
  <1>5. SumFunction(f) \in Int /\ Cardinality(S) \in Nat
    BY <1>2, SumType, FS_CardinalityType
  <1>. QED BY <1>3, <1>4, <1>5

LEMMA EquityNat == ASSUME TypeOK PROVE Equity \in Nat
  <1>1. Values \in [Markets -> Nat]
    <2>1. \A m \in Open : Worth(positions[m], lastClose[m]) \in Nat
      BY OpenPosition, WorthNat DEF TypeOK
    <2>. QED BY <2>1 DEF Values
  <1>2. SumFunction(Values) \in Nat
    BY <1>1, ReplayAssumption, SumNat
  <1>. QED BY <1>2 DEF Equity, TypeOK

\* An order never spends more than there is.
LEMMA SpendRange == ASSUME TypeOK PROVE Spend \in 0..cash
  <1>1. cash \in Nat /\ Equity \in Nat
    BY EquityNat DEF TypeOK
  <1>2. (Equity * PositionPct) \div 100 \in Nat
    BY <1>1, PartOf, RiskAssumption
  <1>3. Bucket \in Nat
    BY RiskAssumption
  <1>4. PositionSize(Equity, cash) \in 0..cash
    BY <1>1, <1>2, <1>3 DEF PositionSize, Least
  <1>. QED BY <1>1, <1>4 DEF Spend, Least

\* A sale never costs more than it yields; a stop fills only when the candle reached
\* it, so at a price above zero.
LEMMA ProceedsNat ==
  ASSUME NEW p \in Position, NEW c \in Candles, NEW aged, NEW gapped,
         aged.stop = p.stop, aged.target = p.target, ExitReason(aged, c, gapped) # "none"
  PROVE  Proceeds(p, c, ExitReason(aged, c, gapped)) \in Nat
  <1>. DEFINE reason == ExitReason(aged, c, gapped)
  <1>1. c.low \in Nat \ {0} /\ c.price \in Nat /\ p.stop \in Int /\ p.target \in Nat
    BY ReplayAssumption DEF Position
  <1>2. mode # "legacy" /\ reason = "stop" => c.low <= p.stop
    BY DEF ExitReason, CheckExit, IntrabarExit
  <1>. HIDE DEF reason
  <1>. DEFINE price == ExitPrice(p, c, reason)
  <1>3. price \in Nat
    BY <1>1, <1>2 DEF ExitPrice
  <1>. HIDE DEF price
  <1>4. (price * (100 - Slip)) \div 100 \in Nat
    <2>1. 100 - Slip \in 0..100
      BY SlipRange
    <2>. QED BY <1>3, <2>1, PartOf
  <1>. DEFINE gross == Worth(p, (price * (100 - Slip)) \div 100)
  <1>5. gross \in Nat
    BY <1>4, WorthNat
  <1>6. (gross * TakerPct) \div 100 \in 0..gross
    <2>. HIDE DEF gross
    <2>. QED BY <1>5, PartOf, FeeAssumption
  <1>7. gross - (gross * TakerPct) \div 100 \in Nat
    <2>. HIDE DEF gross
    <2>. QED BY <1>5, <1>6
  <1>8. Proceeds(p, c, reason) = gross - (gross * TakerPct) \div 100
    BY DEF Proceeds, price
  <1>9. Proceeds(p, c, reason) \in Nat
    BY <1>7, <1>8
  <1>. QED BY <1>9 DEF reason

LEMMA ReasonKnown ==
  ASSUME NEW p, NEW c, NEW gapped
  PROVE  ExitReason(p, c, gapped) \in Reasons \cup {"none"}
  BY DEF ExitReason, CheckExit, IntrabarExit, Reasons

\* What a purchase leaves is a position.
LEMMA BoughtPosition ==
  ASSUME TypeOK, NEW c \in Candles
  PROVE  Bought(c) \in Position /\ Bought(c).invested + Bought(c).fees = Spend
  <1>1. c.price \in Nat \ {0} /\ c.atr \in Nat
    BY ReplayAssumption
  <1>2. Spend \in Nat
    BY SpendRange DEF TypeOK
  <1>3. (Spend * TakerPct) \div 100 \in 0..Spend
    BY <1>2, PartOf, FeeAssumption
  <1>4. (c.price * (100 + Slip)) \div 100 \in Nat \ {0}
    <2>. DEFINE y == c.price * (100 + Slip)
    <2>1. c.price * Slip >= 0 /\ y = c.price * 100 + c.price * Slip /\ c.price * Slip \in Int
      BY <1>1, SlipRange
    <2>2. y \in Nat /\ y >= 100
      BY <1>1, <2>1
    <2>. HIDE DEF y
    <2>3. y \div 100 \in Nat \ {0}
      BY <2>2
    <2>. QED BY <2>3 DEF y
  <1>5. StopDistance(c.atr) \in Nat /\ TargetDistance(c.atr) \in Nat
    BY <1>1, DecisionAssumption DEF StopDistance, TargetDistance
  <1>. QED BY <1>2, <1>3, <1>4, <1>5 DEF Bought, Position

LEMMA AgedPosition ==
  ASSUME TypeOK, NEW m \in Open, NEW c \in Candles
  PROVE  /\ Aged(m, c) \in Position
         /\ Aged(m, c).stop = positions[m].stop /\ Aged(m, c).target = positions[m].target
         /\ Aged(m, c).invested = positions[m].invested /\ Aged(m, c).fees = positions[m].fees
  <1>. DEFINE p == positions[m]
              a == positions[m].age + 1
              k == Most(positions[m].peak, c.high)
              q == Aged(m, c)
  <1>1. p \in Position /\ c.high \in Nat
    BY OpenPosition, ReplayAssumption
  <1>2. k \in Nat /\ a \in Nat
    BY <1>1 DEF Position, Most
  <1>3. q = [p EXCEPT !.age = a, !.peak = k]
    BY DEF Aged
  <1>. HIDE DEF p, a, k, q
  <1>4. /\ q \in Position /\ q.stop = p.stop /\ q.target = p.target
        /\ q.invested = p.invested /\ q.fees = p.fees
    BY <1>1, <1>2, <1>3 DEF Position
  <1>. QED BY <1>4 DEF p, q

LEMMA TypeInit == Init => TypeOK
  <1>1. 0 \in Days
    <2>1. 0 <= MaxBars \div BarsPerDay /\ MaxBars \div BarsPerDay \in Int
      BY ReplayAssumption, Quotient
    <2>. QED BY <2>1 DEF Days
  <1>. QED BY <1>1, ReplayAssumption DEF Init, TypeOK, Position, None, Modes

\* What the turn of a market does to the rest.
LEMMA TurnTypes ==
  ASSUME TypeOK, NEW m \in Markets, NEW g \in BOOLEAN, Visit(m, g)
  PROVE  /\ mode' \in Modes /\ bar' \in 0..MaxBars
         /\ turn' \subseteq Markets /\ present' \subseteq Markets /\ riskOn' \in BOOLEAN
         /\ gap' \in [Markets -> BOOLEAN]
  BY DEF TypeOK, Visit

LEMMA TypeStep ==
  ASSUME TypeOK, [Next]_vars
  PROVE  TypeOK'
  <1>1. CASE NextBar
    <2>1. MaxBars \in Nat /\ bar < MaxBars /\ bar \in 0..MaxBars /\ bar' = bar + 1
      BY <1>1, ReplayAssumption DEF NextBar, TypeOK
    <2>2. riskOn' \in BOOLEAN
      <3>1. CASE RegimeBinding
        BY <1>1, <3>1 DEF NextBar
      <3>2. CASE ~RegimeBinding
        BY <1>1, <3>2 DEF NextBar
      <3>. QED BY <3>1, <3>2
    <2>3. bar' \in 0..MaxBars
      BY <2>1
    <2>. QED BY <1>1, <2>2, <2>3 DEF NextBar, account, TypeOK
  <1>2. ASSUME NEW m \in Markets, NoCandle(m) PROVE TypeOK'
    BY <1>2, TurnTypes DEF NoCandle, account, TypeOK
  <1>3. ASSUME NEW m \in Markets, NEW c \in Candles, See(m, c)
        PROVE  /\ mode' \in Modes /\ bar' \in 0..MaxBars
               /\ turn' \subseteq Markets /\ present' \subseteq Markets /\ riskOn' \in BOOLEAN
               /\ gap' \in [Markets -> BOOLEAN] /\ lastClose' \in [Markets -> Nat]
    BY <1>3, TurnTypes, ReplayAssumption DEF See, TypeOK
  <1>4. ASSUME NEW m \in Markets, NEW c \in Candles, Hold(m, c) PROVE TypeOK'
    <2>1. Aged(m, c) \in Position
      BY <1>4, AgedPosition DEF Hold
    <2>. QED BY <1>3, <1>4, <2>1 DEF Hold, TypeOK
  <1>5. ASSUME NEW m \in Markets, NEW c \in Candles, Exit(m, c) PROVE TypeOK'
    <2>1. PICK reason : /\ reason = ExitReason(Aged(m, c), c, gap[m]) /\ reason # "none"
                        /\ Close(m, reason, Proceeds(positions[m], c, reason))
      BY <1>5 DEF Exit
    <2>. DEFINE proceeds == Proceeds(positions[m], c, reason)
    <2>2. proceeds \in Nat /\ reason \in Reasons /\ positions[m] \in Position
      BY <1>5, <2>1, AgedPosition, OpenPosition, ProceedsNat, ReasonKnown DEF Exit
    <2>3. See(m, c) /\ Close(m, reason, proceeds)
      BY <1>5, <2>1 DEF Exit
    <2>. HIDE DEF proceeds
    <2>4. Profit(positions[m], proceeds) \in Int
      BY <2>2 DEF Profit, Position
    <2>5. cash' \in Nat /\ wins' \in Nat /\ exitReasons' \in [Reasons -> Nat]
      BY <2>2, <2>3 DEF Close, TypeOK
    <2>6. dailyPnl' \in [Days -> Int]
      BY <2>3, <2>4, DayInDays DEF Close, TypeOK
    <2>7. /\ positions' \in [Markets -> Position \cup {None}]
          /\ lastTrade' \in [Markets -> 0..MaxBars \cup {Never}]
          /\ booked' \in [Markets -> 0..MaxBars \cup {Never}]
      BY <2>3 DEF Close, TypeOK
    <2>. QED BY <1>3, <2>3, <2>5, <2>6, <2>7 DEF TypeOK
  <1>6. ASSUME NEW m \in Markets, NEW c \in Candles, Enter(m, c) PROVE TypeOK'
    <2>1. positions' = [positions EXCEPT ![m] = Bought(c)]
      BY <1>6 DEF Enter, Bought
    <2>2. positions' \in [Markets -> Position \cup {None}]
      BY <2>1, BoughtPosition DEF TypeOK
    <2>3. cash' \in Nat
      BY <1>6, SpendRange DEF Enter, TypeOK
    <2>. QED BY <1>3, <1>6, <2>2, <2>3 DEF Enter, TypeOK
  <1>7. ASSUME NEW m \in Markets, NEW c \in Candles, Pass(m, c) PROVE TypeOK'
    BY <1>3, <1>7 DEF Pass, account, TypeOK
  <1>8. CASE UNCHANGED vars
    BY <1>8 DEF vars, clock, account, TypeOK
  <1>. QED BY <1>1, <1>2, <1>4, <1>5, <1>6, <1>7, <1>8 DEF Next

\* Cash, prices and amounts are never negative and the age of a position is counted, for
\* every history: no order spends more than there is (_run, _can_open).
THEOREM ReplayTypes == Spec => []TypeOK
  BY TypeInit, TypeStep, PTL DEF Spec

-------------------------------------------------------------------------------
(* The books *)

LEMMA FiniteMarkets == IsFiniteSet(Markets)
  BY ReplayAssumption

LEMMA FiniteDays == IsFiniteSet(Days)
  <1>1. MaxBars \div BarsPerDay \in Nat
    BY ReplayAssumption, Quotient
  <1>. QED BY <1>1, FS_Interval DEF Days

LEMMA CostsType == ASSUME TypeOK PROVE Costs \in [Markets -> Int]
  <1>1. \A m \in Markets : positions[m].invested \in Int /\ positions[m].fees \in Int
    BY DEF TypeOK, Position, None
  <1>. QED BY <1>1 DEF Costs

\* One market buys or sells.
LEMMA CostsOfOne ==
  ASSUME TypeOK, TypeOK', NEW m \in Markets, NEW p, positions' = [positions EXCEPT ![m] = p]
  PROVE  SumFunction(Costs)' = SumFunction(Costs) + ((p.invested + p.fees) - Costs[m])
  <1>1. Costs \in [Markets -> Int]
    BY CostsType
  <1>2. Costs' \in [Markets -> Int]
    <2>1. \A n \in Markets : positions'[n].invested \in Int /\ positions'[n].fees \in Int
      BY DEF TypeOK, Position, None
    <2>. QED BY <2>1 DEF Costs
  <1>3. Costs'[m] = p.invested + p.fees /\ \A n \in Markets \ {m} : Costs[n] = Costs'[n]
    BY DEF Costs, TypeOK
  <1>4. SumFunction(Costs') = SumFunction(Costs) + (Costs'[m] - Costs[m])
    BY <1>1, <1>2, <1>3, FiniteMarkets, SumExcept
  <1>. QED BY <1>3, <1>4

LEMMA SumsInt == ASSUME TypeOK
                 PROVE  SumFunction(Costs) \in Int /\ SumFunction(dailyPnl) \in Int
  <1>1. SumFunction(Costs) \in Int
    BY CostsType, FiniteMarkets, SumType
  <1>2. SumFunction(dailyPnl) \in Int
    BY FiniteDays, SumType DEF TypeOK
  <1>. QED BY <1>1, <1>2

LEMMA BooksInit == Init => BooksBalance
  <1>. SUFFICES ASSUME Init PROVE BooksBalance
    OBVIOUS
  <1>1. Costs \in [Markets -> Int] /\ \A m \in Markets : Costs[m] = 0
    BY DEF Init, Costs, None
  <1>2. dailyPnl \in [Days -> Int] /\ \A d \in Days : dailyPnl[d] = 0
    BY DEF Init
  <1>3. SumFunction(Costs) = Cardinality(Markets) * 0
    BY <1>1, FiniteMarkets, SumConstant
  <1>4. SumFunction(dailyPnl) = Cardinality(Days) * 0
    BY <1>2, FiniteDays, SumConstant
  <1>5. Cardinality(Markets) \in Nat /\ Cardinality(Days) \in Nat /\ StartEur \in Nat
    BY FiniteMarkets, FiniteDays, FS_CardinalityType, ReplayAssumption
  <1>. QED BY <1>3, <1>4, <1>5 DEF BooksBalance, Init

LEMMA BooksSame ==
  ASSUME BooksBalance, UNCHANGED <<cash, positions, dailyPnl>>
  PROVE  BooksBalance'
  <1>1. Costs' = Costs
    BY DEF Costs
  <1>. QED BY <1>1 DEF BooksBalance

LEMMA BooksStep ==
  ASSUME TypeOK, TypeOK', BooksBalance, [Next]_vars
  PROVE  BooksBalance'
  <1>1. /\ cash \in Int /\ StartEur \in Int
        /\ SumFunction(Costs) \in Int /\ SumFunction(dailyPnl) \in Int
    BY SumsInt, ReplayAssumption DEF TypeOK
  <1>2. cash + SumFunction(Costs) = StartEur + SumFunction(dailyPnl)
    BY DEF BooksBalance
  <1>3. CASE UNCHANGED <<cash, positions, dailyPnl>>
    BY <1>3, BooksSame
  <1>4. ASSUME NEW m \in Markets, NEW c \in Candles, Hold(m, c) PROVE BooksBalance'
    <2>1. SumFunction(Costs)' =
            SumFunction(Costs) + ((Aged(m, c).invested + Aged(m, c).fees) - Costs[m])
      BY <1>4, CostsOfOne DEF Hold
    <2>2. /\ Aged(m, c).invested + Aged(m, c).fees = Costs[m]
          /\ Costs[m] \in Int /\ cash' = cash /\ dailyPnl' = dailyPnl
      BY <1>4, AgedPosition, CostsType DEF Hold, Costs
    <2>3. SumFunction(Costs)' = SumFunction(Costs)
      BY <1>1, <2>1, <2>2
    <2>. QED BY <1>2, <2>2, <2>3 DEF BooksBalance
  <1>5. ASSUME NEW m \in Markets, NEW c \in Candles, Exit(m, c) PROVE BooksBalance'
    <2>1. PICK reason : /\ reason = ExitReason(Aged(m, c), c, gap[m]) /\ reason # "none"
                        /\ Close(m, reason, Proceeds(positions[m], c, reason))
      BY <1>5 DEF Exit
    <2>. DEFINE proceeds == Proceeds(positions[m], c, reason)
                pnl == Profit(positions[m], proceeds)
    <2>2. proceeds \in Nat /\ positions[m] \in Position
      BY <1>5, <2>1, AgedPosition, OpenPosition, ProceedsNat DEF Exit
    <2>3. /\ cash' = cash + proceeds /\ positions' = [positions EXCEPT ![m] = None]
          /\ dailyPnl' = [dailyPnl EXCEPT ![Day] = dailyPnl[Day] + pnl]
      BY <2>1 DEF Close
    <2>. HIDE DEF proceeds
    <2>4. pnl = proceeds - Costs[m] /\ Costs[m] \in Int /\ pnl \in Int
      BY <2>2, CostsType DEF Profit, Costs, Position
    <2>. HIDE DEF pnl
    <2>5. SumFunction(Costs)' = SumFunction(Costs) - Costs[m]
      <3>1. SumFunction(Costs)' = SumFunction(Costs) + ((None.invested + None.fees) - Costs[m])
        BY <2>3, CostsOfOne
      <3>. QED BY <1>1, <2>4, <3>1 DEF None
    <2>6. SumFunction(dailyPnl)' = SumFunction(dailyPnl) + pnl
      <3>1. /\ dailyPnl \in [Days -> Int] /\ dailyPnl' \in [Days -> Int] /\ Day \in Days
            /\ \A d \in Days \ {Day} : dailyPnl[d] = dailyPnl'[d]
            /\ dailyPnl'[Day] - dailyPnl[Day] = pnl
        <4>1. /\ dailyPnl \in [Days -> Int] /\ dailyPnl' \in [Days -> Int] /\ Day \in Days
          BY DayInDays DEF TypeOK
        <4>2. dailyPnl[Day] \in Int
          BY <4>1
        <4>. QED BY <2>3, <2>4, <4>1, <4>2
      <3>2. SumFunction(dailyPnl') = SumFunction(dailyPnl) + (dailyPnl'[Day] - dailyPnl[Day])
        BY <3>1, FiniteDays, SumExcept
      <3>. QED BY <3>1, <3>2
    <2>. QED BY <1>1, <1>2, <2>2, <2>3, <2>4, <2>5, <2>6 DEF BooksBalance
  <1>6. ASSUME NEW m \in Markets, NEW c \in Candles, Enter(m, c) PROVE BooksBalance'
    <2>1. /\ positions' = [positions EXCEPT ![m] = Bought(c)]
          /\ cash' = cash - Spend /\ dailyPnl' = dailyPnl
      BY <1>6 DEF Enter, Bought
    <2>2. SumFunction(Costs)' = SumFunction(Costs) + ((Bought(c).invested + Bought(c).fees) - Costs[m])
      BY <2>1, CostsOfOne
    <2>3. Costs[m] = 0 /\ Spend \in Int
      BY <1>6, SpendRange DEF Enter, Open, Costs, None, TypeOK
    <2>4. SumFunction(Costs)' = SumFunction(Costs) + Spend
      BY <1>1, <2>2, <2>3, BoughtPosition
    <2>. QED BY <1>1, <1>2, <2>1, <2>3, <2>4 DEF BooksBalance
  <1>7. CASE NextBar
    BY <1>3, <1>7 DEF NextBar, account
  <1>8. ASSUME NEW m \in Markets, NoCandle(m) PROVE BooksBalance'
    BY <1>3, <1>8 DEF NoCandle, account
  <1>9. ASSUME NEW m \in Markets, NEW c \in Candles, Pass(m, c) PROVE BooksBalance'
    BY <1>3, <1>9 DEF Pass, account
  <1>10. CASE UNCHANGED vars
    BY <1>3, <1>10 DEF vars, account
  <1>. QED BY <1>4, <1>5, <1>6, <1>7, <1>8, <1>9, <1>10 DEF Next

\* Every euro is accounted for, whatever the history, the markets and the fees: cash and
\* the cost of the open positions are the start capital and the results of all days
\* (_run; the results of a day are what the daily loss cap looks at).
THEOREM BooksCorrect == Spec => []BooksBalance
  <1>1. TypeOK /\ BooksBalance /\ [Next]_vars => (TypeOK /\ BooksBalance)'
    BY TypeStep, BooksStep
  <1>. QED BY <1>1, TypeInit, BooksInit, PTL DEF Spec

-------------------------------------------------------------------------------
(* The slots *)

\* Only a purchase opens a position, one at a time.
LEMMA OpensOne ==
  ASSUME TypeOK, [Next]_vars, Open' \ Open # {}
  PROVE  \E m \in Markets \ Open : MayEnter(m) /\ Open' = Open \cup {m}
  <1>1. CASE positions' = positions
    BY <1>1 DEF Open
  <1>2. ASSUME NEW m \in Markets, NEW c \in Candles, Hold(m, c) PROVE FALSE
    BY <1>2 DEF Hold, Open, TypeOK
  <1>3. ASSUME NEW m \in Markets, NEW c \in Candles, Exit(m, c) PROVE FALSE
    BY <1>3 DEF Exit, Close, Open, TypeOK
  <1>4. ASSUME NEW m \in Markets, NEW c \in Candles, Enter(m, c)
        PROVE  \E n \in Markets \ Open : MayEnter(n) /\ Open' = Open \cup {n}
    <2>1. positions' = [positions EXCEPT ![m] = Bought(c)] /\ Bought(c) # None
      <3>1. positions' = [positions EXCEPT ![m] = Bought(c)]
        BY <1>4 DEF Enter, Bought
      <3>2. Bought(c).age = 0 /\ None.age = -1
        BY DEF Bought, None
      <3>. QED BY <3>1, <3>2
    <2>2. Open' = Open \cup {m}
      BY <2>1 DEF Open, TypeOK
    <2>. QED BY <1>4, <2>2 DEF Enter
  <1>5. CASE NextBar
    BY <1>1, <1>5 DEF NextBar, account
  <1>6. ASSUME NEW m \in Markets, NoCandle(m) PROVE positions' = positions
    BY <1>6 DEF NoCandle, account
  <1>7. ASSUME NEW m \in Markets, NEW c \in Candles, Pass(m, c) PROVE positions' = positions
    BY <1>7 DEF Pass, account
  <1>8. CASE UNCHANGED vars
    BY <1>1, <1>8 DEF vars, account
  <1>. QED BY <1>1, <1>2, <1>3, <1>4, <1>5, <1>6, <1>7, <1>8 DEF Next

LEMMA SlotsStep ==
  ASSUME TypeOK, [Next]_vars, mode = "portfolio", Bucket > 0, Open' \ Open # {}
  PROVE  Cardinality(Open') = 1 \/ Cardinality(Open') * Bucket <= Equity
  <1>1. PICK m \in Markets \ Open : MayEnter(m) /\ Open' = Open \cup {m}
    BY OpensOne
  <1>2. IsFiniteSet(Open)
    BY FiniteMarkets, FS_Subset DEF Open
  <1>3. Cardinality(Open) \in Nat /\ Cardinality(Open') = Cardinality(Open) + 1
    BY <1>1, <1>2, FS_AddElement, FS_CardinalityType
  <1>4. Cardinality(Open) < EffectiveMax(Equity)
    BY <1>1 DEF MayEnter, ReplayCanOpen
  <1>5. /\ Equity \in Nat /\ Bucket \in Nat \ {0} /\ MaxPositions \in Nat
        /\ Equity \div Bucket \in Nat /\ (Equity \div Bucket) * Bucket <= Equity
    BY EquityNat, RiskAssumption, Quotient
  <1>6. CASE Cardinality(Open') <= Equity \div Bucket
    <2>1. ((Equity \div Bucket) - Cardinality(Open')) * Bucket >= 0
      BY <1>3, <1>5, <1>6
    <2>. QED BY <1>3, <1>5, <2>1
  <1>7. CASE ~(Cardinality(Open') <= Equity \div Bucket)
    BY <1>3, <1>4, <1>5, <1>7 DEF EffectiveMax, Most, Least
  <1>. QED BY <1>6, <1>7

\* A second position and those after it are opened only on capital that fills as many
\* buckets, for every history (_can_open with effective_max_positions).
THEOREM SlotsCorrect == Spec => SlotsFollowCapital
  <1>1. TypeOK /\ [Next]_vars =>
          [mode = "portfolio" /\ Bucket > 0 /\ Open' \ Open # {} =>
             Cardinality(Open') = 1 \/ Cardinality(Open') * Bucket <= Equity]_vars
    BY SlotsStep
  <1>. QED BY <1>1, ReplayTypes, PTL DEF Spec, SlotsFollowCapital
-------------------------------------------------------------------------------
(* Wins *)

LEMMA CoversMeans ==
  ASSUME NEW n \in Nat, NEW margin \in Int, NEW rounding \in Nat, Covers(n, margin, rounding)
  PROVE  margin > 0 /\ rounding < n * margin
  <1>1. margin \in Nat \ {0} /\ rounding \div margin < n
    BY DEF Covers
  <1>. DEFINE q == rounding \div margin
  <1>2. q \in Nat /\ rounding < margin * q + margin
    BY <1>1
  <1>. HIDE DEF q
  <1>3. q + 1 <= n
    BY <1>1, <1>2 DEF q
  <1>4. margin * (n - (q + 1)) >= 0
    BY <1>1, <1>2, <1>3
  <1>5. margin * (n - (q + 1)) = n * margin - (margin * q + margin)
    BY <1>1, <1>2
  <1>6. n * margin \in Int /\ margin * q \in Int
    BY <1>1, <1>2
  <1>. QED BY <1>1, <1>2, <1>4, <1>5, <1>6

\* Both sides of an inequality times the same.
LEMMA Times ==
  ASSUME NEW a \in Int, NEW b \in Int, NEW c \in Nat, a <= b
  PROVE  a * c \in Int /\ b * c \in Int /\ a * c <= b * c
  <1>1. (b - a) * c >= 0
    OBVIOUS
  <1>2. (b - a) * c = b * c - a * c /\ a * c \in Int /\ b * c \in Int
    OBVIOUS
  <1>. QED BY <1>1, <1>2

LEMMA TimesBack ==
  ASSUME NEW a \in Int, NEW b \in Int, NEW c \in Nat \ {0}, a * c <= b * c
  PROVE  a <= b
  <1>. SUFFICES ASSUME a > b PROVE FALSE
    OBVIOUS
  <1>1. (a - b) * c > 0
    OBVIOUS
  <1>2. (a - b) * c = a * c - b * c /\ a * c \in Int /\ b * c \in Int
    OBVIOUS
  <1>. QED BY <1>1, <1>2

\* A quotient that is rounded down.
LEMMA Rounded ==
  ASSUME NEW a \in Nat, NEW n \in Nat \ {0}
  PROVE  /\ a \div n \in Nat /\ (a \div n) * n \in Nat
         /\ (a \div n) * n <= a /\ a < (a \div n) * n + n
  OBVIOUS

\* What is kept of s after a fee of t per cent.
LEMMA AfterFee ==
  ASSUME NEW s \in Nat, NEW t \in 0..100
  PROVE  LET i == s - (s * t) \div 100
         IN  /\ i \in Nat /\ s * (100 - t) \in Nat
             /\ s * (100 - t) <= 100 * i /\ 100 * i <= s * (100 - t) + 99
  <1>1. s * t \in Nat /\ s * (100 - t) = 100 * s - s * t /\ s * (100 - t) \in Nat
    OBVIOUS
  <1>. DEFINE f == (s * t) \div 100
  <1>2. f \in Nat /\ f * 100 <= s * t /\ s * t < f * 100 + 100
    BY <1>1, Rounded
  <1>3. f <= s
    BY PartOf
  <1>. HIDE DEF f
  <1>. DEFINE st == s * t
              su == s * (100 - t)
  <1>4. st \in Nat /\ su \in Nat /\ su = 100 * s - st /\ f * 100 <= st /\ st < f * 100 + 100
    BY <1>1, <1>2
  <1>. HIDE DEF st, su
  <1>5. s - f \in Nat /\ su <= 100 * (s - f) /\ 100 * (s - f) <= su + 99
    BY <1>2, <1>3, <1>4
  <1>. QED BY <1>4, <1>5 DEF f, su

\* What a sale at price brings of the s that were spent at entry: both fees are t per cent
\* and slippage leaves v per cent of the price.
Back(s, t, v, entry, price) ==
    LET i == s - (s * t) \div 100
        x == (price * v) \div 100
        g == (i * x) \div entry
    IN  g - (g * t) \div 100

\* A sale at most d per cent above the entry does not bring s back: two fees of t per cent
\* and the slippage of the sale, v = 100 - slippage, are more than the gain.
LEMMA SmallGain ==
  ASSUME NEW s \in Nat, NEW n \in Nat, n <= s, NEW t \in 0..100, NEW v \in 0..100,
         NEW entry \in Nat \ {0}, NEW price \in Nat, NEW w \in Nat,
         100 * price <= entry * w, Covers(n, LossMargin(t, v, w), LossRounding(t, v, w))
  PROVE  Back(s, t, v, entry, price) <= s
  <1>. DEFINE u == 100 - t
              i == s - (s * t) \div 100
              x == (price * v) \div 100
              g == (i * x) \div entry
              vw == v * w
              k == u * vw
  <1>1. u \in Nat /\ vw \in Nat /\ k \in Nat
    OBVIOUS
  <1>2. i \in Nat /\ s * u \in Nat /\ 100 * i <= s * u + 99
    BY AfterFee
  <1>3. price * v \in Nat /\ x \in Nat /\ x * 100 <= price * v
    BY Rounded
  <1>4. i * x \in Nat /\ g \in Nat /\ g * entry <= i * x
    <2>. HIDE DEF i, x
    <2>1. i * x \in Nat
      BY <1>2, <1>3
    <2>. QED BY <2>1, Rounded
  <1>5. Covers(n, 100000000 - u * k, 99 * k)
    BY DEF LossMargin, LossRounding
  <1>. HIDE DEF i, x, g
  <1>6. 10000 * x <= entry * vw
    <2>1. (100 * price) * v <= (entry * w) * v
      BY Times
    <2>2. (100 * price) * v = 100 * (price * v) /\ (entry * w) * v = entry * vw /\ entry * vw \in Nat
      BY <1>1
    <2>. QED BY <1>3, <2>1, <2>2
  <1>7. 10000 * g <= i * vw
    <2>1. (10000 * x) * i <= (entry * vw) * i
      BY <1>1, <1>2, <1>3, <1>6, Times
    <2>2. (10000 * g) * entry <= (i * vw) * entry
      <3>1. (10000 * x) * i = 10000 * (i * x) /\ (entry * vw) * i = (i * vw) * entry
        BY <1>1, <1>2, <1>3
      <3>2. (10000 * g) * entry = 10000 * (g * entry) /\ g * entry \in Nat /\ (i * vw) * entry \in Nat
        BY <1>1, <1>2, <1>4
      <3>. QED BY <1>4, <2>1, <3>1, <3>2
    <2>. QED BY <1>1, <1>2, <1>4, <2>2, TimesBack
  <1>8. 1000000 * (g * u) <= (s * u + 99) * k
    <2>1. (10000 * g) * u <= (i * vw) * u
      BY <1>1, <1>2, <1>4, <1>7, Times
    <2>2. (10000 * g) * u = 10000 * (g * u) /\ (i * vw) * u = i * k /\ g * u \in Nat
      BY <1>1, <1>2, <1>4
    <2>3. (100 * i) * k <= (s * u + 99) * k
      BY <1>1, <1>2, Times
    <2>4. (100 * i) * k = 100 * (i * k) /\ i * k \in Nat
      BY <1>1, <1>2
    <2>. QED BY <2>1, <2>2, <2>3, <2>4
  <1>9. 99 * k < s * (100000000 - u * k)
    <2>1. u * k \in Nat
      BY <1>1
    <2>. DEFINE margin == 100000000 - u * k
                kk == 99 * k
    <2>2. margin \in Int /\ kk \in Nat /\ Covers(n, margin, kk)
      BY <1>1, <1>5, <2>1
    <2>. HIDE DEF margin, kk
    <2>5. margin > 0 /\ kk < n * margin
      BY <2>2, CoversMeans
    <2>3. n * margin <= s * margin /\ n * margin \in Int /\ s * margin \in Int
      BY <2>2, <2>5, Times
    <2>4. kk < s * margin
      BY <2>2, <2>3, <2>5
    <2>. QED BY <2>4 DEF margin, kk
  <1>10. g * u <= 100 * s
    <2>1. (s * u + 99) * k = s * (u * k) + 99 * k
      BY <1>1
    <2>2. s * (100000000 - u * k) = 100000000 * s - s * (u * k)
      BY <1>1
    <2>3. s * (u * k) \in Nat /\ g * u \in Nat /\ 99 * k \in Nat
      BY <1>1, <1>4
    <2>. DEFINE suk == s * (u * k)
                gu == g * u
                kk == 99 * k
    <2>4. 1000000 * gu <= suk + kk /\ kk < 100000000 * s - suk
      BY <1>8, <1>9, <2>1, <2>2
    <2>5. suk \in Nat /\ gu \in Nat /\ kk \in Nat
      BY <2>3
    <2>. HIDE DEF suk, gu, kk
    <2>6. gu <= 100 * s
      BY <2>4, <2>5
    <2>. QED BY <2>6 DEF gu
  <1>11. 100 * (g - (g * t) \div 100) <= g * u + 99 /\ g - (g * t) \div 100 \in Nat
    BY <1>4, AfterFee
  <1>12. g - (g * t) \div 100 <= s
    <2>. DEFINE p == g - (g * t) \div 100
                gu == g * u
    <2>1. p \in Nat /\ gu \in Nat /\ 100 * p <= gu + 99 /\ gu <= 100 * s
      BY <1>1, <1>4, <1>10, <1>11
    <2>. HIDE DEF p, gu
    <2>2. p <= s
      BY <2>1
    <2>. QED BY <2>2 DEF p
  <1>. QED BY <1>12 DEF Back, g, i, x

LEMMA CoversMore ==
  ASSUME NEW n \in Nat, NEW s \in Nat, n <= s, NEW margin \in Int, NEW rounding \in Nat,
         Covers(n, margin, rounding)
  PROVE  Covers(s, margin, rounding)
  <1>1. margin \in Nat \ {0} /\ rounding \div margin < n
    BY DEF Covers
  <1>2. rounding \div margin \in Nat
    BY <1>1
  <1>. QED BY <1>1, <1>2 DEF Covers

\* A sale at a target that is e per cent of the price above the entry (h = 100 + slippage
\* of the purchase) brings more than s.
LEMMA LargeGain ==
  ASSUME NEW s \in Nat, NEW t \in 0..100, NEW v \in 0..100, NEW h \in Nat, NEW e \in Nat,
         NEW entry \in Nat \ {0}, NEW target \in Nat, e * entry <= h * (target - entry),
         Covers(entry, GainMargin(t, v, h, e), PriceRounding(t, h)),
         Covers(s, GainMargin(t, v, h, e), AmountRounding(t, h))
  PROVE  Back(s, t, v, entry, target) > s
  <1>. DEFINE i == s - (s * t) \div 100
              x == (target * v) \div 100
              g == (i * x) \div entry
              u == 100 - t
              r == (h + e) * v
              uu == u * u
              margin == GainMargin(t, v, h, e)
  <1>1. u \in Nat /\ r \in Nat /\ uu \in Nat /\ uu * r \in Nat /\ uu * h \in Nat /\ u * h \in Nat
    OBVIOUS
  <1>2. i \in Nat /\ s * u \in Nat /\ s * u <= 100 * i
    BY AfterFee
  <1>3. target * v \in Nat /\ x \in Nat /\ target * v <= x * 100 + 99
    <2>1. target * v \in Nat
      OBVIOUS
    <2>2. x \in Nat /\ x * 100 \in Nat /\ target * v < x * 100 + 100
      BY <2>1, Rounded
    <2>. QED BY <2>1, <2>2
  <1>4. i * x \in Nat /\ g \in Nat /\ g * entry \in Nat /\ i * x < g * entry + entry
    <2>. DEFINE ix == i * x
    <2>1. ix \in Nat
      <3>. HIDE DEF i, x
      <3>. QED BY <1>2, <1>3
    <2>. HIDE DEF ix
    <2>2. /\ ix \div entry \in Nat /\ (ix \div entry) * entry \in Nat
          /\ ix < (ix \div entry) * entry + entry
      BY <2>1, Rounded
    <2>. QED BY <2>1, <2>2 DEF ix
  <1>5. /\ Covers(entry, margin, 198 * (uu * h))
        /\ Covers(s, margin, 20000 * (u * h))
    BY DEF PriceRounding, AmountRounding
  <1>8. margin = uu * r - 1000000 * h
    BY DEF GainMargin
  <1>6. margin \in Int
    BY <1>1, <1>8
  <1>7. margin > 0 /\ 198 * (uu * h) < entry * margin /\ 20000 * (u * h) < s * margin
    <2>. DEFINE a == 198 * (uu * h)
                b == 20000 * (u * h)
    <2>1. a \in Nat /\ b \in Nat
      BY <1>1
    <2>2. Covers(entry, margin, a) /\ Covers(s, margin, b)
      BY <1>5
    <2>. HIDE DEF a, b, margin
    <2>3. margin > 0 /\ a < entry * margin /\ b < s * margin
      BY <1>6, <2>1, <2>2, CoversMeans
    <2>. QED BY <2>3 DEF a, b
  <1>. HIDE DEF i, x, g, margin
  \* the price: h * 100 * x >= r * entry - 99 * h
  <1>9. r * entry <= (100 * h) * x + 99 * h
    <2>1. (h + e) * entry <= h * target
      <3>1. h * (target - entry) = h * target - h * entry /\ (h + e) * entry = h * entry + e * entry
            /\ h * target \in Nat /\ h * entry \in Nat /\ e * entry \in Nat
        OBVIOUS
      <3>. QED BY <3>1
    <2>2. ((h + e) * entry) * v <= (h * target) * v
      <3>1. (h + e) * entry \in Nat /\ h * target \in Nat
        OBVIOUS
      <3>. QED BY <2>1, <3>1, Times
    <2>3. ((h + e) * entry) * v = r * entry /\ (h * target) * v = (target * v) * h
      OBVIOUS
    <2>4. (target * v) * h <= (x * 100 + 99) * h
      BY <1>3, Times
    <2>5. (x * 100 + 99) * h = (100 * h) * x + 99 * h /\ (100 * h) * x \in Nat
      BY <1>3
    <2>6. (target * v) * h \in Nat /\ r * entry \in Nat
      BY <1>1, <1>3
    <2>. QED BY <2>2, <2>3, <2>4, <2>5, <2>6
  \* times what is invested
  <1>10. (s * u) * (r * entry) <= (10000 * h) * (g * entry + entry) + (s * u) * (99 * h)
    <2>1. (r * entry) * (s * u) <= ((100 * h) * x + 99 * h) * (s * u)
      <3>1. r * entry \in Nat /\ (100 * h) * x + 99 * h \in Nat
        BY <1>1, <1>3
      <3>. QED BY <1>2, <1>9, <3>1, Times
    <2>2. ((100 * h) * x + 99 * h) * (s * u) = (s * u) * ((100 * h) * x) + (s * u) * (99 * h)
      BY <1>2, <1>3
    <2>3. (s * u) * ((100 * h) * x) <= (100 * i) * ((100 * h) * x)
      <3>1. (100 * h) * x \in Nat
        BY <1>3
      <3>. QED BY <1>2, <3>1, Times
    <2>4. (100 * i) * ((100 * h) * x) = (i * x) * (10000 * h)
      BY <1>2, <1>3
    <2>5. (i * x) * (10000 * h) <= (g * entry + entry) * (10000 * h)
      BY <1>4, Times
    <2>6. /\ (s * u) * ((100 * h) * x) \in Nat /\ (s * u) * (99 * h) \in Nat
          /\ (i * x) * (10000 * h) \in Nat /\ (g * entry + entry) * (10000 * h) \in Nat
          /\ (s * u) * (r * entry) \in Nat
      BY <1>1, <1>2, <1>3, <1>4
    <2>7. (r * entry) * (s * u) = (s * u) * (r * entry)
          /\ (g * entry + entry) * (10000 * h) = (10000 * h) * (g * entry + entry)
      BY <1>1, <1>2, <1>4
    <2>. QED BY <2>1, <2>2, <2>3, <2>4, <2>5, <2>6, <2>7
  \* times u once more: what is rounded away is less than the margin
  <1>11. 100 * s < g * u
    <2>. DEFINE a == (s * margin) * entry
                b == 99 * ((uu * h) * s)
                d == 10000 * ((u * h) * entry)
                y == (h * entry) * (g * u)
                z == (h * entry) * s
    <2>1. ((s * u) * (r * entry)) * u
            <= ((10000 * h) * (g * entry + entry) + (s * u) * (99 * h)) * u
      <3>1. /\ (s * u) * (r * entry) \in Nat
            /\ (10000 * h) * (g * entry + entry) + (s * u) * (99 * h) \in Nat
        BY <1>1, <1>2, <1>4
      <3>. QED BY <1>1, <1>10, <3>1, Times
    <2>2. ((s * u) * (r * entry)) * u = a + 1000000 * z
      <3>1. ((s * u) * (r * entry)) * u = (s * (uu * r)) * entry
        BY <1>1
      <3>2. uu * r = margin + 1000000 * h
        BY <1>1, <1>6, <1>8
      <3>3. (s * (margin + 1000000 * h)) * entry = a + 1000000 * z
        BY <1>6
      <3>. QED BY <3>1, <3>2, <3>3
    <2>3. ((10000 * h) * (g * entry + entry) + (s * u) * (99 * h)) * u = 10000 * y + d + b
      BY <1>1, <1>4
    <2>4. 2 * b < a
      <3>1. s \in Nat \ {0}
        BY <1>1, <1>5, <1>6, <1>7 DEF Covers
      <3>2. (198 * (uu * h) + 1) * s <= (entry * margin) * s
        BY <1>1, <1>6, <1>7, Times
      <3>3. (198 * (uu * h) + 1) * s = 2 * b + s /\ (entry * margin) * s = a
        BY <1>1, <1>6
      <3>4. b \in Int /\ a \in Int
        BY <1>1, <1>6
      <3>5. 2 * b + s <= a
        BY <3>2, <3>3
      <3>. HIDE DEF a, b
      <3>. QED BY <3>1, <3>4, <3>5
    <2>5. 2 * d < a
      <3>1. (20000 * (u * h) + 1) * entry <= (s * margin) * entry
        BY <1>1, <1>6, <1>7, Times
      <3>2. (20000 * (u * h) + 1) * entry = 2 * d + entry
        BY <1>1
      <3>3. d \in Int /\ a \in Int
        BY <1>1, <1>6
      <3>. QED BY <3>1, <3>2, <3>3
    <2>6. a \in Int /\ b \in Int /\ d \in Int /\ y \in Int /\ z \in Int
      BY <1>1, <1>4, <1>6
    <2>7. a + 1000000 * z <= 10000 * y + d + b
      BY <2>1, <2>2, <2>3
    <2>8. 100 * z < y
      <3>. HIDE DEF a, b, d, y, z
      <3>. QED BY <2>4, <2>5, <2>6, <2>7
    <2>9. g * u \in Nat /\ h * entry \in Nat
      BY <1>1, <1>4
    <2>10. ASSUME g * u <= 100 * s PROVE FALSE
      <3>1. (g * u) * (h * entry) <= (100 * s) * (h * entry)
        BY <2>9, <2>10, Times
      <3>2. (g * u) * (h * entry) = y /\ (100 * s) * (h * entry) = 100 * z
        BY <1>1, <1>4
      <3>. QED BY <2>6, <2>8, <3>1, <3>2
    <2>. QED BY <2>9, <2>10
  <1>12. g * u <= 100 * (g - (g * t) \div 100) /\ g - (g * t) \div 100 \in Nat
    BY <1>4, AfterFee
  <1>13. g - (g * t) \div 100 > s
    <2>. DEFINE p == g - (g * t) \div 100
                gu == g * u
    <2>1. p \in Nat /\ gu \in Nat /\ gu <= 100 * p /\ 100 * s < gu
      BY <1>1, <1>4, <1>11, <1>12
    <2>. HIDE DEF p, gu
    <2>2. p > s
      BY <2>1
    <2>. QED BY <2>2 DEF p
  <1>. QED BY <1>13 DEF Back, g, i, x

-------------------------------------------------------------------------------
\* What a purchase of the replay leaves: at least the smallest order, the fee of it, a
\* stop below the entry and a target that the fee gate let in.
Entered(p) ==
    /\ MinOrder <= p.invested + p.fees
    /\ p.fees = ((p.invested + p.fees) * TakerPct) \div 100
    /\ p.stop <= p.entry
    /\ MinEdge * p.entry <= (100 + Leg) * (p.target - p.entry)
    /\ \E c \in Candles : c.price <= p.entry

WinInv ==
    mode # "legacy" => (\A m \in Open : Entered(positions[m])) /\ wins = exitReasons["target"]

LEMMA PercentNumbers ==
  /\ TakerPct \in 0..100 /\ Leg \in 0..50 /\ MinEdge \in Nat /\ RoundTrip \in Nat
  /\ 100 - Leg \in 0..100 /\ 100 + Leg \in Nat
  BY FeeAssumption, DecisionAssumption DEF Leg, MinEdge, RoundTrip

\* The fill is the price and the slippage.
LEMMA FillAbove ==
  ASSUME NEW price \in Nat, NEW leg \in 0..50
  PROVE  LET fill == (price * (100 + leg)) \div 100
         IN  fill \in Nat /\ price <= fill /\ fill * 100 <= price * (100 + leg)
  <1>. DEFINE y == price * (100 + leg)
              z == price * leg
              fill == y \div 100
  <1>1. z \in Nat /\ y = price * 100 + z
    OBVIOUS
  <1>2. y \in Nat
    BY <1>1
  <1>3. fill \in Nat /\ fill * 100 <= y /\ y < fill * 100 + 100
    <2>. HIDE DEF y
    <2>. QED BY <1>2, Rounded
  <1>4. price <= fill
    <2>. HIDE DEF z, fill, y
    <2>. QED BY <1>1, <1>3
  <1>. QED BY <1>3, <1>4

LEMMA EnteredBought ==
  ASSUME TypeOK, mode # "legacy", NEW c \in Candles, Wanted(c), Spend >= MinOrder
  PROVE  Entered(Bought(c))
  <1>. DEFINE fill == (c.price * (100 + Slip)) \div 100
              stop == StopDistance(c.atr)
              dist == TargetDistance(c.atr)
              p == Bought(c)
  <1>1. c.price \in Nat /\ c.atr \in Nat /\ Slip = Leg
    BY ReplayAssumption DEF Slip
  <1>2. fill \in Nat /\ c.price <= fill /\ fill * 100 <= c.price * (100 + Leg)
    BY <1>1, PercentNumbers, FillAbove
  <1>3. stop \in Nat /\ dist \in Nat
    BY <1>1, DecisionAssumption DEF StopDistance, TargetDistance
  <1>4. MinEdge * c.price <= dist * 100
    <2>1. MinEdge * c.price \in Nat /\ dist * 100 \in Nat
      BY <1>1, <1>3, PercentNumbers
    <2>. QED BY <2>1 DEF Wanted, TooNear
  <1>5. /\ p.invested + p.fees = Spend /\ p.fees = (Spend * TakerPct) \div 100
        /\ p.entry = fill /\ p.stop = fill - stop /\ p.target = fill + dist
    BY BoughtPosition DEF Bought
  <1>. HIDE DEF fill, stop, dist, p
  <1>6. MinEdge * fill <= (100 + Leg) * dist
    <2>. DEFINE h == 100 + Leg
                e == MinEdge
    <2>1. h \in Nat /\ e \in Nat
      BY PercentNumbers
    <2>2. e * c.price <= dist * 100 /\ fill * 100 <= c.price * h
      BY <1>2, <1>4
    <2>. HIDE DEF h, e
    <2>3. (fill * 100) * e <= (c.price * h) * e
      BY <1>1, <1>2, <2>1, <2>2, Times
    <2>4. (e * c.price) * h <= (dist * 100) * h
      BY <1>1, <1>3, <2>1, <2>2, Times
    <2>5. /\ (c.price * h) * e = (e * c.price) * h
          /\ (fill * 100) * e = (e * fill) * 100 /\ (dist * 100) * h = (h * dist) * 100
          /\ e * fill \in Nat /\ h * dist \in Nat /\ (e * c.price) * h \in Nat
      BY <1>1, <1>2, <1>3, <2>1
    <2>6. e * fill <= h * dist
      BY <2>3, <2>4, <2>5
    <2>. QED BY <2>6 DEF h, e
  <1>7. p.target - p.entry = dist /\ p.stop <= p.entry
    BY <1>2, <1>3, <1>5
  <1>8. Entered(p)
    BY <1>1, <1>2, <1>5, <1>6, <1>7 DEF Entered
  <1>. QED BY <1>8 DEF p

LEMMA BackNat ==
  ASSUME NEW s \in Nat, NEW t \in 0..100, NEW v \in 0..100, NEW entry \in Nat \ {0},
         NEW price \in Nat
  PROVE  Back(s, t, v, entry, price) \in Nat
  <1>. DEFINE i == s - (s * t) \div 100
              x == (price * v) \div 100
              g == (i * x) \div entry
  <1>1. i \in Nat /\ x \in Nat
    <2>1. i \in Nat
      BY AfterFee
    <2>2. price * v \in Nat
      OBVIOUS
    <2>3. x \in Nat
      BY <2>2, Rounded
    <2>. QED BY <2>1, <2>3
  <1>2. i * x \in Nat
    <2>. HIDE DEF i, x
    <2>. QED BY <1>1
  <1>3. g \in Nat
    <2>. HIDE DEF i, x
    <2>. QED BY <1>2, Rounded
  <1>4. g - (g * t) \div 100 \in Nat
    <2>. HIDE DEF g
    <2>. QED BY <1>3, AfterFee
  <1>. QED BY <1>4 DEF Back

\* What the sale of a position at a price brings.
LEMMA ProceedsAt ==
  ASSUME NEW p \in Position, Entered(p), NEW c, NEW reason, mode # "legacy"
  PROVE  LET s == p.invested + p.fees
         IN  /\ s \in Nat /\ MinOrder <= s
             /\ Proceeds(p, c, reason)
                  = Back(s, TakerPct, 100 - Leg, p.entry, ExitPrice(p, c, reason))
             /\ Profit(p, Proceeds(p, c, reason)) = Proceeds(p, c, reason) - s
  <1>. DEFINE s == p.invested + p.fees
              f == (s * TakerPct) \div 100
  <1>1. p.invested \in Nat /\ p.fees \in Nat /\ p.fees = f /\ MinOrder <= s
    BY DEF Entered, Position
  <1>2. s - f = p.invested /\ s \in Nat
    <2>. HIDE DEF f
    <2>. QED BY <1>1
  <1>3. Slip = Leg
    BY DEF Slip
  <1>. QED BY <1>1, <1>2, <1>3 DEF Back, Proceeds, Worth, Profit

\* A sale at or below the entry, or at most what pct allows above it, loses.
LEMMA LowSaleLoses ==
  ASSUME NEW p \in Position, Entered(p), NEW c, NEW reason, mode # "legacy",
         ExitPrice(p, c, reason) \in Nat, NEW pct \in Int, Loses(pct),
         (ExitPrice(p, c, reason) - p.entry) * 100 <= (RoundTrip + pct) * p.entry
  PROVE  ~(Profit(p, Proceeds(p, c, reason)) > 0)
  <1>. DEFINE s == p.invested + p.fees
              price == ExitPrice(p, c, reason)
              proceeds == Proceeds(p, c, reason)
              n == p.entry
              w == 100 + RoundTrip + pct
              d == RoundTrip + pct
              t == TakerPct
              v == 100 - Leg
              least == MinOrder
  <1>1. /\ s \in Nat /\ least \in Nat /\ least <= s /\ n \in Nat \ {0} /\ price \in Nat
        /\ t \in 0..100 /\ v \in 0..100
    BY ProceedsAt, RiskAssumption, PercentNumbers DEF Position
  <1>2. proceeds = Back(s, t, v, n, price) /\ Profit(p, proceeds) = proceeds - s
    BY ProceedsAt
  <1>3. Covers(least, LossMargin(t, v, w), LossRounding(t, v, w))
    BY DEF Loses
  <1>4. (price - n) * 100 <= d * n
    OBVIOUS
  <1>5. d \in Int /\ w = 100 + d
    BY PercentNumbers
  <1>. HIDE DEF s, price, proceeds, n, w, d, t, v, least
  <1>6. 100 * price <= n * w
    <2>1. d * n \in Int
      BY <1>1, <1>5
    <2>2. 100 * price <= n * 100 + d * n
      BY <1>1, <1>4, <2>1
    <2>3. n * w = n * 100 + d * n
      BY <1>1, <1>5
    <2>. QED BY <2>2, <2>3
  <1>7. w \in Nat
    <2>1. ASSUME w < 0 PROVE FALSE
      <3>1. n * w < 0
        BY <1>1, <1>5, <2>1
      <3>2. 100 * price >= 0 /\ 100 * price \in Int /\ n * w \in Int
        BY <1>1, <1>5
      <3>. QED BY <1>6, <3>1, <3>2
    <2>. QED BY <1>5, <2>1
  <1>8. Back(s, t, v, n, price) <= s /\ Back(s, t, v, n, price) \in Nat
    BY <1>1, <1>3, <1>6, <1>7, SmallGain, BackNat
  <1>9. ~(Profit(p, proceeds) > 0)
    BY <1>1, <1>2, <1>8
  <1>. QED BY <1>9 DEF proceeds

\* A sale at the stop, which is below the entry, loses whatever the settings are.
LEMMA StopSaleLoses ==
  ASSUME NEW p \in Position, Entered(p), NEW c, NEW reason, mode # "legacy",
         ExitPrice(p, c, reason) \in Nat, ExitPrice(p, c, reason) <= p.entry
  PROVE  ~(Profit(p, Proceeds(p, c, reason)) > 0)
  <1>. DEFINE s == p.invested + p.fees
              price == ExitPrice(p, c, reason)
              proceeds == Proceeds(p, c, reason)
              n == p.entry
              t == TakerPct
              v == 100 - Leg
  <1>1. s \in Nat /\ n \in Nat \ {0} /\ price \in Nat /\ price <= n /\ t \in 0..100 /\ v \in 0..100
    BY ProceedsAt, PercentNumbers DEF Position
  <1>2. proceeds = Back(s, t, v, n, price) /\ Profit(p, proceeds) = proceeds - s
    BY ProceedsAt
  <1>. HIDE DEF s, price, proceeds, n, t, v
  <1>. DEFINE i == s - (s * t) \div 100
              x == (price * v) \div 100
              g == (i * x) \div n
  <1>3. i \in Nat /\ i <= s /\ x \in Nat /\ x <= price
    <2>1. (s * t) \div 100 \in 0..s /\ x \in 0..price
      BY <1>1, PartOf
    <2>. QED BY <1>1, <2>1
  <1>4. g \in Nat /\ g <= i
    <2>. HIDE DEF i, x
    <2>1. x * i <= n * i /\ i * x = x * i /\ i * x \in Nat
      BY <1>1, <1>3, Times
    <2>2. g \in Nat /\ g * n <= i * x
      <3>. DEFINE y == i * x
      <3>1. y \in Nat
        BY <2>1
      <3>. HIDE DEF y
      <3>2. y \div n \in Nat /\ (y \div n) * n <= y
        BY <1>1, <3>1, Rounded
      <3>. QED BY <3>2 DEF y
    <2>. HIDE DEF g
    <2>3. g * n <= i * n
      <3>1. n * i = i * n /\ g * n \in Int /\ i * n \in Int
        BY <1>1, <1>3, <2>2
      <3>. QED BY <2>1, <2>2, <3>1
    <2>. QED BY <1>1, <1>3, <2>2, <2>3, TimesBack
  <1>5. g - (g * t) \div 100 \in Nat /\ g - (g * t) \div 100 <= s
    <2>. HIDE DEF g, i, x
    <2>1. (g * t) \div 100 \in 0..g
      BY <1>1, <1>4, PartOf
    <2>. QED BY <1>1, <1>3, <1>4, <2>1
  <1>6. Back(s, t, v, n, price) \in Nat /\ Back(s, t, v, n, price) <= s
    BY <1>5 DEF Back
  <1>7. ~(Profit(p, proceeds) > 0)
    BY <1>1, <1>2, <1>6
  <1>. QED BY <1>7 DEF proceeds

\* A sale at the target wins.
LEMMA TargetSaleWins ==
  ASSUME MarginsPay, NEW p \in Position, Entered(p), NEW c, NEW reason, mode # "legacy",
         ExitPrice(p, c, reason) = p.target
  PROVE  Profit(p, Proceeds(p, c, reason)) > 0
  <1>. DEFINE s == p.invested + p.fees
              target == p.target
              proceeds == Proceeds(p, c, reason)
              n == p.entry
              t == TakerPct
              v == 100 - Leg
              h == 100 + Leg
              e == MinEdge
              margin == GainMargin(t, v, h, e)
              least == MinOrder
  <1>1. /\ s \in Nat /\ least \in Nat /\ least <= s /\ n \in Nat \ {0} /\ target \in Nat
        /\ t \in 0..100 /\ v \in 0..100 /\ h \in Nat /\ e \in Nat
    BY ProceedsAt, RiskAssumption, PercentNumbers DEF Position
  <1>2. proceeds = Back(s, t, v, n, target) /\ Profit(p, proceeds) = proceeds - s
    BY ProceedsAt
  <1>3. e * n <= h * (target - n)
    BY DEF Entered
  <1>4. /\ Covers(least, margin, AmountRounding(t, h))
        /\ \A k \in Candles : Covers(k.price, margin, PriceRounding(t, h))
    BY DEF MarginsPay
  <1>5. PICK k \in Candles : k.price <= n
    BY DEF Entered
  <1>6. k.price \in Nat
    BY ReplayAssumption
  <1>. HIDE DEF s, target, proceeds, n, t, v, h, e, least
  <1>7. margin \in Int /\ AmountRounding(t, h) \in Nat /\ PriceRounding(t, h) \in Nat
    <2>1. 100 - t \in Nat
      BY <1>1
    <2>. DEFINE u == 100 - t
    <2>. HIDE DEF u
    <2>2. (u * u) * ((h + e) * v) - 1000000 * h \in Int
      BY <1>1, <2>1 DEF u
    <2>3. 20000 * (u * h) \in Nat /\ 198 * ((u * u) * h) \in Nat
      BY <1>1, <2>1 DEF u
    <2>. QED BY <2>2, <2>3 DEF u, GainMargin, AmountRounding, PriceRounding
  <1>. HIDE DEF margin
  <1>8. Covers(s, margin, AmountRounding(t, h))
    BY <1>1, <1>4, <1>7, CoversMore
  <1>9. Covers(n, margin, PriceRounding(t, h))
    BY <1>1, <1>4, <1>5, <1>6, <1>7, CoversMore
  <1>10. Back(s, t, v, n, target) > s
    BY <1>1, <1>3, <1>8, <1>9, LargeGain DEF margin
  <1>11. Back(s, t, v, n, target) \in Nat
    BY <1>1, BackNat
  <1>12. Profit(p, proceeds) > 0
    BY <1>1, <1>2, <1>10, <1>11
  <1>. QED BY <1>12 DEF proceeds

\* Why a position ended decides whether it won.
LEMMA OutcomeOfReason ==
  ASSUME TypeOK, MarginsPay, mode # "legacy", NEW m \in Open, Entered(positions[m]),
         NEW c \in Candles, NEW gapped, NEW reason,
         reason = ExitReason(Aged(m, c), c, gapped), reason # "none"
  PROVE  reason = "target" <=> Profit(positions[m], Proceeds(positions[m], c, reason)) > 0
  <1>. DEFINE p == positions[m]
              q == Aged(m, c)
  <1>1. p \in Position /\ c.price \in Nat /\ c.low \in Nat
    BY OpenPosition, ReplayAssumption
  <1>2. q.stop = p.stop /\ q.target = p.target /\ q.entry = p.entry
    BY <1>1 DEF Aged, Position
  <1>3. p.stop \in Int /\ p.target \in Nat /\ p.entry \in Nat \ {0}
    BY <1>1 DEF Position
  <1>. HIDE DEF p, q
  <1>4. CASE reason = "stop"
    <2>1. c.low <= p.stop
      BY <1>2, <1>4 DEF q, ExitReason, IntrabarExit
    <2>2. ExitPrice(p, c, reason) = p.stop
      BY <1>4 DEF ExitPrice
    <2>3. p.stop \in Nat /\ p.stop <= p.entry
      BY <1>1, <1>3, <2>1 DEF p, Entered
    <2>4. ~(Profit(p, Proceeds(p, c, reason)) > 0)
      BY <1>1, <2>2, <2>3, StopSaleLoses DEF p
    <2>. QED BY <1>4, <2>4 DEF p
  <1>5. CASE reason = "target"
    <2>1. ExitPrice(p, c, reason) = p.target
      BY <1>5 DEF ExitPrice
    <2>2. Profit(p, Proceeds(p, c, reason)) > 0
      BY <1>1, <2>1, TargetSaleWins DEF p
    <2>. QED BY <1>5, <2>2 DEF p
  <1>6. CASE reason = "time"
    <2>1. TimeStopHit(Elapsed(q, gapped), q.entry, c.price, TimeStop, MinNetPct)
      BY <1>6 DEF q, ExitReason, IntrabarExit
    <2>2. TimeStop > 0 /\ (c.price - p.entry) * 100 <= (RoundTrip + MinNetPct) * p.entry
      BY <1>2, <2>1 DEF TimeStopHit
    <2>3. ExitPrice(p, c, reason) = c.price
      BY <1>6 DEF ExitPrice
    <2>4. Loses(MinNetPct) /\ MinNetPct \in Int
      BY <2>2, ReplayAssumption DEF MarginsPay
    <2>5. ~(Profit(p, Proceeds(p, c, reason)) > 0)
      BY <1>1, <2>2, <2>3, <2>4, LowSaleLoses DEF p
    <2>. QED BY <1>6, <2>5 DEF p
  <1>7. CASE reason = "breakeven"
    <2>1. BreakevenHit(q.peak, q.entry, c.price, c.atr, BeTrigger, BreakevenOffset(BeMarginPct))
      BY <1>7 DEF q, ExitReason, IntrabarExit
    <2>2. BeTrigger > 0 /\ c.price * 100 <= p.entry * (100 + BreakevenOffset(BeMarginPct))
      BY <1>2, <2>1 DEF BreakevenHit
    <2>3. (c.price - p.entry) * 100 <= (RoundTrip + BeMarginPct) * p.entry
      <3>. DEFINE d == RoundTrip + BeMarginPct
                  n == p.entry
                  k == c.price
      <3>1. d \in Nat /\ n \in Nat /\ k \in Nat
        BY <1>1, <1>3, PercentNumbers, ReplayAssumption
      <3>2. k * 100 <= n * (100 + d)
        BY <2>2 DEF BreakevenOffset
      <3>. HIDE DEF d, n, k
      <3>3. n * (100 + d) = n * 100 + d * n /\ d * n \in Nat
        BY <3>1
      <3>4. (k - n) * 100 <= d * n
        BY <3>1, <3>2, <3>3
      <3>. QED BY <3>4 DEF d, n, k
    <2>4. ExitPrice(p, c, reason) = c.price
      BY <1>7 DEF ExitPrice
    <2>5. Loses(BeMarginPct) /\ BeMarginPct \in Int
      BY <2>2, ReplayAssumption DEF MarginsPay
    <2>6. ~(Profit(p, Proceeds(p, c, reason)) > 0)
      BY <1>1, <2>3, <2>4, <2>5, LowSaleLoses DEF p
    <2>. QED BY <1>7, <2>6 DEF p
  <1>8. reason # "trend"
    BY DEF ExitReason, IntrabarExit
  <1>. QED BY <1>4, <1>5, <1>6, <1>7, <1>8, ReasonKnown DEF Reasons

LEMMA WinInit == Init => WinInv
  BY DEF Init, WinInv, Open, Reasons

\* A candle that is only counted changes nothing that was bought.
LEMMA EnteredAged ==
  ASSUME TypeOK, NEW m \in Open, NEW c \in Candles, Entered(positions[m])
  PROVE  Entered(Aged(m, c))
  <1>1. positions[m] \in Position
    BY OpenPosition
  <1>2. /\ Aged(m, c).invested = positions[m].invested /\ Aged(m, c).fees = positions[m].fees
        /\ Aged(m, c).entry = positions[m].entry /\ Aged(m, c).stop = positions[m].stop
        /\ Aged(m, c).target = positions[m].target
    BY <1>1 DEF Aged, Position
  <1>. QED BY <1>2 DEF Entered

LEMMA WinStep ==
  ASSUME MarginsPay, TypeOK, WinInv, [Next]_vars
  PROVE  WinInv'
  <1>. SUFFICES ASSUME mode' # "legacy"
                PROVE  /\ \A n \in Open' : Entered(positions'[n])
                       /\ wins' = exitReasons'["target"]
    BY DEF WinInv, Entered
  <1>0. mode' = mode
    <2>1. NextBar => mode' = mode
      BY DEF NextBar
    <2>2. \A m \in Markets : NoCandle(m) => mode' = mode
      BY DEF NoCandle, Visit
    <2>3. \A m \in Markets, c \in Candles :
             Hold(m, c) \/ Exit(m, c) \/ Enter(m, c) \/ Pass(m, c) => mode' = mode
      BY DEF Hold, Exit, Enter, Pass, See, Visit
    <2>4. UNCHANGED vars => mode' = mode
      BY DEF vars, clock
    <2>. QED BY <2>1, <2>2, <2>3, <2>4 DEF Next
  <1>1. (\A n \in Open : Entered(positions[n])) /\ wins = exitReasons["target"]
    BY <1>0 DEF WinInv
  <1>2. CASE UNCHANGED <<positions, wins, exitReasons>>
    BY <1>1, <1>2 DEF Open
  <1>3. ASSUME NEW m \in Markets, NEW c \in Candles, Hold(m, c)
        PROVE  (\A n \in Open' : Entered(positions'[n])) /\ wins' = exitReasons'["target"]
    <2>1. Entered(Aged(m, c))
      BY <1>1, <1>3, EnteredAged DEF Hold
    <2>2. positions' = [positions EXCEPT ![m] = Aged(m, c)]
      BY <1>3 DEF Hold
    <2>3. \A n \in Open' : Entered(positions'[n])
      BY <1>1, <2>1, <2>2 DEF Open, TypeOK
    <2>. QED BY <1>1, <1>3, <2>3 DEF Hold
  <1>4. ASSUME NEW m \in Markets, NEW c \in Candles, Exit(m, c)
        PROVE  (\A n \in Open' : Entered(positions'[n])) /\ wins' = exitReasons'["target"]
    <2>1. PICK reason : /\ reason = ExitReason(Aged(m, c), c, gap[m]) /\ reason # "none"
                        /\ Close(m, reason, Proceeds(positions[m], c, reason))
      BY <1>4 DEF Exit
    <2>. DEFINE pnl == Profit(positions[m], Proceeds(positions[m], c, reason))
    <2>2. reason = "target" <=> pnl > 0
      BY <1>0, <1>1, <1>4, <2>1, OutcomeOfReason DEF Exit
    <2>3. /\ wins' = IF pnl > 0 THEN wins + 1 ELSE wins
          /\ exitReasons' = [exitReasons EXCEPT ![reason] = @ + 1]
          /\ positions' = [positions EXCEPT ![m] = None]
      BY <2>1 DEF Close
    <2>. HIDE DEF pnl
    <2>4. reason \in Reasons
      BY <2>1, ReasonKnown
    <2>5. wins' = exitReasons'["target"]
      BY <1>1, <2>2, <2>3, <2>4 DEF TypeOK, Reasons
    <2>6. \A n \in Open' : Entered(positions'[n])
      BY <1>1, <2>3 DEF Open, TypeOK
    <2>. QED BY <2>5, <2>6
  <1>5. ASSUME NEW m \in Markets, NEW c \in Candles, Enter(m, c)
        PROVE  (\A n \in Open' : Entered(positions'[n])) /\ wins' = exitReasons'["target"]
    <2>1. positions' = [positions EXCEPT ![m] = Bought(c)] /\ wins' = wins
          /\ exitReasons' = exitReasons
      BY <1>5 DEF Enter, Bought
    <2>2. Entered(Bought(c))
      BY <1>0, <1>5, EnteredBought DEF Enter
    <2>3. \A n \in Open' : Entered(positions'[n])
      BY <1>1, <2>1, <2>2 DEF Open, TypeOK
    <2>. QED BY <1>1, <2>1, <2>3
  <1>6. CASE NextBar
    BY <1>2, <1>6 DEF NextBar, account
  <1>7. ASSUME NEW m \in Markets, NoCandle(m)
        PROVE  UNCHANGED <<positions, wins, exitReasons>>
    BY <1>7 DEF NoCandle, account
  <1>8. ASSUME NEW m \in Markets, NEW c \in Candles, Pass(m, c)
        PROVE  UNCHANGED <<positions, wins, exitReasons>>
    BY <1>8 DEF Pass, account
  <1>9. CASE UNCHANGED vars
    BY <1>2, <1>9 DEF vars, account
  <1>. QED BY <1>2, <1>3, <1>4, <1>5, <1>6, <1>7, <1>8, <1>9 DEF Next

\* Only targets win, for every history of candles, every number of markets and all
\* settings whose margins pay: the fee gate lets in no target that its costs eat, and stop,
\* time stop and breakeven stop are losses after costs (timestop.py, the win rate).
THEOREM WinsCorrect == MarginsPay => (Spec => []WinsAreTargets)
  <1>. SUFFICES ASSUME MarginsPay PROVE Spec => []WinsAreTargets
    OBVIOUS
  <1>1. TypeOK /\ WinInv /\ [Next]_vars => (TypeOK /\ WinInv)'
    BY TypeStep, WinStep
  <1>2. WinInv => WinsAreTargets
    BY DEF WinInv, WinsAreTargets
  <1>. QED BY <1>1, <1>2, TypeInit, WinInit, PTL DEF Spec
===============================================================================
