----------------------------- MODULE PaperBroker -----------------------------
(***************************************************************************)
(* The paper broker (paper.py) and the two jobs that trade through it: the *)
(* position guard, which only sells, and the analysis cycle, which sells   *)
(* and buys.  Each operation runs inside the lock of its market; cash and  *)
(* fees are one row each, shared by all markets.  A session reads outside  *)
(* a transaction; its transaction starts with its first write.             *)
(***************************************************************************)
EXTENDS Integers

CONSTANTS
    Markets,
    Guard, Cycle,   \* the two jobs
    Nobody,
    Start,          \* paper_start_eur
    Quotes,         \* EUR amounts the risk manager may ask for
    Drifts,         \* what a position gained or lost when it is sold
    MaxTrades       \* bound: trades that are made

Jobs == {Guard, Cycle}

ASSUME JobAssumption   == Guard # Cycle /\ Nobody \notin Jobs
ASSUME StartAssumption == Start \in Nat
\* An order is worth more than its fee and a sale never yields less than nothing.
ASSUME PriceAssumption ==
    /\ Quotes \subseteq Nat /\ Drifts \subseteq Int
    /\ \A q \in Quotes : q >= 2 /\ \A d \in Drifts : q + d >= 2

VARIABLES
    cash, fees,     \* KVRow paper_cash_eur and paper_fees_cumulative_eur
    pos,            \* PositionRow: what each open position cost after its fee, 0 when closed
    trades,         \* TradeRow: EUR received and paid, fees, and buys and sells per market
    holder,         \* the job inside the lock of each market
    seen,           \* the positions each job goes by
    todo,           \* the markets its loop still visits
    job             \* where each job is in a call of the broker

vars == <<cash, fees, pos, trades, holder, seen, todo, job>>

Fee == 1            \* taker fee of one order
Idle == [pc |-> "idle"]
Open == {m \in Markets : pos[m] > 0}

Calls ==
    {Idle} \cup [pc : {"refresh"}] \cup [pc : {"find", "sell", "buy"}, market : Markets]
           \cup [pc : {"sold"}, market : Markets, cash : Nat, net : Nat]
           \cup [pc : {"bought"}, market : Markets, cash : Nat, quote : Quotes]

TypeOK ==
    /\ cash \in Nat /\ fees \in Nat
    /\ pos \in [Markets -> Nat]
    /\ trades \in [eur : Int, fees : Nat, buys : [Markets -> Nat], sells : [Markets -> Nat],
                   made : Nat]
    /\ holder \in [Markets -> Jobs \cup {Nobody}]
    /\ seen \in [Jobs -> SUBSET Markets] /\ todo \in [Jobs -> SUBSET Markets]
    /\ job \in [Jobs -> Calls]

Init ==
    /\ cash = Start /\ fees = 0
    /\ pos = [m \in Markets |-> 0]
    /\ trades = [eur |-> 0, fees |-> 0, buys |-> [m \in Markets |-> 0],
                 sells |-> [m \in Markets |-> 0], made |-> 0]
    /\ holder = [m \in Markets |-> Nobody]
    /\ seen = [t \in Jobs |-> {}] /\ todo = [t \in Jobs |-> {}]
    /\ job = [t \in Jobs |-> Idle]

-------------------------------------------------------------------------------
(* The jobs. *)

\* A job starts: the guard visits the open positions, the cycle every market.
Look(t) ==
    /\ job[t] = Idle /\ todo[t] = {}
    /\ seen' = [seen EXCEPT ![t] = Open]
    /\ todo' = [todo EXCEPT ![t] = IF t = Guard THEN Open ELSE Markets]
    /\ UNCHANGED <<cash, fees, pos, trades, holder, job>>

\* No exit or entry here, no price, or MarketBusy.
Skip(t) ==
    /\ job[t] = Idle
    /\ \E m \in todo[t] : todo' = [todo EXCEPT ![t] = @ \ {m}]
    /\ UNCHANGED <<cash, fees, pos, trades, holder, seen, job>>

CallUnlocked(t) ==                                   \* mutant
    /\ job[t] = Idle
    /\ \E m \in todo[t] :
        /\ todo' = [todo EXCEPT ![t] = @ \ {m}]
        /\ holder' = [holder EXCEPT ![m] = t]
        /\ job' = [job EXCEPT ![t] = [pc |-> IF m \in seen[t] THEN "find" ELSE "buy",
                                      market |-> m]]
    /\ UNCHANGED <<cash, fees, pos, trades, seen>>

\* A position the job goes by is sold, in another market the cycle buys.
Call(t) ==
    /\ job[t] = Idle
    /\ \E m \in todo[t] :
        /\ holder[m] = Nobody
        /\ holder' = [holder EXCEPT ![m] = t]
        /\ todo' = [todo EXCEPT ![t] = @ \ {m}]
        /\ job' = [job EXCEPT ![t] = [pc |-> IF m \in seen[t] THEN "find" ELSE "buy",
                                      market |-> m]]
    /\ UNCHANGED <<cash, fees, pos, trades, seen>>

InCall(t) == job[t].pc \in {"find", "sell", "sold", "buy", "bought"}

\* The broker returns or raises. The cycle reads the positions again unless it failed.
Leave(t, ok) ==
    /\ holder' = [holder EXCEPT ![job[t].market] = Nobody]
    /\ job' = [job EXCEPT ![t] = IF ok /\ t = Cycle THEN [pc |-> "refresh"] ELSE Idle]

\* _refresh_after_trade
Refresh(t) ==
    /\ job[t].pc = "refresh"
    /\ seen' = [seen EXCEPT ![t] = Open]
    /\ job' = [job EXCEPT ![t] = Idle]
    /\ UNCHANGED <<cash, fees, pos, trades, holder, todo>>

FailHalfway(t) ==                                    \* mutant: cash and fees in a commit of their own
    /\ InCall(t) /\ Leave(t, FALSE)
    /\ IF job[t].pc = "sold" THEN fees' = fees + Fee ELSE UNCHANGED fees
    /\ UNCHANGED <<cash, pos, trades, seen, todo>>

\* No price, or the database stays locked: nothing is written.
Fail(t) ==
    /\ InCall(t) /\ Leave(t, FALSE)
    /\ UNCHANGED <<cash, fees, pos, trades, seen, todo>>

\* The process stops and starts again on the same database.
Restart ==
    /\ holder' = [m \in Markets |-> Nobody]
    /\ seen' = [t \in Jobs |-> {}] /\ todo' = [t \in Jobs |-> {}]
    /\ job' = [t \in Jobs |-> Idle]
    /\ UNCHANGED <<cash, fees, pos, trades>>

-------------------------------------------------------------------------------
(* PaperBroker.sell *)

SellFind(t) ==
    /\ job[t].pc = "find"
    /\ IF pos[job[t].market] > 0
       THEN /\ job' = [job EXCEPT ![t] = [pc |-> "sell", market |-> job[t].market]]
            /\ UNCHANGED holder
       ELSE Leave(t, TRUE)                           \* PositionGone
    /\ UNCHANGED <<cash, fees, pos, trades, seen, todo>>

\* The second session, after the price: position and cash.
SellRead(t) ==
    /\ job[t].pc = "sell"
    /\ LET m == job[t].market IN
       IF pos[m] > 0
       THEN /\ \E d \in Drifts :
                 job' = [job EXCEPT ![t] = [pc |-> "sold", market |-> m, cash |-> cash,
                                            net |-> pos[m] + d - Fee]]
            /\ UNCHANGED holder
       ELSE Leave(t, TRUE)
    /\ UNCHANGED <<cash, fees, pos, trades, seen, todo>>

\* The transaction: cash from the value read before, fees from the row as it is now.
SellWrite(t) ==
    /\ job[t].pc = "sold" /\ trades.made < MaxTrades
    /\ LET m == job[t].market IN
       /\ cash' = job[t].cash + job[t].net
       /\ fees' = fees + Fee
       /\ pos' = [pos EXCEPT ![m] = 0]
       /\ trades' = [trades EXCEPT !.eur = @ + job[t].net, !.fees = @ + Fee,
                                   !.sells[m] = @ + 1, !.made = @ + 1]
    /\ Leave(t, TRUE)
    /\ UNCHANGED <<seen, todo>>

(* PaperBroker.buy *)

BuyReadUnchecked(t) ==                               \* mutant
    /\ job[t].pc = "buy"
    /\ \E q \in Quotes :
        IF pos[job[t].market] > 0
        THEN Leave(t, FALSE)
        ELSE /\ job' = [job EXCEPT ![t] = [pc |-> "bought", market |-> job[t].market,
                                           cash |-> cash, quote |-> q]]
             /\ UNCHANGED holder
    /\ UNCHANGED <<cash, fees, pos, trades, seen, todo>>

BuyRead(t) ==
    /\ job[t].pc = "buy"
    /\ \E q \in Quotes :
        IF pos[job[t].market] > 0 \/ cash < q
        THEN Leave(t, FALSE)
        ELSE /\ job' = [job EXCEPT ![t] = [pc |-> "bought", market |-> job[t].market,
                                           cash |-> cash, quote |-> q]]
             /\ UNCHANGED holder
    /\ UNCHANGED <<cash, fees, pos, trades, seen, todo>>

BuyWrite(t) ==
    /\ job[t].pc = "bought" /\ trades.made < MaxTrades
    /\ LET m == job[t].market IN
       /\ cash' = job[t].cash - job[t].quote
       /\ fees' = fees + Fee
       /\ pos' = [pos EXCEPT ![m] = job[t].quote - Fee]
       /\ trades' = [trades EXCEPT !.eur = @ - job[t].quote, !.fees = @ + Fee,
                                   !.buys[m] = @ + 1, !.made = @ + 1]
    /\ Leave(t, TRUE)
    /\ UNCHANGED <<seen, todo>>

-------------------------------------------------------------------------------
Step(t) ==
    \/ Look(t) \/ Skip(t) \/ Call(t) \/ Refresh(t) \/ Fail(t)
    \/ SellFind(t) \/ SellRead(t) \/ SellWrite(t) \/ BuyRead(t) \/ BuyWrite(t)

Next == Restart \/ \E t \in Jobs : Step(t)

Spec == Init /\ [][Next]_vars

-------------------------------------------------------------------------------
\* Guard and cycle never both close a position and the cycle never opens one twice,
\* although both go by positions they read earlier: every sale ends the one buy.
PositionsFollowTrades ==
    \A m \in Markets :
        trades.buys[m] - trades.sells[m] = IF pos[m] > 0 THEN 1 ELSE 0

\* The cumulative fees are the fees of the trades, also when two markets trade at
\* the same time or an operation fails.
FeesFollowTrades == fees = trades.fees

\* The cash is the start amount with all trades, as tests/test_paper.py has it for
\* every trade by itself.
CashFollowsTrades == cash = Start + trades.eur
==============================================================================
