-------------------------- MODULE PaperBrokerProofs --------------------------
(***************************************************************************)
(* What the locks of the markets give the paper broker, for every number   *)
(* of markets, trades, amounts and prices.                                 *)
(***************************************************************************)
EXTENDS PaperBroker, TLAPS

\* A job that is in a call of the broker is the one inside the lock of the market.
HoldInv == \A t \in Jobs : InCall(t) => holder[job[t].market] = t

\* What an operation read of its position is still so when it writes, and a purchase
\* was covered by the cash that was read.
ReadInv ==
    \A t \in Jobs :
        /\ job[t].pc \in {"sell", "sold"} => pos[job[t].market] > 0
        /\ job[t].pc = "bought" => pos[job[t].market] = 0 /\ job[t].quote <= job[t].cash

\* A position is worth what was paid for it, so its sale yields something.
ValueInv == \A m \in Markets : pos[m] > 0 => pos[m] + Fee \in Quotes

IInv ==
    /\ TypeOK /\ HoldInv /\ ReadInv /\ ValueInv
    /\ PositionsFollowTrades /\ FeesFollowTrades

\* The fields of a call, by the label it is at.
LEMMA CallFields ==
  ASSUME TypeOK, NEW t \in Jobs
  PROVE  /\ InCall(t) => job[t].market \in Markets
         /\ job[t].pc = "sold" => job[t].cash \in Nat /\ job[t].net \in Nat
         /\ job[t].pc = "bought" => job[t].cash \in Nat /\ job[t].quote \in Quotes
  BY DEF TypeOK, Calls, Idle, InCall

\* How leaving an operation changes lock and label.
LEMMA LeaveFacts ==
  ASSUME IInv, NEW t \in Jobs, InCall(t), NEW ok \in BOOLEAN, Leave(t, ok)
  PROVE  /\ holder' \in [Markets -> Jobs \cup {Nobody}]
         /\ job' \in [Jobs -> Calls]
         /\ ~InCall(t)'
         /\ \A u \in Jobs : u # t => job'[u] = job[u]
         /\ \A m \in Markets : m # job[t].market => holder'[m] = holder[m]
         /\ \A u \in Jobs : u # t /\ InCall(u) => job[u].market # job[t].market
  <1>1. job[t].market \in Markets
    BY CallFields DEF IInv
  <1>2. holder' \in [Markets -> Jobs \cup {Nobody}]
    BY <1>1 DEF IInv, TypeOK, Leave
  <1>3. job' \in [Jobs -> Calls]
    BY DEF IInv, TypeOK, Leave, Calls, Idle
  <1>4. ~InCall(t)'
    BY DEF IInv, TypeOK, Leave, InCall, Idle
  <1>5. \A u \in Jobs : u # t => job'[u] = job[u]
    BY DEF IInv, TypeOK, Leave
  <1>6. \A m \in Markets : m # job[t].market => holder'[m] = holder[m]
    BY <1>1 DEF IInv, TypeOK, Leave
  <1>7. \A u \in Jobs : u # t /\ InCall(u) => job[u].market # job[t].market
    BY DEF IInv, HoldInv
  <1>. QED BY <1>2, <1>3, <1>4, <1>5, <1>6, <1>7

\* An operation that ends and leaves the positions of the other markets alone keeps
\* what the other job knows.
LEMMA LeaveKeeps ==
  ASSUME IInv, NEW t \in Jobs, InCall(t), NEW ok \in BOOLEAN, Leave(t, ok),
         \A m \in Markets : m # job[t].market => pos'[m] = pos[m]
  PROVE  HoldInv' /\ ReadInv'
  <1>. SUFFICES ASSUME NEW u \in Jobs
                PROVE  /\ InCall(u)' => holder'[job'[u].market] = u
                       /\ job'[u].pc \in {"sell", "sold"} => pos'[job'[u].market] > 0
                       /\ job'[u].pc = "bought" =>
                            /\ pos'[job'[u].market] = 0
                            /\ job'[u].quote <= job'[u].cash
    BY DEF HoldInv, ReadInv
  <1>1. CASE u = t
    BY <1>1, LeaveFacts DEF InCall
  <1>2. CASE u # t
    <2>1. job'[u] = job[u] /\ InCall(u)' = InCall(u)
      BY <1>2, LeaveFacts DEF InCall
    <2>2. InCall(u) => /\ job[u].market \in Markets
                       /\ holder'[job[u].market] = holder[job[u].market]
                       /\ pos'[job[u].market] = pos[job[u].market]
      BY <1>2, LeaveFacts, CallFields DEF IInv
    <2>. QED BY <2>1, <2>2 DEF IInv, HoldInv, ReadInv, InCall
  <1>. QED BY <1>1, <1>2

LEMMA InitInv == Init => IInv
  <1>. SUFFICES ASSUME Init PROVE IInv
    OBVIOUS
  <1>1. TypeOK
    BY StartAssumption DEF Init, TypeOK, Calls, Idle
  <1>2. \A t \in Jobs : job[t].pc = "idle"
    BY DEF Init, Idle
  <1>3. HoldInv /\ ReadInv
    BY <1>2 DEF HoldInv, ReadInv, InCall
  <1>4. ValueInv /\ PositionsFollowTrades /\ FeesFollowTrades
    BY DEF Init, ValueInv, PositionsFollowTrades, FeesFollowTrades
  <1>. QED BY <1>1, <1>3, <1>4 DEF IInv

\* Steps outside of the broker.
LEMMA OutsideInv ==
  ASSUME IInv, Restart \/ \E t \in Jobs : Look(t) \/ Skip(t) \/ Refresh(t)
  PROVE  IInv'
  <1>1. CASE Restart
    BY <1>1 DEF Restart, IInv, TypeOK, HoldInv, ReadInv, ValueInv, PositionsFollowTrades,
                FeesFollowTrades, Calls, Idle, InCall
  <1>2. ASSUME NEW t \in Jobs, Look(t) \/ Skip(t) PROVE IInv'
    BY <1>2 DEF Look, Skip, Open, IInv, TypeOK, HoldInv, ReadInv, ValueInv, PositionsFollowTrades,
                FeesFollowTrades, InCall
  <1>3. ASSUME NEW t \in Jobs, Refresh(t) PROVE IInv'
    BY <1>3 DEF Refresh, Open, IInv, TypeOK, HoldInv, ReadInv, ValueInv, PositionsFollowTrades,
                FeesFollowTrades, InCall, Calls, Idle
  <1>. QED BY <1>1, <1>2, <1>3

LEMMA CallInv == ASSUME IInv, NEW t \in Jobs, Call(t) PROVE IInv'
  <1>1. PICK m \in todo[t] :
          /\ holder[m] = Nobody
          /\ holder' = [holder EXCEPT ![m] = t]
          /\ todo' = [todo EXCEPT ![t] = @ \ {m}]
          /\ job' = [job EXCEPT ![t] = [pc |-> IF m \in seen[t] THEN "find" ELSE "buy",
                                        market |-> m]]
    BY DEF Call
  <1>2. m \in Markets
    BY DEF IInv, TypeOK
  <1>3. TypeOK'
    BY <1>1, <1>2 DEF IInv, TypeOK, Call, Calls
  <1>4. \A u \in Jobs : u # t => job'[u] = job[u]
    BY <1>1 DEF IInv, TypeOK
  <1>5. job'[t].market = m /\ job'[t].pc \in {"find", "buy"}
    BY <1>1 DEF IInv, TypeOK
  <1>6. \A u \in Jobs : u # t /\ InCall(u) => job[u].market \in Markets /\ job[u].market # m
    BY <1>1, CallFields, JobAssumption DEF IInv, HoldInv
  <1>7. HoldInv'
    BY <1>1, <1>2, <1>4, <1>5, <1>6 DEF IInv, TypeOK, HoldInv, InCall
  <1>8. ReadInv'
    BY <1>4, <1>5 DEF IInv, ReadInv, Call
  <1>9. ValueInv' /\ PositionsFollowTrades' /\ FeesFollowTrades'
    BY DEF IInv, Call, ValueInv, PositionsFollowTrades, FeesFollowTrades
  <1>. QED BY <1>3, <1>7, <1>8, <1>9 DEF IInv

\* Steps inside an operation that change nothing but its label and what it read.
LEMMA ReadKeeps ==
  ASSUME IInv, NEW t \in Jobs, InCall(t), NEW c \in Calls,
         job' = [job EXCEPT ![t] = c], c.market = job[t].market,
         UNCHANGED <<cash, fees, pos, trades, holder, seen, todo>>,
         c.pc \in {"sell", "sold"} => pos[c.market] > 0,
         c.pc = "bought" => pos[c.market] = 0 /\ c.quote <= c.cash
  PROVE  IInv'
  <1>1. job'[t] = c /\ \A u \in Jobs : u # t => job'[u] = job[u]
    BY DEF IInv, TypeOK
  <1>2. TypeOK'
    BY DEF IInv, TypeOK
  <1>3. HoldInv'
    BY <1>1 DEF IInv, HoldInv, InCall
  <1>4. ReadInv'
    BY <1>1 DEF IInv, ReadInv
  <1>. QED BY <1>2, <1>3, <1>4 DEF IInv, ValueInv, PositionsFollowTrades, FeesFollowTrades

\* An operation that ends without writing.
LEMMA LeaveInv ==
  ASSUME IInv, NEW t \in Jobs, InCall(t), NEW ok \in BOOLEAN, Leave(t, ok),
         UNCHANGED <<cash, fees, pos, trades, seen, todo>>
  PROVE  IInv'
  <1>1. HoldInv' /\ ReadInv'
    BY LeaveKeeps
  <1>2. TypeOK'
    BY LeaveFacts DEF IInv, TypeOK
  <1>. QED BY <1>1, <1>2 DEF IInv, ValueInv, PositionsFollowTrades, FeesFollowTrades

LEMMA FailInv == ASSUME IInv, NEW t \in Jobs, Fail(t) PROVE IInv'
  BY LeaveInv DEF Fail

LEMMA SellFindInv == ASSUME IInv, NEW t \in Jobs, SellFind(t) PROVE IInv'
  <1>1. InCall(t)
    BY DEF SellFind, InCall
  <1>2. CASE pos[job[t].market] > 0
    <2>. DEFINE c == [pc |-> "sell", market |-> job[t].market]
    <2>1. c \in Calls
      BY <1>1, CallFields DEF IInv, Calls
    <2>2. job' = [job EXCEPT ![t] = c]
      BY <1>2 DEF SellFind
    <2>3. c.market = job[t].market /\ c.pc = "sell"
      OBVIOUS
    <2>. HIDE DEF c
    <2>. QED BY <1>1, <1>2, <2>1, <2>2, <2>3, ReadKeeps DEF SellFind
  <1>3. CASE ~(pos[job[t].market] > 0)
    BY <1>1, <1>3, LeaveInv DEF SellFind
  <1>. QED BY <1>2, <1>3

LEMMA SellReadInv == ASSUME IInv, NEW t \in Jobs, SellRead(t) PROVE IInv'
  <1>1. InCall(t)
    BY DEF SellRead, InCall
  <1>. DEFINE m == job[t].market
  <1>2. m \in Markets
    BY <1>1, CallFields DEF IInv
  <1>3. CASE pos[m] > 0
    <2>1. PICK d \in Drifts :
            job' = [job EXCEPT ![t] = [pc |-> "sold", market |-> m, cash |-> cash,
                                       net |-> pos[m] + d - Fee]]
      BY <1>3 DEF SellRead
    <2>. DEFINE c == [pc |-> "sold", market |-> m, cash |-> cash, net |-> pos[m] + d - Fee]
    <2>2. pos[m] + d - Fee \in Nat
      BY <1>2, <1>3, PriceAssumption DEF IInv, TypeOK, ValueInv, Fee
    <2>3. c \in Calls
      BY <1>2, <2>2 DEF IInv, TypeOK, Calls
    <2>4. c.market = job[t].market /\ c.pc = "sold"
      OBVIOUS
    <2>. HIDE DEF c
    <2>. QED BY <1>1, <1>3, <2>1, <2>3, <2>4, ReadKeeps DEF SellRead, c
  <1>4. CASE ~(pos[m] > 0)
    BY <1>1, <1>4, LeaveInv DEF SellRead
  <1>. QED BY <1>3, <1>4

\* The sale is booked once, from the position that was read.
LEMMA SellWriteInv == ASSUME IInv, NEW t \in Jobs, SellWrite(t) PROVE IInv'
  <1>1. InCall(t)
    BY DEF SellWrite, InCall
  <1>. DEFINE m == job[t].market
  <1>2. /\ m \in Markets /\ job[t].cash \in Nat /\ job[t].net \in Nat
        /\ pos[m] > 0 /\ pos \in [Markets -> Nat] /\ job[t].pc = "sold"
    BY <1>1, CallFields DEF IInv, TypeOK, ReadInv, SellWrite
  <1>3. /\ cash' = job[t].cash + job[t].net
        /\ fees' = fees + Fee
        /\ pos' = [pos EXCEPT ![m] = 0]
        /\ trades' = [trades EXCEPT !.eur = @ + job[t].net, !.fees = @ + Fee,
                                    !.sells[m] = @ + 1, !.made = @ + 1]
        /\ Leave(t, TRUE)
        /\ UNCHANGED <<seen, todo>>
    BY DEF SellWrite
  <1>. HIDE DEF m
  <1>4. HoldInv' /\ ReadInv'
    BY <1>1, <1>2, <1>3, LeaveKeeps DEF m
  <1>5. TypeOK'
    <2>1. trades' \in [eur : Int, fees : Nat, buys : [Markets -> Nat],
                       sells : [Markets -> Nat], made : Nat]
      <3>1. /\ trades.eur \in Int /\ trades.fees \in Nat /\ trades.made \in Nat
            /\ trades.buys \in [Markets -> Nat] /\ trades.sells \in [Markets -> Nat]
        BY DEF IInv, TypeOK
      <3>2. [trades.sells EXCEPT ![m] = @ + 1] \in [Markets -> Nat]
        BY <1>2, <3>1
      <3>3. trades' = [eur |-> trades.eur + job[t].net, fees |-> trades.fees + Fee,
                       buys |-> trades.buys,
                       sells |-> [trades.sells EXCEPT ![m] = @ + 1],
                       made |-> trades.made + 1]
        BY <1>3 DEF IInv, TypeOK
      <3>4. /\ trades.eur + job[t].net \in Int /\ trades.fees + Fee \in Nat
            /\ trades.made + 1 \in Nat
        BY <1>2, <3>1 DEF Fee
      <3>. QED BY <3>1, <3>2, <3>3, <3>4
    <2>2. cash' \in Nat /\ fees' \in Nat /\ pos' \in [Markets -> Nat]
      BY <1>2, <1>3 DEF IInv, TypeOK, Fee
    <2>3. /\ holder' \in [Markets -> Jobs \cup {Nobody}]
          /\ job' \in [Jobs -> Calls]
      BY <1>1, <1>3, LeaveFacts
    <2>. QED BY <1>3, <2>1, <2>2, <2>3 DEF IInv, TypeOK
  <1>6. ValueInv'
    BY <1>2, <1>3 DEF IInv, ValueInv
  <1>7. PositionsFollowTrades'
    BY <1>2, <1>3 DEF IInv, TypeOK, PositionsFollowTrades
  <1>8. FeesFollowTrades'
    BY <1>3 DEF IInv, TypeOK, FeesFollowTrades
  <1>. QED BY <1>4, <1>5, <1>6, <1>7, <1>8 DEF IInv

LEMMA BuyReadInv == ASSUME IInv, NEW t \in Jobs, BuyRead(t) PROVE IInv'
  <1>1. InCall(t)
    BY DEF BuyRead, InCall
  <1>. DEFINE m == job[t].market
  <1>2. m \in Markets /\ pos[m] \in Nat /\ cash \in Nat
    BY <1>1, CallFields DEF IInv, TypeOK
  <1>3. PICK q \in Quotes :
          IF pos[m] > 0 \/ cash < q
          THEN Leave(t, FALSE)
          ELSE /\ job' = [job EXCEPT ![t] = [pc |-> "bought", market |-> m,
                                             cash |-> cash, quote |-> q]]
               /\ UNCHANGED holder
    BY DEF BuyRead
  <1>4. CASE pos[m] > 0 \/ cash < q
    BY <1>1, <1>3, <1>4, LeaveInv DEF BuyRead
  <1>5. CASE ~(pos[m] > 0 \/ cash < q)
    <2>. DEFINE c == [pc |-> "bought", market |-> m, cash |-> cash, quote |-> q]
    <2>1. c \in Calls
      BY <1>2 DEF Calls
    <2>2. c.market = job[t].market /\ c.pc = "bought" /\ pos[c.market] = 0 /\ c.quote <= c.cash
      BY <1>2, <1>5, PriceAssumption
    <2>3. job' = [job EXCEPT ![t] = c] /\ UNCHANGED holder
      BY <1>3, <1>5
    <2>. HIDE DEF c
    <2>. QED BY <1>1, <2>1, <2>2, <2>3, ReadKeeps DEF BuyRead
  <1>. QED BY <1>4, <1>5

\* The purchase opens a position where there is none, with cash that was there.
LEMMA BuyWriteInv == ASSUME IInv, NEW t \in Jobs, BuyWrite(t) PROVE IInv'
  <1>1. InCall(t)
    BY DEF BuyWrite, InCall
  <1>. DEFINE m == job[t].market
  <1>. DEFINE q == job[t].quote
  <1>2. /\ m \in Markets /\ job[t].cash \in Nat /\ q \in Quotes /\ q <= job[t].cash
        /\ pos[m] = 0 /\ pos \in [Markets -> Nat] /\ job[t].pc = "bought"
    BY <1>1, CallFields DEF IInv, TypeOK, ReadInv, BuyWrite
  <1>3. /\ cash' = job[t].cash - q
        /\ fees' = fees + Fee
        /\ pos' = [pos EXCEPT ![m] = q - Fee]
        /\ trades' = [trades EXCEPT !.eur = @ - q, !.fees = @ + Fee,
                                    !.buys[m] = @ + 1, !.made = @ + 1]
        /\ Leave(t, TRUE)
        /\ UNCHANGED <<seen, todo>>
    BY DEF BuyWrite
  <1>. HIDE DEF m, q
  <1>4. HoldInv' /\ ReadInv'
    BY <1>1, <1>2, <1>3, LeaveKeeps DEF m
  <1>a. q \in Nat
    BY <1>2, PriceAssumption
  <1>5. TypeOK'
    <2>1. trades' \in [eur : Int, fees : Nat, buys : [Markets -> Nat],
                       sells : [Markets -> Nat], made : Nat]
      <3>1. /\ trades.eur \in Int /\ trades.fees \in Nat /\ trades.made \in Nat
            /\ trades.buys \in [Markets -> Nat] /\ trades.sells \in [Markets -> Nat]
        BY DEF IInv, TypeOK
      <3>2. [trades.buys EXCEPT ![m] = @ + 1] \in [Markets -> Nat]
        BY <1>2, <3>1
      <3>3. trades' = [eur |-> trades.eur - q, fees |-> trades.fees + Fee,
                       buys |-> [trades.buys EXCEPT ![m] = @ + 1],
                       sells |-> trades.sells,
                       made |-> trades.made + 1]
        BY <1>3 DEF IInv, TypeOK
      <3>4. /\ trades.eur - q \in Int /\ trades.fees + Fee \in Nat
            /\ trades.made + 1 \in Nat
        BY <1>2, <1>a, <3>1 DEF Fee
      <3>. QED BY <3>1, <3>2, <3>3, <3>4
    <2>2. cash' \in Nat /\ fees' \in Nat /\ pos' \in [Markets -> Nat]
      BY <1>2, <1>3, <1>a, PriceAssumption DEF IInv, TypeOK, Fee
    <2>3. /\ holder' \in [Markets -> Jobs \cup {Nobody}]
          /\ job' \in [Jobs -> Calls]
      BY <1>1, <1>3, LeaveFacts
    <2>. QED BY <1>3, <2>1, <2>2, <2>3 DEF IInv, TypeOK
  <1>6. ValueInv'
    BY <1>2, <1>3, <1>a DEF IInv, ValueInv, Fee
  <1>7. PositionsFollowTrades'
    BY <1>2, <1>3, <1>a, PriceAssumption DEF IInv, TypeOK, PositionsFollowTrades, Fee
  <1>8. FeesFollowTrades'
    BY <1>3 DEF IInv, TypeOK, FeesFollowTrades
  <1>. QED BY <1>4, <1>5, <1>6, <1>7, <1>8 DEF IInv

LEMMA StepInv == IInv /\ [Next]_vars => IInv'
  <1>. SUFFICES ASSUME IInv, [Next]_vars PROVE IInv'
    OBVIOUS
  <1>1. CASE UNCHANGED vars
    BY <1>1 DEF vars, IInv, TypeOK, HoldInv, ReadInv, ValueInv, PositionsFollowTrades,
                FeesFollowTrades, InCall
  <1>2. CASE Restart
    BY <1>2, OutsideInv
  <1>3. ASSUME NEW t \in Jobs, Step(t) PROVE IInv'
    BY <1>3, OutsideInv, CallInv, FailInv, SellFindInv, SellReadInv, SellWriteInv,
       BuyReadInv, BuyWriteInv DEF Step
  <1>. QED BY <1>1, <1>2, <1>3 DEF Next

\* The invariant holds in every state.
THEOREM Invariant == Spec => []IInv
  BY InitInv, StepInv, PTL DEF Spec

\* No position is opened or closed twice, whatever the jobs read before they had the
\* lock of the market.
THEOREM PositionsCorrect == Spec => []PositionsFollowTrades
  <1>1. IInv => PositionsFollowTrades
    BY DEF IInv
  <1>. QED BY <1>1, Invariant, PTL

\* The cumulative fees are those of the trades.
THEOREM FeesCorrect == Spec => []FeesFollowTrades
  <1>1. IInv => FeesFollowTrades
    BY DEF IInv
  <1>. QED BY <1>1, Invariant, PTL

\* The paper cash never gets below zero, though writes of it can be lost.
THEOREM TypeCorrect == Spec => []TypeOK
  <1>1. IInv => TypeOK
    BY DEF IInv
  <1>. QED BY <1>1, Invariant, PTL
==============================================================================
