------------------------- MODULE TradingCycleProofs --------------------------
(***************************************************************************)
(* What the engine keeps for every number of markets and every limit: the  *)
(* kill switch lets one buy through, and in paper mode slots and clusters  *)
(* are respected although guard and user act while the cycle works.        *)
(***************************************************************************)
EXTENDS TradingCycle, TLAPS, FiniteSetTheorems, WellFoundedInduction

\* Between these labels and the call of the broker the cycle reads nothing again.
Deciding == {"gate", "advise", "buy"}

\* A job that works on a market has one.
MarketInv ==
    \A t \in Jobs : pc[t] \in Deciding \cup {"exit", "failed"} => market[t] \in Markets

TypeInv == TypeOK /\ MarketInv

\* A buy that has passed the switch is the first one after any pause.
LateInv ==
    /\ late <= 1
    /\ ~paused => late = 0
    /\ pc[Cycle] \in {"advise", "buy"} => late = 0

\* In paper mode nothing opens positions but the cycle, so those it goes by include
\* the open ones until it has bought.
PaperInv ==
    /\ \A t \in Jobs : pc[t] \notin {"reconcile", "pause", "pausing", "protect"}
    /\ pc[Cycle] \in Deciding \cup {"next", "exit", "failed"} => open \subseteq positions
    /\ pc[Cycle] \in Deciding => Cardinality(positions) < MaxOpen
    /\ pc[Cycle] = "buy" => Cardinality(Neighbours(market[Cycle])) < MaxCluster
    /\ SlotsRespected

\* Every set of markets is finite.
LEMMA MarketsFinite ==
  ASSUME NEW S \in SUBSET Markets
  PROVE  IsFiniteSet(S) /\ Cardinality(S) \in Nat
  BY ModeAssumption, FS_Subset, FS_CardinalityType

LEMMA SubsetSmaller ==
  ASSUME NEW S \in SUBSET Markets, NEW T \in SUBSET S
  PROVE  Cardinality(T) <= Cardinality(S)
  BY MarketsFinite, FS_Subset

-----------------------------------------------------------------------------
(* Types *)

\* The position of a job after a step of it.
LEMMA MoveInv ==
  ASSUME TypeInv, NEW t \in Jobs, NEW label \in Labels, NEW m \in Markets \cup {NoMarket},
         label \in Deciding \cup {"exit", "failed"} => m \in Markets,
         Move(t, label, m)
  PROVE  /\ pc' \in [Jobs -> Labels] /\ market' \in [Jobs -> Markets \cup {NoMarket}]
         /\ MarketInv'
  BY DEF TypeInv, TypeOK, MarketInv, Move, Between, Deciding

LEMMA GotoInv ==
  ASSUME TypeInv, NEW t \in Jobs, NEW label \in Labels,
         label \in Deciding \cup {"exit", "failed"} => market[t] \in Markets,
         Goto(t, label)
  PROVE  /\ pc' \in [Jobs -> Labels] /\ market' \in [Jobs -> Markets \cup {NoMarket}]
         /\ queue' \in [Jobs -> SUBSET Markets] /\ MarketInv'
  <1>1. market[t] \in Markets \cup {NoMarket} /\ queue' \in [Jobs -> SUBSET Markets]
    BY DEF TypeInv, TypeOK, Goto
  <1>. QED BY <1>1, MoveInv DEF Goto

LEMMA LoopInv ==
  ASSUME TypeInv, NEW t \in Jobs, NEW S \in SUBSET Markets,
         NEW label \in Labels \ (Deciding \cup {"exit", "failed"}), Loop(t, S, label)
  PROVE  /\ pc' \in [Jobs -> Labels] /\ market' \in [Jobs -> Markets \cup {NoMarket}]
         /\ queue' \in [Jobs -> SUBSET Markets] /\ MarketInv'
  <1>1. queue' \in [Jobs -> SUBSET Markets]
    BY DEF TypeInv, TypeOK, Loop
  <1>. QED BY <1>1, MoveInv DEF Loop

LEMMA VisitInv ==
  ASSUME TypeInv, NEW t \in Jobs, NEW m \in Markets, NEW label \in Labels,
         Visit(t, m, label)
  PROVE  /\ pc' \in [Jobs -> Labels] /\ market' \in [Jobs -> Markets \cup {NoMarket}]
         /\ queue' \in [Jobs -> SUBSET Markets] /\ MarketInv'
  <1>1. queue' \in [Jobs -> SUBSET Markets]
    BY DEF TypeInv, TypeOK, Visit
  <1>. QED BY <1>1, MoveInv DEF Visit

LEMMA SettleInv ==
  ASSUME TypeInv, NEW m \in Markets, NEW clear \in BOOLEAN, Settle(m, clear),
         m \in open \cup unknown
  PROVE  open' \subseteq Markets /\ unknown' \subseteq IF Live THEN Markets ELSE {}
  BY DEF TypeInv, TypeOK, Settle

LEMMA CommonType ==
  ASSUME TypeInv, NEW t \in Jobs, Common(t)
  PROVE  TypeInv'
  <1>. USE DEF vars, broker, cycle, loop
  <1>1. CASE IsPaused(t)
    BY <1>1, GotoInv DEF IsPaused, After, TypeInv, TypeOK, Labels, Deciding
  <1>2. CASE SetPaused(t)
    BY <1>2, GotoInv DEF SetPaused, After, TypeInv, TypeOK, Labels, Deciding
  <1>3. CASE Sell(t)
    BY <1>3, GotoInv DEF Sell, Sold, TypeInv, TypeOK, Labels, Deciding
  <1>4. CASE SellFails(t)
    <2>1. market[t] \in Markets
      BY <1>4 DEF SellFails, TypeInv, MarketInv
    <2>. QED BY <1>4, <2>1, GotoInv DEF SellFails, TypeInv, TypeOK, Labels
  <1>5. CASE ExitFailed(t)
    <2>1. market[t] \in Markets
      BY <1>5 DEF ExitFailed, TypeInv, MarketInv
    <2>. QED BY <1>5, <2>1, GotoInv DEF ExitFailed, TypeInv, TypeOK, Labels
  <1>. QED BY <1>1, <1>2, <1>3, <1>4, <1>5 DEF Common

\* Both jobs wait for the scheduler.
LEMMA IdleInv ==
  /\ [t \in Jobs |-> "idle"] \in [Jobs -> Labels]
  /\ [t \in Jobs |-> NoMarket] \in [Jobs -> Markets \cup {NoMarket}]
  /\ [t \in Jobs |-> {}] \in [Jobs -> SUBSET Markets]
  /\ "idle" \notin Deciding \cup {"exit", "failed"}
  <1>1. "idle" \in Labels /\ "idle" \notin Deciding \cup {"exit", "failed"}
    BY DEF Labels, Deciding
  <1>. QED BY <1>1

LEMMA TypeInit ==
  Init => TypeInv
  <1>. SUFFICES ASSUME Init PROVE TypeInv
    OBVIOUS
  <1>1. /\ pc \in [Jobs -> Labels] /\ market \in [Jobs -> Markets \cup {NoMarket}]
        /\ queue \in [Jobs -> SUBSET Markets]
    BY IdleInv DEF Init
  <1>2. MarketInv
    BY IdleInv DEF Init, MarketInv
  <1>3. open \subseteq Markets /\ unknown \subseteq IF Live THEN Markets ELSE {}
    BY DEF Init
  <1>4. alerted \subseteq Markets /\ positions \subseteq Markets /\ candles \subseteq Markets
    BY DEF Init
  <1>5. /\ paused \in BOOLEAN /\ due \in BOOLEAN /\ problem \in BOOLEAN
        /\ late \in Nat /\ restarts \in Nat
    BY DEF Init
  <1>. QED BY <1>1, <1>2, <1>3, <1>4, <1>5 DEF TypeInv, TypeOK

LEMMA CycleType ==
  ASSUME TypeInv, CycleStep
  PROVE  TypeInv'
  <1>. USE DEF broker, cycle, loop
  <1>0. Cycle \in Jobs /\ TypeOK /\ queue[Cycle] \subseteq Markets
    BY DEF Jobs, TypeInv, TypeOK
  <1>1. CASE StartCycle
    BY <1>0, <1>1, LoopInv DEF StartCycle, TypeInv, TypeOK, Labels, Deciding
  <1>2. CASE ReconcileMarket
    <2>. PICK m \in queue[Cycle], clear \in BOOLEAN :
           /\ Settle(m, clear)
           /\ problem' = (problem \/ ~clear)
           /\ queue' = [queue EXCEPT ![Cycle] = @ \ {m}]
      BY <1>2 DEF ReconcileMarket
    <2>1. m \in Markets
      BY <1>0
    <2>2. open' \subseteq Markets /\ unknown' \subseteq IF Live THEN Markets ELSE {}
      BY <2>1, <1>0 DEF Settle, TypeOK
    <2>3. problem' \in BOOLEAN
      BY <1>0 DEF TypeOK
    <2>4. queue' \in [Jobs -> SUBSET Markets]
      BY <1>0 DEF TypeOK
    <2>5. MarketInv'
      BY <1>2 DEF ReconcileMarket, TypeInv, MarketInv
    <2>. QED BY <1>0, <1>2, <2>2, <2>3, <2>4, <2>5 DEF ReconcileMarket, TypeInv, TypeOK
  <1>3. CASE ReconcileBalances
    BY <1>0, <1>3, GotoInv DEF ReconcileBalances, TypeInv, TypeOK, Labels, Deciding
  <1>4. CASE Read
    BY <1>0, <1>4, LoopInv DEF Read, TypeInv, TypeOK, Labels, Deciding
  <1>5. CASE Pass
    BY <1>0, <1>5, VisitInv DEF Pass, TypeInv, TypeOK, Labels
  <1>6. CASE Exit
    BY <1>0, <1>6, VisitInv DEF Exit, TypeInv, TypeOK, Labels
  <1>7. CASE Decide
    BY <1>0, <1>7, VisitInv DEF Decide, TypeInv, TypeOK, Labels
  <1>8. ASSUME pc[Cycle] \in Deciding
        PROVE  market[Cycle] \in Markets
    BY <1>0, <1>8 DEF TypeInv, MarketInv
  <1>9. CASE Gate
    BY <1>0, <1>8, <1>9, GotoInv DEF Gate, TypeInv, TypeOK, Labels, Deciding
  <1>10. CASE Advise
    BY <1>0, <1>8, <1>10, GotoInv DEF Advise, TypeInv, TypeOK, Labels, Deciding
  <1>11. BuyStarts => late' \in Nat
    BY <1>0 DEF BuyStarts, TypeOK
  <1>12. CASE Buy
    <2>1. market[Cycle] \in Markets
      BY <1>8, <1>12 DEF Buy, Deciding
    <2>. QED BY <1>0, <1>11, <1>12, <2>1, GotoInv DEF Buy, TypeInv, TypeOK, Labels
  <1>13. CASE BuyFails
    <2>1. market[Cycle] \in Markets
      BY <1>8, <1>13 DEF BuyFails, Deciding
    <2>2. open' \subseteq Markets /\ unknown' \subseteq IF Live THEN Markets ELSE {}
      BY <1>0, <1>13, <2>1, SettleInv DEF BuyFails, TypeOK
    <2>. QED BY <1>0, <1>11, <1>13, <2>1, <2>2, GotoInv DEF BuyFails, TypeInv, TypeOK, Labels
  <1>14. CASE BuyUnknown
    <2>1. market[Cycle] \in Markets
      BY <1>8, <1>14 DEF BuyUnknown, Deciding
    <2>. QED BY <1>0, <1>11, <1>14, <2>1, GotoInv DEF BuyUnknown, TypeInv, TypeOK, Labels
  <1>15. CASE Refresh
    BY <1>0, <1>15, GotoInv DEF Refresh, TypeInv, TypeOK, Labels, Deciding
  <1>16. CASE EndCycle
    BY <1>0, <1>16, LoopInv DEF EndCycle, TypeInv, TypeOK, Labels, Deciding
  <1>17. CASE Common(Cycle)
    BY <1>0, <1>17, CommonType
  <1>. QED BY <1>1, <1>2, <1>3, <1>4, <1>5, <1>6, <1>7, <1>9, <1>10, <1>12, <1>13, <1>14,
              <1>15, <1>16, <1>17 DEF CycleStep

LEMMA GuardType ==
  ASSUME TypeInv, GuardStep
  PROVE  TypeInv'
  <1>. USE DEF broker, cycle, loop
  <1>0. Guard \in Jobs /\ TypeOK /\ queue[Guard] \subseteq Markets
    BY DEF Jobs, TypeInv, TypeOK
  <1>1. CASE StartGuard
    BY <1>0, <1>1, LoopInv DEF StartGuard, TypeInv, TypeOK, Labels, Deciding
  <1>2. CASE Protect
    <2>. DEFINE m == First(queue[Guard])
    <2>1. open' \subseteq Markets /\ unknown' \subseteq IF Live THEN Markets ELSE {}
      BY <1>0, <1>2, SettleInv DEF Protect, TypeOK
    <2>2. Move(Guard, "protect", NoMarket)
      BY <1>2 DEF Protect, Visit, Move, Between
    <2>3. queue' \in [Jobs -> SUBSET Markets]
      BY <1>0, <1>2 DEF Protect, Visit, TypeOK
    <2>4. /\ pc' \in [Jobs -> Labels] /\ market' \in [Jobs -> Markets \cup {NoMarket}]
          /\ MarketInv'
      BY <1>0, <2>2, MoveInv DEF Labels, Deciding
    <2>. QED BY <1>0, <1>2, <2>1, <2>3, <2>4 DEF Protect, TypeInv, TypeOK
  <1>3. CASE Protected
    BY <1>0, <1>3, GotoInv DEF Protected, TypeInv, TypeOK, Labels, Deciding
  <1>4. CASE Look
    BY <1>0, <1>4, LoopInv DEF Look, TypeInv, TypeOK, Labels, Deciding
  <1>5. CASE Watch
    <2>1. Move(Guard, "next", NoMarket)
      BY <1>5 DEF Watch, Visit, Move, Between
    <2>2. queue' \in [Jobs -> SUBSET Markets]
      BY <1>0, <1>5 DEF Watch, Visit, TypeOK
    <2>3. /\ pc' \in [Jobs -> Labels] /\ market' \in [Jobs -> Markets \cup {NoMarket}]
          /\ MarketInv'
      BY <1>0, <2>1, MoveInv DEF Labels, Deciding
    <2>. QED BY <1>0, <1>5, <2>2, <2>3 DEF Watch, TypeInv, TypeOK
  <1>6. ASSUME NEW m \in Markets, Hit(m)
        PROVE  TypeInv'
    BY <1>0, <1>6, VisitInv DEF Hit, TypeInv, TypeOK, Labels
  <1>7. CASE EndGuard
    BY <1>0, <1>7, LoopInv DEF EndGuard, TypeInv, TypeOK, Labels, Deciding
  <1>8. CASE Common(Guard)
    BY <1>0, <1>8, CommonType
  <1>. QED BY <1>1, <1>2, <1>3, <1>4, <1>5, <1>6, <1>7, <1>8 DEF GuardStep

\* The user, the clock and a restart.
Outside == UserPauses \/ UserResumes \/ HourPasses \/ AlertExpires \/ Restart

LEMMA OutsideType ==
  ASSUME TypeInv, Outside
  PROVE  TypeInv'
  <1>. USE DEF broker, cycle, loop
  <1>1. CASE UserPauses
    BY <1>1 DEF UserPauses, TypeInv, TypeOK, MarketInv
  <1>2. CASE UserResumes
    BY <1>2 DEF UserResumes, TypeInv, TypeOK, MarketInv
  <1>3. CASE HourPasses
    BY <1>3 DEF HourPasses, TypeInv, TypeOK, MarketInv
  <1>4. CASE AlertExpires
    BY <1>4 DEF AlertExpires, TypeInv, TypeOK, MarketInv
  <1>5. CASE Restart
    <2>1. /\ pc' \in [Jobs -> Labels] /\ market' \in [Jobs -> Markets \cup {NoMarket}]
          /\ queue' \in [Jobs -> SUBSET Markets]
      BY <1>5, IdleInv DEF Restart
    <2>2. MarketInv'
      BY <1>5, IdleInv DEF Restart, MarketInv
    <2>3. alerted' \subseteq Markets /\ positions' \subseteq Markets /\ candles' \subseteq Markets
      BY <1>5 DEF Restart
    <2>4. due' \in BOOLEAN /\ problem' \in BOOLEAN /\ restarts' \in Nat
      <3>1. restarts \in Nat /\ restarts' = restarts + 1
        BY <1>5 DEF Restart, TypeInv, TypeOK
      <3>2. restarts' \in Nat
        BY <3>1
      <3>3. due' = TRUE /\ problem' = FALSE
        BY <1>5 DEF Restart
      <3>4. due' \in BOOLEAN /\ problem' \in BOOLEAN
        BY <3>3
      <3>. QED BY <3>2, <3>4
    <2>5. /\ open' \subseteq Markets /\ unknown' \subseteq IF Live THEN Markets ELSE {}
          /\ paused' \in BOOLEAN /\ late' \in Nat
      BY <1>5 DEF Restart, TypeInv, TypeOK
    <2>. QED BY <2>1, <2>2, <2>3, <2>4, <2>5 DEF TypeInv, TypeOK
  <1>. QED BY <1>1, <1>2, <1>3, <1>4, <1>5 DEF Outside

LEMMA TypeStep ==
  ASSUME TypeInv, [Next]_vars
  PROVE  TypeInv'
  <1>1. CASE UNCHANGED vars
    BY <1>1 DEF vars, broker, cycle, loop, TypeInv, TypeOK, MarketInv
  <1>. QED BY <1>1, CycleType, GuardType, OutsideType DEF Next, Outside

\* Every market of the model keeps its type, in paper and in live mode.
THEOREM TypeCorrect == Spec => []TypeOK
  <1>1. TypeInv => TypeOK
    BY DEF TypeInv
  <1>. QED BY <1>1, TypeInit, TypeStep, PTL DEF Spec

-----------------------------------------------------------------------------
(* The kill switch *)

LEMMA LateStep ==
  ASSUME TypeInv, LateInv, [Next]_vars
  PROVE  LateInv'
  <1>. USE DEF broker, cycle, loop
  <1>0. /\ late \in Nat /\ paused \in BOOLEAN /\ pc \in [Jobs -> Labels]
        /\ Cycle \in Jobs /\ Guard \in Jobs /\ Cycle # Guard
    BY JobAssumption DEF TypeInv, TypeOK, Jobs
  <1>1. ASSUME UNCHANGED <<late, paused>>, pc'[Cycle] \in {"advise", "buy"} => late = 0
        PROVE  LateInv'
    BY <1>1 DEF LateInv
  <1>2. ASSUME UNCHANGED <<late, paused>>, NEW t \in Jobs, NEW label \in Labels, NEW m,
               Move(t, label, m), label \notin {"advise", "buy"}
        PROVE  LateInv'
    BY <1>0, <1>2 DEF LateInv, Move
  <1>3. ASSUME NEW t \in Jobs, Common(t)
        PROVE  LateInv'
    <2>1. CASE IsPaused(t)
      BY <1>0, <1>2, <2>1 DEF IsPaused, Goto, After, Labels
    <2>2. CASE SetPaused(t)
      BY <1>0, <2>2 DEF SetPaused, Goto, Move, After, LateInv
    <2>3. CASE Sell(t)
      BY <1>0, <1>2, <2>3 DEF Sell, Goto, Sold, Labels
    <2>4. CASE SellFails(t)
      BY <1>0, <1>2, <2>4 DEF SellFails, Goto, Labels
    <2>5. CASE ExitFailed(t)
      BY <1>0, <1>2, <2>5 DEF ExitFailed, Goto, Labels
    <2>. QED BY <1>3, <2>1, <2>2, <2>3, <2>4, <2>5 DEF Common
  <1>4. CASE CycleStep
    <2>1. CASE StartCycle
      BY <1>0, <1>2, <2>1 DEF StartCycle, Loop, Labels
    <2>2. CASE ReconcileMarket
      BY <1>0, <1>1, <2>2 DEF ReconcileMarket
    <2>3. CASE ReconcileBalances
      BY <1>0, <1>2, <2>3 DEF ReconcileBalances, Goto, Labels
    <2>4. CASE Read
      BY <1>0, <1>2, <2>4 DEF Read, Loop, Labels
    <2>5. CASE Pass
      BY <1>0, <1>2, <2>5 DEF Pass, Visit, Labels
    <2>6. CASE Exit
      BY <1>0, <1>2, <2>6 DEF Exit, Visit, Labels
    <2>7. CASE Decide
      BY <1>0, <1>2, <2>7 DEF Decide, Visit, Labels
    <2>8. CASE Gate
      BY <1>0, <2>8 DEF Gate, Goto, Move, LateInv
    <2>9. CASE Advise
      BY <1>0, <2>9 DEF Advise, Goto, Move, LateInv
    <2>10. CASE Buy
      BY <1>0, <2>10 DEF Buy, BuyStarts, Goto, Move, LateInv
    <2>11. CASE BuyFails
      BY <1>0, <2>11 DEF BuyFails, BuyStarts, Goto, Move, LateInv
    <2>12. CASE BuyUnknown
      BY <1>0, <2>12 DEF BuyUnknown, BuyStarts, Goto, Move, LateInv
    <2>13. CASE Refresh
      BY <1>0, <1>2, <2>13 DEF Refresh, Goto, Labels
    <2>14. CASE EndCycle
      BY <1>0, <1>2, <2>14 DEF EndCycle, Loop, Labels
    <2>. QED BY <1>0, <1>3, <1>4, <2>1, <2>2, <2>3, <2>4, <2>5, <2>6, <2>7, <2>8, <2>9,
                <2>10, <2>11, <2>12, <2>13, <2>14 DEF CycleStep
  <1>5. CASE GuardStep
    <2>1. CASE StartGuard
      BY <1>0, <1>2, <2>1 DEF StartGuard, Loop, Labels
    <2>2. CASE Protect
      BY <1>0, <1>2, <2>2 DEF Protect, Visit, Labels
    <2>3. CASE Protected
      BY <1>0, <1>2, <2>3 DEF Protected, Goto, Labels
    <2>4. CASE Look
      BY <1>0, <1>2, <2>4 DEF Look, Loop, Labels
    <2>5. CASE Watch
      BY <1>0, <1>2, <2>5 DEF Watch, Visit, Labels
    <2>6. ASSUME NEW m \in Markets, Hit(m)
          PROVE  LateInv'
      BY <1>0, <1>2, <2>6 DEF Hit, Visit, Labels
    <2>7. CASE EndGuard
      BY <1>0, <1>2, <2>7 DEF EndGuard, Loop, Labels
    <2>. QED BY <1>0, <1>3, <1>5, <2>1, <2>2, <2>3, <2>4, <2>5, <2>6, <2>7 DEF GuardStep
  <1>6. CASE UserPauses
    BY <1>6 DEF UserPauses, LateInv
  <1>7. CASE UserResumes
    BY <1>7 DEF UserResumes, LateInv
  <1>8. CASE HourPasses
    BY <1>8 DEF HourPasses, LateInv
  <1>9. CASE AlertExpires
    BY <1>9 DEF AlertExpires, LateInv
  <1>10. CASE Restart
    BY <1>0, <1>10 DEF Restart, LateInv
  <1>11. CASE UNCHANGED vars
    BY <1>11 DEF vars, LateInv
  <1>. QED BY <1>4, <1>5, <1>6, <1>7, <1>8, <1>9, <1>10, <1>11 DEF Next

\* However the user, the guard and the reconciliation pause and resume while the cycle
\* deliberates, each pause lets at most one buy through that had passed the switch.
THEOREM OneLateBuy == Spec => []AtMostOneLateBuy
  <1>1. Init => LateInv
    <2>1. Cycle \in Jobs
      BY DEF Jobs
    <2>. QED BY <2>1 DEF Init, LateInv
  <1>2. LateInv => AtMostOneLateBuy
    BY DEF LateInv, AtMostOneLateBuy
  <1>. QED BY <1>1, <1>2, TypeInit, TypeStep, LateStep, PTL DEF Spec

-----------------------------------------------------------------------------
(* Slots and clusters in paper mode *)

\* A set of positions that only loses some is respected as well.
LEMMA FewerOpen ==
  ASSUME TypeInv, SlotsRespected, open' \subseteq open
  PROVE  SlotsRespected'
  <1>1. Cardinality(open') <= Cardinality(open) /\ Cardinality(open) \in Nat
        /\ Cardinality(open') \in Nat
    BY SubsetSmaller, MarketsFinite DEF TypeInv, TypeOK
  <1>. QED BY <1>1, LimitAssumption DEF SlotsRespected

\* A step of the guard or a job that is not about to buy only closes positions, and
\* the cycle stays where it is.
LEMMA AsideInv ==
  ASSUME TypeInv, PaperInv, open' \subseteq open, UNCHANGED cycle,
         pc' \in [Jobs -> Labels], market'[Cycle] = market[Cycle], pc'[Cycle] = pc[Cycle],
         pc'[Guard] \notin {"reconcile", "pause", "pausing", "protect"}
  PROVE  PaperInv'
  <1>1. SlotsRespected'
    BY FewerOpen DEF PaperInv
  <1>2. Neighbours(market[Cycle])' = Neighbours(market[Cycle])
    BY DEF Neighbours, cycle
  <1>. QED BY <1>1, <1>2 DEF PaperInv, Neighbours, cycle, Jobs

\* The same for the cycle when it goes to a label from which it does not buy.
LEMMA AwayInv ==
  ASSUME TypeInv, PaperInv, open' \subseteq open, UNCHANGED positions, NEW label \in Labels,
         label \notin {"reconcile", "pause", "pausing", "protect"} \cup Deciding,
         label \in {"next", "exit", "failed"} => open \subseteq positions,
         pc' = [pc EXCEPT ![Cycle] = label]
  PROVE  PaperInv'
  <1>1. SlotsRespected'
    BY FewerOpen DEF PaperInv
  <1>2. pc'[Cycle] = label /\ \A t \in Jobs : pc'[t] \in {label, pc[t]}
    BY DEF TypeInv, TypeOK, Jobs
  <1>. QED BY <1>1, <1>2 DEF PaperInv, Deciding

LEMMA PaperCycle ==
  ASSUME ~Live, TypeInv, PaperInv, CycleStep
  PROVE  PaperInv'
  <1>. USE DEF broker, cycle, loop
  <1>0. /\ Cycle \in Jobs /\ pc \in [Jobs -> Labels] /\ unknown = {}
        /\ open \subseteq Markets /\ positions \subseteq Markets
    BY DEF Jobs, TypeInv, TypeOK
  <1>1. pc[Cycle] \notin {"reconcile", "pause", "pausing", "protect"}
    BY <1>0 DEF PaperInv
  <1>2. ASSUME NEW label \in Labels, open' \subseteq open, UNCHANGED positions,
               label \notin {"reconcile", "pause", "pausing", "protect"} \cup Deciding,
               label \in {"next", "exit", "failed"} => open \subseteq positions,
               NEW m, Move(Cycle, label, m)
        PROVE  PaperInv'
    BY <1>2, AwayInv DEF Move
  <1>3. CASE Common(Cycle)
    <2>1. CASE Sell(Cycle)
      BY <1>2, <2>1 DEF Sell, Sold, Goto, Labels, Deciding
    <2>2. CASE SellFails(Cycle)
      BY <1>2, <2>2 DEF SellFails, Goto, Labels, Deciding, PaperInv
    <2>3. CASE ExitFailed(Cycle)
      BY <1>2, <2>3 DEF ExitFailed, Goto, Labels, Deciding, PaperInv
    <2>. QED BY <1>1, <1>3, <2>1, <2>2, <2>3 DEF Common, IsPaused, SetPaused
  <1>4. CASE StartCycle
    BY <1>2, <1>4 DEF StartCycle, Loop, Labels, Deciding
  <1>5. CASE Read
    <2>1. pc' = [pc EXCEPT ![Cycle] = "next"] /\ positions' = open /\ open' = open
      BY <1>5 DEF Read, Loop, Move
    <2>2. SlotsRespected'
      BY <2>1 DEF PaperInv, SlotsRespected
    <2>. QED BY <1>0, <2>1, <2>2 DEF PaperInv, Deciding
  <1>6. CASE Pass
    BY <1>2, <1>6 DEF Pass, Visit, Labels, Deciding, PaperInv
  <1>7. CASE Exit
    BY <1>2, <1>7 DEF Exit, Visit, Labels, Deciding, PaperInv
  <1>8. CASE Decide
    <2>1. /\ pc' = [pc EXCEPT ![Cycle] = "gate"] /\ UNCHANGED <<open, positions>>
          /\ Cardinality(positions) < MaxOpen /\ pc[Cycle] = "next"
      BY <1>8 DEF Decide, Visit, Move
    <2>2. SlotsRespected'
      BY <2>1 DEF PaperInv, SlotsRespected
    <2>. QED BY <1>0, <2>1, <2>2 DEF PaperInv, Deciding
  <1>9. CASE Gate
    <2>1. /\ pc[Cycle] = "gate" /\ UNCHANGED <<open, positions>>
          /\ \E label \in {"next", "advise"} : pc' = [pc EXCEPT ![Cycle] = label]
      BY <1>9 DEF Gate, Goto, Move
    <2>2. SlotsRespected'
      BY <2>1 DEF PaperInv, SlotsRespected
    <2>. QED BY <1>0, <2>1, <2>2 DEF PaperInv, Deciding
  <1>10. CASE Advise
    <2>1. /\ pc[Cycle] = "advise" /\ UNCHANGED <<open, positions, candles>>
      BY <1>10 DEF Advise
    <2>2. \/ pc' = [pc EXCEPT ![Cycle] = "next"]
          \/ /\ pc' = [pc EXCEPT ![Cycle] = "buy"]
             /\ market' = [market EXCEPT ![Cycle] = market[Cycle]]
             /\ Cardinality(Neighbours(market[Cycle])) < MaxCluster
      BY <1>10 DEF Advise, Goto, Move, Between
    <2>3. SlotsRespected'
      BY <2>1 DEF PaperInv, SlotsRespected
    <2>4. market \in [Jobs -> Markets \cup {NoMarket}]
      BY DEF TypeInv, TypeOK
    <2>. QED BY <1>0, <2>1, <2>2, <2>3, <2>4 DEF PaperInv, Deciding, Neighbours
  <1>11. CASE Buy
    <2>. DEFINE m == market[Cycle]
    <2>1. /\ pc' = [pc EXCEPT ![Cycle] = "refresh"] /\ open' = open \cup {m}
          /\ open \subseteq positions /\ Cardinality(positions) < MaxOpen
      BY <1>11 DEF Buy, Goto, Move, PaperInv, Deciding
    <2>2. IsFiniteSet(open) /\ Cardinality(open) <= Cardinality(positions)
      BY <1>0, <2>1, SubsetSmaller, MarketsFinite
    <2>3. Cardinality(open') <= Cardinality(open) + 1
      <3>. HIDE DEF m
      <3>1. CASE m \in open
        <4>1. open' = open /\ Cardinality(open) \in Nat
          BY <2>1, <2>2, <3>1, FS_CardinalityType
        <4>. QED BY <4>1
      <3>2. CASE m \notin open
        <4>1. Cardinality(open \cup {m}) = Cardinality(open) + 1
          BY <2>2, <3>2, FS_AddElement
        <4>2. Cardinality(open) \in Nat
          BY <2>2, FS_CardinalityType
        <4>. QED BY <2>1, <4>1, <4>2
      <3>. QED BY <3>1, <3>2
    <2>4. Cardinality(open') \in Nat /\ Cardinality(open) \in Nat /\ Cardinality(positions) \in Nat
      <3>1. open' \subseteq Markets
        BY CycleType DEF TypeInv, TypeOK
      <3>. QED BY <1>0, <3>1, MarketsFinite
    <2>5. SlotsRespected'
      BY <2>1, <2>2, <2>3, <2>4, LimitAssumption DEF SlotsRespected
    <2>. QED BY <1>0, <2>1, <2>5 DEF PaperInv, Deciding
  <1>12. CASE BuyFails
    BY <1>0, <1>2, <1>12 DEF BuyFails, Goto, Labels, Deciding, PaperInv
  <1>13. CASE Refresh
    <2>1. pc' = [pc EXCEPT ![Cycle] = "next"] /\ positions' = open /\ open' = open
      BY <1>13 DEF Refresh, Goto, Move
    <2>2. SlotsRespected'
      BY <2>1 DEF PaperInv, SlotsRespected
    <2>. QED BY <1>0, <2>1, <2>2 DEF PaperInv, Deciding
  <1>14. CASE EndCycle
    <2>1. pc' = [pc EXCEPT ![Cycle] = "idle"] /\ open' = open
      BY <1>14 DEF EndCycle, Loop, Move
    <2>2. SlotsRespected'
      BY <2>1 DEF PaperInv, SlotsRespected
    <2>. QED BY <1>0, <2>1, <2>2 DEF PaperInv, Deciding
  <1>. QED BY <1>1, <1>3, <1>4, <1>5, <1>6, <1>7, <1>8, <1>9, <1>10, <1>11, <1>12, <1>13,
              <1>14 DEF CycleStep, ReconcileMarket, ReconcileBalances, BuyUnknown

LEMMA PaperGuard ==
  ASSUME ~Live, TypeInv, PaperInv, GuardStep
  PROVE  PaperInv'
  <1>. USE DEF broker, cycle, loop
  <1>0. /\ Guard \in Jobs /\ Cycle \in Jobs /\ Cycle # Guard
        /\ pc \in [Jobs -> Labels] /\ market \in [Jobs -> Markets \cup {NoMarket}]
    BY JobAssumption DEF Jobs, TypeInv, TypeOK
  <1>1. pc[Guard] \notin {"reconcile", "pause", "pausing", "protect"}
    BY <1>0 DEF PaperInv
  <1>2. ASSUME NEW label \in Labels, open' \subseteq open, UNCHANGED cycle,
               label \notin {"reconcile", "pause", "pausing", "protect"},
               NEW m, Move(Guard, label, m)
        PROVE  PaperInv'
    <2>1. /\ pc' \in [Jobs -> Labels] /\ market'[Cycle] = market[Cycle]
          /\ pc'[Cycle] = pc[Cycle] /\ pc'[Guard] = label
      BY <1>0, <1>2 DEF Move
    <2>. QED BY <1>2, <2>1, AsideInv
  <1>3. CASE Common(Guard)
    <2>1. CASE Sell(Guard)
      BY <1>0, <1>2, <2>1 DEF Sell, Sold, Goto, Labels
    <2>2. CASE SellFails(Guard)
      BY <1>2, <2>2 DEF SellFails, Goto, Labels
    <2>3. CASE ExitFailed(Guard)
      BY <1>2, <2>3 DEF ExitFailed, Goto, Labels
    <2>. QED BY <1>1, <1>3, <2>1, <2>2, <2>3 DEF Common, IsPaused, SetPaused
  <1>4. CASE StartGuard
    BY <1>2, <1>4 DEF StartGuard, Loop, Labels
  <1>5. CASE Look
    BY <1>2, <1>5 DEF Look, Loop, Labels
  <1>6. CASE Watch
    BY <1>2, <1>6 DEF Watch, Visit, Labels
  <1>7. ASSUME NEW m \in Markets, Hit(m)
        PROVE  PaperInv'
    BY <1>2, <1>7 DEF Hit, Visit, Labels
  <1>8. CASE EndGuard
    BY <1>2, <1>8 DEF EndGuard, Loop, Labels
  <1>. QED BY <1>1, <1>3, <1>4, <1>5, <1>6, <1>7, <1>8 DEF GuardStep, Protect, Protected

LEMMA PaperOutside ==
  ASSUME TypeInv, PaperInv, Outside \/ UNCHANGED vars
  PROVE  PaperInv'
  <1>. USE DEF broker, cycle, loop
  <1>1. CASE Restart
    <2>1. /\ pc' = [t \in Jobs |-> "idle"] /\ open' = open
          /\ Cycle \in Jobs
      BY <1>1 DEF Restart, Jobs
    <2>2. SlotsRespected'
      BY <2>1 DEF PaperInv, SlotsRespected
    <2>. QED BY <2>1, <2>2 DEF PaperInv, Deciding
  <1>2. CASE UNCHANGED <<open, pc, market, positions, candles>>
    BY <1>2 DEF PaperInv, SlotsRespected, Neighbours
  <1>. QED BY <1>1, <1>2 DEF Outside, UserPauses, UserResumes, HourPasses, AlertExpires, vars

LEMMA PaperInit ==
  Init => PaperInv
  <1>. SUFFICES ASSUME Init PROVE PaperInv
    OBVIOUS
  <1>1. /\ pc = [t \in Jobs |-> "idle"] /\ open = {} /\ Cycle \in Jobs
    BY DEF Init, Jobs
  <1>2. SlotsRespected
    BY <1>1, FS_EmptySet, LimitAssumption DEF SlotsRespected
  <1>. QED BY <1>1, <1>2 DEF PaperInv, Deciding

LEMMA PaperStep ==
  ASSUME ~Live, TypeInv, PaperInv, [Next]_vars
  PROVE  PaperInv'
  BY PaperCycle, PaperGuard, PaperOutside DEF Next, Outside

\* In paper mode there are never more positions than slots, whatever guard, user and
\* restarts do between the moment the cycle counts and the moment it buys.
THEOREM SlotsCorrect ==
  ASSUME ~Live
  PROVE  Spec => []SlotsRespected
  <1>1. PaperInv => SlotsRespected
    BY DEF PaperInv
  <1>2. TypeInv /\ PaperInv /\ [Next]_vars => PaperInv'
    BY PaperStep
  <1>. QED BY <1>1, <1>2, TypeInit, TypeStep, PaperInit, PTL DEF Spec

\* In paper mode a buy never adds to a cluster that is full at the moment of the buy.
THEOREM ClusterCorrect ==
  ASSUME ~Live
  PROVE  Spec => []ClusterRespected
  <1>1. TypeInv /\ PaperInv => ClusterRespected
    <2>. SUFFICES ASSUME TypeInv, PaperInv, pc[Cycle] = "buy"
                  PROVE  Cardinality({p \in open \cap candles :
                                        {market[Cycle], p} \in Correlated}) < MaxCluster
      BY DEF ClusterRespected
    <2>. DEFINE S == Neighbours(market[Cycle])
                T == {p \in open \cap candles : {market[Cycle], p} \in Correlated}
    <2>1. S \in SUBSET Markets /\ T \in SUBSET S
      BY DEF Neighbours, PaperInv, Deciding, TypeInv, TypeOK
    <2>2. Cardinality(T) <= Cardinality(S) /\ Cardinality(S) < MaxCluster
      BY <2>1, SubsetSmaller DEF PaperInv
    <2>3. Cardinality(S) \in Nat /\ Cardinality(T) \in Nat
      <3>1. T \in SUBSET Markets
        BY <2>1
      <3>. QED BY <2>1, <3>1, MarketsFinite
    <2>. HIDE DEF S, T
    <2>4. Cardinality(T) < MaxCluster
      BY <2>2, <2>3, LimitAssumption
    <2>. QED BY <2>4 DEF T
  <1>2. TypeInv /\ PaperInv /\ [Next]_vars => PaperInv'
    BY PaperStep
  <1>. QED BY <1>1, <1>2, TypeInit, TypeStep, PaperInit, PTL DEF Spec

-----------------------------------------------------------------------------
(* How long the runs of the two jobs are: the steps they have to go *)

\* Steps from a label to the end of a visit to one market ...
visit == [next |-> 0, refresh |-> 1, pausing |-> 1, pause |-> 2, buy |-> 2,
          failed |-> 3, advise |-> 3, gate |-> 4, exit |-> 4]

\* ... and, before the loop over the markets, to its start.
start == [read |-> 2, look |-> 2, pausing |-> 3, protect |-> 3, pause |-> 4, reconcile |-> 5]

\* The pause switch is used in the loop, after a failed exit, and before it, by the
\* reconciliation, which is about no market.
InLoop(l, m) == l \in DOMAIN visit /\ (l \in {"pause", "pausing"} => m # NoMarket)

\* The loop takes no more than five steps for each market, and one to end.
LeftOf(l, m, q) ==
    IF l = "idle" THEN 0
    ELSE IF InLoop(l, m) THEN 5 * Cardinality(q) + visit[l] + 1
    ELSE 5 * Cardinality(Markets) + start[l]
         + IF l \in {"reconcile", "protect"} THEN Cardinality(q) ELSE 0

\* Steps of job t to the end of its run
RunLeft(t) == LeftOf(pc[t], market[t], queue[t])

StepOf(t) == IF t = Cycle THEN CycleStep ELSE GuardStep

\* Nothing the other job, the user or the clock does makes the run of a job longer, and each of
\* its own steps, failures included, brings it nearer to its end.
RunAdvances ==
    [][\A t \in Jobs : pc[t] # "idle" =>
          /\ RunLeft(t)' <= RunLeft(t)
          /\ StepOf(t) => RunLeft(t)' < RunLeft(t)]_vars

\* The longest run: that of a cycle that reconciles every market first
RunBounded == \A t \in Jobs : RunLeft(t) <= 6 * Cardinality(Markets) + 5

\* A job is at a label of its own, where one of its steps goes on whatever the other one, the
\* user and the exchange did: the cycle passes a market or its buy fails, the guard passes it
\* or its exit fails.
RunNotStuck ==
    /\ pc[Cycle] \in {"idle", "reconcile", "read"} \cup DOMAIN visit
    /\ pc[Guard] \in {"idle", "protect", "look", "next", "exit", "failed"}
       \/ (pc[Guard] \in {"pause", "pausing"} /\ market[Guard] # NoMarket)

\* Before its loop, and outside of its runs, a job has no market.
RunInv ==
    /\ RunNotStuck
    /\ \A t \in Jobs : pc[t] \in {"idle", "reconcile", "read", "protect", "look"} =>
          market[t] = NoMarket

\* A set of markets has a first one.
LEMMA FirstMarket ==
  ASSUME NEW S \in SUBSET Markets, S # {}
  PROVE  First(S) \in S
  <1>. DEFINE R == OpToRel(<, Nat)
  <1>. HIDE DEF R
  <1>0. S \subseteq Nat
    BY MarketAssumption
  <1>1. PICK x \in S : \A y \in S : ~(<<y, x>> \in R)
    <2>1. IsWellFoundedOn(R, Nat)
      BY NatLessThanWellFounded, Zenon DEF R
    <2>. QED BY <1>0, <2>1, WFMin, Zenon
  <1>2. ASSUME NEW y \in S PROVE x <= y
    <2>1. x \in Nat /\ y \in Nat
      BY <1>0
    <2>2. ~(y < x)
      BY <1>1, <2>1, Zenon DEF R, OpToRel
    <2>. QED BY <2>1, <2>2
  <1>. QED BY <1>1, <1>2 DEF First

\* What a step of job t makes of its label and its market, and leaves of those of the other.
LEMMA RunMove ==
  ASSUME TypeInv, RunInv, NEW t \in Jobs, NEW l \in Labels, NEW m \in Markets \cup {NoMarket},
         Move(t, l, m),
         t = Cycle => l \in {"idle", "reconcile", "read"} \cup DOMAIN visit,
         t = Guard => \/ l \in {"idle", "protect", "look", "next", "exit", "failed"}
                      \/ l \in {"pause", "pausing"} /\ m # NoMarket,
         l \in {"idle", "reconcile", "read", "look"} => m = NoMarket
  PROVE  RunInv'
  <1>1. /\ pc'[t] = l /\ market'[t] = IF l \in Between THEN NoMarket ELSE m
        /\ \A u \in Jobs \ {t} : pc'[u] = pc[u] /\ market'[u] = market[u]
    BY DEF Move, TypeInv, TypeOK
  <1>2. Cycle \in Jobs /\ Guard \in Jobs /\ Cycle # Guard /\ t \in {Cycle, Guard}
    BY JobAssumption DEF Jobs
  <1>3. RunNotStuck'
    <2>1. CASE t = Cycle
      BY <1>1, <1>2, <2>1 DEF RunInv, RunNotStuck
    <2>2. CASE t = Guard
      BY <1>1, <1>2, <2>2 DEF RunInv, RunNotStuck, Between
    <2>. QED BY <1>2, <2>1, <2>2
  <1>4. \A u \in Jobs : pc'[u] \in {"idle", "reconcile", "read", "protect", "look"} =>
           market'[u] = NoMarket
    BY <1>1 DEF RunInv, Between
  <1>. QED BY <1>3, <1>4 DEF RunInv

LEMMA RunCommon ==
  ASSUME TypeInv, RunInv, NEW t \in Jobs, Common(t)
  PROVE  RunInv'
  <1>1. market[t] \in Markets \cup {NoMarket} /\ t \in {Cycle, Guard} /\ Cycle # Guard
    BY JobAssumption DEF TypeInv, TypeOK, Jobs
  <1>2. CASE IsPaused(t) \/ SetPaused(t)
    BY <1>1, <1>2, RunMove DEF IsPaused, SetPaused, Goto, After, Labels, visit, RunInv, RunNotStuck
  <1>3. CASE Sell(t) \/ SellFails(t)
    BY <1>1, <1>3, RunMove DEF Sell, SellFails, Sold, Goto, Labels, visit
  <1>4. CASE ExitFailed(t)
    <2>1. market[t] # NoMarket
      BY <1>4, MarketAssumption DEF ExitFailed, TypeInv, MarketInv
    <2>. QED BY <1>1, <1>4, <2>1, RunMove DEF ExitFailed, Goto, Labels, visit
  <1>. QED BY <1>2, <1>3, <1>4 DEF Common

LEMMA RunStay ==
  ASSUME RunInv, UNCHANGED <<pc, market>>
  PROVE  RunInv'
  BY DEF RunInv, RunNotStuck

LEMMA RunInvStep ==
  ASSUME TypeInv, RunInv, [Next]_vars
  PROVE  RunInv'
  <1>0. /\ Cycle \in Jobs /\ Guard \in Jobs /\ Cycle # Guard
        /\ market \in [Jobs -> Markets \cup {NoMarket}]
        /\ queue[Cycle] \subseteq Markets /\ queue[Guard] \subseteq Markets
    BY JobAssumption DEF TypeInv, TypeOK, Jobs
  <1>1. CASE StartCycle \/ ReconcileBalances \/ Read
    BY <1>0, <1>1, RunMove DEF StartCycle, ReconcileBalances, Read, Loop, Goto, Labels, visit, RunInv
  <1>2. CASE ReconcileMarket
    BY <1>2, RunStay DEF ReconcileMarket
  <1>3. CASE Pass \/ Exit \/ Decide
    BY <1>0, <1>3, RunMove DEF Pass, Exit, Decide, Visit, Labels, visit
  <1>4. CASE Gate \/ Advise \/ Buy \/ BuyFails \/ BuyUnknown \/ Refresh
    BY <1>0, <1>4, RunMove DEF Gate, Advise, Buy, BuyFails, BuyUnknown, Refresh, Goto, Labels, visit
  <1>5. CASE EndCycle
    BY <1>0, <1>5, RunMove DEF EndCycle, Loop, Labels
  <1>6. CASE StartGuard \/ Look \/ EndGuard
    BY <1>0, <1>6, RunMove DEF StartGuard, Look, EndGuard, Loop, Labels
  <1>7. CASE Protected
    BY <1>0, <1>7, RunMove DEF Protected, Goto, Labels, RunInv
  <1>8. CASE Protect \/ Watch \/ \E m \in Markets : Hit(m)
    <2>. DEFINE m == First(queue[Guard])
    <2>1. m \in Markets
      BY <1>0, <1>8, FirstMarket DEF Protect, Watch, Hit
    <2>2. \E l \in {"protect", "next", "exit"} : Move(Guard, l, m)
      BY <1>8 DEF Protect, Watch, Hit, Visit
    <2>. HIDE DEF m
    <2>. QED BY <1>0, <2>1, <2>2, RunMove DEF Labels
  <1>9. CASE Common(Cycle) \/ Common(Guard)
    BY <1>0, <1>9, RunCommon
  <1>10. CASE UserPauses \/ UserResumes \/ HourPasses \/ AlertExpires \/ UNCHANGED vars
    BY <1>10, RunStay DEF UserPauses, UserResumes, HourPasses, AlertExpires, vars, loop
  <1>11. CASE Restart
    BY <1>0, <1>11 DEF Restart, RunInv, RunNotStuck
  <1>. QED BY <1>1, <1>2, <1>3, <1>4, <1>5, <1>6, <1>7, <1>8, <1>9, <1>10, <1>11
           DEF Next, CycleStep, GuardStep

LEMMA RunInit == Init => RunInv
  <1>. SUFFICES ASSUME Init PROVE RunInv
    OBVIOUS
  <1>1. \A t \in Jobs : pc[t] = "idle" /\ market[t] = NoMarket
    BY DEF Init
  <1>. QED BY <1>1 DEF RunInv, RunNotStuck, Jobs

\* The steps to go, as numbers
LEMMA VisitNumbers == \A l \in DOMAIN visit : visit[l] \in 0..4
  BY DEF visit

LEMMA LeftNumbers ==
  ASSUME NEW l \in Labels, NEW m \in Markets \cup {NoMarket}, NEW q \in SUBSET Markets
  PROVE  /\ LeftOf(l, m, q) \in Nat
         /\ LeftOf(l, m, q) <= 6 * Cardinality(Markets) + 5
         /\ l # "idle" => LeftOf(l, m, q) > 0
         /\ Cardinality(q) \in Nat /\ Cardinality(Markets) \in Nat
  <1>1. Cardinality(q) \in Nat /\ Cardinality(Markets) \in Nat /\ Cardinality(q) <= Cardinality(Markets)
    BY MarketsFinite, SubsetSmaller
  <1>. DEFINE a == Cardinality(q)
              n == Cardinality(Markets)
  <1>2. a \in Nat /\ n \in Nat /\ a <= n
    BY <1>1
  <1>3. ~InLoop(l, m) /\ l # "idle" => start[l] \in 2..5
    BY DEF InLoop, visit, start, Labels
  <1>4. InLoop(l, m) => visit[l] \in 0..4
    BY VisitNumbers DEF InLoop
  <1>5. LeftOf(l, m, q) = IF l = "idle" THEN 0
                          ELSE IF InLoop(l, m) THEN 5 * a + visit[l] + 1
                          ELSE 5 * n + start[l] + IF l \in {"reconcile", "protect"} THEN a ELSE 0
    BY DEF LeftOf
  <1>6. a = 0 \/ a > 0
    BY <1>2
  <1>7. InLoop(l, m) => 5 * a + visit[l] + 1 <= 6 * n + 5
    BY <1>2, <1>4
  <1>. HIDE DEF a, n
  <1>8. LeftOf(l, m, q) \in Nat /\ LeftOf(l, m, q) <= 6 * n + 5 /\ (l # "idle" => LeftOf(l, m, q) > 0)
    BY <1>2, <1>3, <1>4, <1>5, <1>7
  <1>. QED BY <1>2, <1>8 DEF a, n

LEMMA RunNumbers ==
  ASSUME TypeInv, NEW t \in Jobs
  PROVE  /\ RunLeft(t) \in Nat /\ RunLeft(t) <= 6 * Cardinality(Markets) + 5
         /\ pc[t] # "idle" => RunLeft(t) > 0
         /\ pc[t] \in Labels /\ market[t] \in Markets \cup {NoMarket} /\ queue[t] \in SUBSET Markets
  <1>1. pc[t] \in Labels /\ market[t] \in Markets \cup {NoMarket} /\ queue[t] \in SUBSET Markets
    BY DEF TypeInv, TypeOK
  <1>. QED BY <1>1, LeftNumbers DEF RunLeft

LEMMA RunNumbersNext ==
  ASSUME TypeInv', NEW t \in Jobs
  PROVE  RunLeft(t)' \in Nat /\ RunLeft(t)' <= 6 * Cardinality(Markets) + 5
  <1>1. pc'[t] \in Labels /\ market'[t] \in Markets \cup {NoMarket} /\ queue'[t] \in SUBSET Markets
    BY DEF TypeInv, TypeOK
  <1>2. /\ LeftOf(pc'[t], market'[t], queue'[t]) \in Nat
        /\ LeftOf(pc'[t], market'[t], queue'[t]) <= 6 * Cardinality(Markets) + 5
    BY <1>1, LeftNumbers
  <1>. QED BY <1>2 DEF RunLeft

\* Where a job that works in the loop stands
LEMMA LoopLeft ==
  ASSUME NEW l \in DOMAIN visit, NEW m, NEW q, l \in {"pause", "pausing"} => m # NoMarket
  PROVE  LeftOf(l, m, q) = 5 * Cardinality(q) + visit[l] + 1
  BY DEF LeftOf, InLoop, visit

LEMMA StartLeft ==
  ASSUME NEW l \in DOMAIN start, NEW m, NEW q, l \in {"pause", "pausing"} => m = NoMarket
  PROVE  LeftOf(l, m, q) = 5 * Cardinality(Markets) + start[l]
                           + IF l \in {"reconcile", "protect"} THEN Cardinality(q) ELSE 0
  BY DEF LeftOf, InLoop, visit, start

\* Another label of the same visit
LEMMA SameVisit ==
  ASSUME TypeInv, NEW t \in Jobs, NEW l \in DOMAIN visit, Goto(t, l),
         InLoop(pc[t], market[t]), visit[l] < visit[pc[t]],
         l \in {"pause", "pausing"} => market[t] # NoMarket
  PROVE  RunLeft(t)' < RunLeft(t)
  <1>1. pc'[t] = l /\ queue'[t] = queue[t] /\ (l \in {"pause", "pausing"} => market'[t] # NoMarket)
    BY DEF Goto, Move, TypeInv, TypeOK, Between
  <1>2. RunLeft(t) = 5 * Cardinality(queue[t]) + visit[pc[t]] + 1
    BY LoopLeft DEF RunLeft, InLoop
  <1>3. LeftOf(pc'[t], market'[t], queue'[t]) = 5 * Cardinality(queue[t]) + visit[l] + 1
    BY <1>1, LoopLeft
  <1>4. Cardinality(queue[t]) \in Nat /\ visit[l] \in Nat /\ visit[pc[t]] \in Nat
    <2>1. Cardinality(queue[t]) \in Nat
      BY RunNumbers, MarketsFinite
    <2>2. visit[l] \in 0..4 /\ visit[pc[t]] \in 0..4
      BY VisitNumbers DEF InLoop
    <2>. QED BY <2>1, <2>2
  <1>5. 5 * Cardinality(queue[t]) + visit[l] + 1 < 5 * Cardinality(queue[t]) + visit[pc[t]] + 1
    BY <1>4
  <1>. QED BY <1>2, <1>3, <1>5 DEF RunLeft

\* The next market of the loop
LEMMA NextVisit ==
  ASSUME TypeInv, NEW t \in Jobs, NEW l \in {"next", "exit", "gate"}, NEW m \in queue[t],
         pc[t] = "next", Visit(t, m, l)
  PROVE  RunLeft(t)' < RunLeft(t)
  <1>1. pc'[t] = l /\ queue'[t] = queue[t] \ {m}
    BY DEF Visit, Move, TypeInv, TypeOK
  <1>2. IsFiniteSet(queue[t]) /\ Cardinality(queue[t]) \in Nat
    BY MarketsFinite, RunNumbers
  <1>3. Cardinality(queue[t] \ {m}) = Cardinality(queue[t]) - 1
    BY <1>2, FS_RemoveElement
  <1>4. visit["next"] = 0 /\ visit[l] \in 0..4 /\ {"next", l} \subseteq DOMAIN visit
    BY DEF visit
  <1>5. RunLeft(t) = 5 * Cardinality(queue[t]) + 1
    BY <1>2, <1>4, LoopLeft DEF RunLeft
  <1>6. LeftOf(pc'[t], market'[t], queue'[t]) = 5 * (Cardinality(queue[t]) - 1) + visit[l] + 1
    BY <1>1, <1>3, <1>4, LoopLeft
  <1>7. 5 * (Cardinality(queue[t]) - 1) + visit[l] + 1 < 5 * Cardinality(queue[t]) + 1
    BY <1>2, <1>4
  <1>. QED BY <1>5, <1>6, <1>7 DEF RunLeft

\* On the way to the loop, and into it
LEMMA ToLoop ==
  ASSUME TypeInv, TypeInv', NEW t \in Jobs, pc[t] \in {"read", "look"}, pc'[t] = "next"
  PROVE  RunLeft(t)' < RunLeft(t)
  <1>1. queue'[t] \in SUBSET Markets
    BY DEF TypeInv, TypeOK
  <1>2. /\ Cardinality(queue'[t]) \in Nat /\ Cardinality(Markets) \in Nat
        /\ Cardinality(queue'[t]) <= Cardinality(Markets)
    BY <1>1, MarketsFinite, SubsetSmaller
  <1>3. RunLeft(t) = 5 * Cardinality(Markets) + 2 + 0
    BY StartLeft DEF RunLeft, start
  <1>4. LeftOf(pc'[t], market'[t], queue'[t]) = 5 * Cardinality(queue'[t]) + 0 + 1
    BY LoopLeft DEF visit
  <1>5. 5 * Cardinality(queue'[t]) + 0 + 1 < 5 * Cardinality(Markets) + 2 + 0
    BY <1>2
  <1>. QED BY <1>3, <1>4, <1>5 DEF RunLeft

LEMMA BeforeLoop ==
  ASSUME TypeInv, NEW t \in Jobs, NEW l \in {"pause", "pausing", "read", "look"}, Goto(t, l),
         market[t] = NoMarket, pc[t] \in DOMAIN start, start[l] < start[pc[t]]
  PROVE  RunLeft(t)' < RunLeft(t)
  <1>1. pc'[t] = l /\ market'[t] = NoMarket
    BY DEF Goto, Move, TypeInv, TypeOK, Between
  <1>2. Cardinality(queue[t]) \in Nat /\ Cardinality(Markets) \in Nat
    BY RunNumbers, MarketsFinite
  <1>3. LeftOf(pc'[t], market'[t], queue'[t]) = 5 * Cardinality(Markets) + start[l] + 0
    BY <1>1, StartLeft DEF start
  <1>4. RunLeft(t) = 5 * Cardinality(Markets) + start[pc[t]]
                     + IF pc[t] \in {"reconcile", "protect"} THEN Cardinality(queue[t]) ELSE 0
    BY StartLeft DEF RunLeft
  <1>5. start[l] \in Nat /\ start[pc[t]] \in Nat
    BY DEF start
  <1>6. RunLeft(t) >= 5 * Cardinality(Markets) + start[pc[t]]
    BY <1>2, <1>4, <1>5
  <1>. DEFINE r == RunLeft(t)
  <1>7. r \in Nat
    BY RunNumbers
  <1>8. r >= 5 * Cardinality(Markets) + start[pc[t]]
    BY <1>6
  <1>. HIDE DEF r
  <1>9. 5 * Cardinality(Markets) + start[l] + 0 < r
    BY <1>2, <1>5, <1>7, <1>8
  <1>. QED BY <1>3, <1>9 DEF RunLeft, r

\* One market less to reconcile or to protect
LEMMA LessToSettle ==
  ASSUME TypeInv, NEW t \in Jobs, NEW m \in queue[t], pc[t] \in {"reconcile", "protect"},
         pc'[t] = pc[t], queue'[t] = queue[t] \ {m}
  PROVE  RunLeft(t)' < RunLeft(t)
  <1>1. IsFiniteSet(queue[t]) /\ Cardinality(queue[t]) \in Nat /\ Cardinality(Markets) \in Nat
    BY MarketsFinite, RunNumbers
  <1>2. Cardinality(queue[t] \ {m}) = Cardinality(queue[t]) - 1
    BY <1>1, FS_RemoveElement
  <1>3. start[pc[t]] \in Nat /\ pc[t] \in DOMAIN start /\ pc[t] \notin {"pause", "pausing"}
    BY DEF start
  <1>4. RunLeft(t) = 5 * Cardinality(Markets) + start[pc[t]] + Cardinality(queue[t])
    BY <1>3, StartLeft DEF RunLeft
  <1>5. LeftOf(pc'[t], market'[t], queue'[t])
           = 5 * Cardinality(Markets) + start[pc[t]] + (Cardinality(queue[t]) - 1)
    BY <1>2, <1>3, StartLeft
  <1>6. 5 * Cardinality(Markets) + start[pc[t]] + (Cardinality(queue[t]) - 1)
           < 5 * Cardinality(Markets) + start[pc[t]] + Cardinality(queue[t])
    BY <1>1, <1>3
  <1>. QED BY <1>4, <1>5, <1>6 DEF RunLeft

LEMMA RunOver ==
  ASSUME TypeInv, NEW t \in Jobs, pc[t] # "idle", pc'[t] = "idle"
  PROVE  RunLeft(t)' < RunLeft(t)
  <1>1. LeftOf(pc'[t], market'[t], queue'[t]) = 0
    BY DEF LeftOf
  <1>. QED BY <1>1, RunNumbers DEF RunLeft

\* The steps both jobs have
LEMMA CommonLeft ==
  ASSUME TypeInv, NEW t \in Jobs, Common(t)
  PROVE  RunLeft(t)' < RunLeft(t)
  <1>1. CASE (IsPaused(t) \/ SetPaused(t)) /\ market[t] = NoMarket
    BY <1>1, BeforeLoop DEF IsPaused, SetPaused, After, start
  <1>2. CASE (IsPaused(t) \/ SetPaused(t)) /\ market[t] # NoMarket
    BY <1>2, SameVisit DEF IsPaused, SetPaused, After, visit, InLoop
  <1>3. CASE Sell(t)
    BY <1>3, SameVisit DEF Sell, Sold, visit, InLoop
  <1>4. CASE SellFails(t)
    BY <1>4, SameVisit DEF SellFails, visit, InLoop
  <1>5. CASE ExitFailed(t)
    <2>1. market[t] # NoMarket
      BY <1>5, MarketAssumption DEF ExitFailed, TypeInv, MarketInv
    <2>. QED BY <1>5, <2>1, SameVisit DEF ExitFailed, visit, InLoop
  <1>. QED BY <1>1, <1>2, <1>3, <1>4, <1>5 DEF Common

LEMMA CycleLeft ==
  ASSUME TypeInv, RunInv, TypeInv', CycleStep, pc[Cycle] # "idle"
  PROVE  RunLeft(Cycle)' < RunLeft(Cycle)
  <1>0. Cycle \in Jobs
    BY DEF Jobs
  <1>1. CASE ReconcileMarket
    BY <1>0, <1>1, LessToSettle DEF ReconcileMarket, TypeInv, TypeOK
  <1>2. CASE ReconcileBalances
    BY <1>0, <1>2, BeforeLoop DEF ReconcileBalances, start, RunInv
  <1>3. CASE Read
    BY <1>0, <1>3, ToLoop DEF Read, Loop, Move, TypeInv, TypeOK
  <1>4. CASE Pass \/ Exit \/ Decide
    BY <1>0, <1>4, NextVisit DEF Pass, Exit, Decide
  <1>5. CASE Gate \/ Advise
    BY <1>0, <1>5, SameVisit DEF Gate, Advise, visit, InLoop
  <1>6. CASE Buy \/ BuyFails \/ BuyUnknown \/ Refresh
    <2>1. \/ pc[Cycle] = "buy" /\ Goto(Cycle, "refresh")
          \/ pc[Cycle] \in {"buy", "refresh"} /\ Goto(Cycle, "next")
      BY <1>6 DEF Buy, BuyFails, BuyUnknown, Refresh
    <2>. QED BY <1>0, <2>1, SameVisit DEF visit, InLoop
  <1>7. CASE EndCycle
    BY <1>0, <1>7, RunOver DEF EndCycle, Loop, Move, TypeInv, TypeOK
  <1>8. CASE Common(Cycle)
    BY <1>0, <1>8, CommonLeft
  <1>. QED BY <1>1, <1>2, <1>3, <1>4, <1>5, <1>6, <1>7, <1>8 DEF CycleStep, StartCycle

LEMMA GuardLeft ==
  ASSUME TypeInv, RunInv, TypeInv', GuardStep, pc[Guard] # "idle"
  PROVE  RunLeft(Guard)' < RunLeft(Guard)
  <1>0. Guard \in Jobs /\ queue[Guard] \subseteq Markets
    BY DEF Jobs, TypeInv, TypeOK
  <1>f. queue[Guard] # {} => First(queue[Guard]) \in queue[Guard]
    BY <1>0, FirstMarket
  <1>1. CASE Protect
    BY <1>0, <1>1, <1>f, LessToSettle DEF Protect, Visit, Move, TypeInv, TypeOK
  <1>2. CASE Protected
    BY <1>0, <1>2, BeforeLoop DEF Protected, start, RunInv
  <1>3. CASE Look
    BY <1>0, <1>3, ToLoop DEF Look, Loop, Move, TypeInv, TypeOK
  <1>4. CASE Watch \/ \E m \in Markets : Hit(m)
    BY <1>0, <1>4, <1>f, NextVisit DEF Watch, Hit
  <1>5. CASE EndGuard
    BY <1>0, <1>5, RunOver DEF EndGuard, Loop, Move, TypeInv, TypeOK
  <1>6. CASE Common(Guard)
    BY <1>0, <1>6, CommonLeft
  <1>. QED BY <1>1, <1>2, <1>3, <1>4, <1>5, <1>6 DEF GuardStep, StartGuard

LEMMA SameLeft ==
  ASSUME NEW t \in Jobs, pc'[t] = pc[t], market'[t] = market[t], queue'[t] = queue[t]
  PROVE  RunLeft(t)' = RunLeft(t)
  BY DEF RunLeft

\* A step of a job leaves the run of the other one as it is.
LEMMA OtherLeft ==
  ASSUME TypeInv, NEW t \in Jobs, NEW u \in Jobs \ {t}, StepOf(t)
  PROVE  RunLeft(u)' = RunLeft(u)
  <1>. USE DEF Goto, Loop, Visit, Move
  <1>0. /\ pc \in [Jobs -> Labels] /\ market \in [Jobs -> Markets \cup {NoMarket}]
        /\ queue \in [Jobs -> SUBSET Markets]
    BY DEF TypeInv, TypeOK
  <1>1. CASE Common(t)
    BY <1>0, <1>1, SameLeft DEF Common, IsPaused, SetPaused, Sell, SellFails, ExitFailed
  <1>2. CASE t = Cycle /\ CycleStep /\ ~Common(t)
    BY <1>0, <1>2, SameLeft
    DEF CycleStep, StartCycle, ReconcileMarket, ReconcileBalances, Read, Pass, Exit, Decide, Gate,
        Advise, Buy, BuyFails, BuyUnknown, Refresh, EndCycle
  <1>3. CASE t = Guard /\ GuardStep /\ ~Common(t)
    BY <1>0, <1>3, SameLeft
    DEF GuardStep, StartGuard, Protect, Protected, Look, Watch, Hit, EndGuard
  <1>. QED BY <1>1, <1>2, <1>3 DEF StepOf, Jobs

\* What any step makes of the steps a job has to go
LEMMA NextLeft ==
  ASSUME TypeInv, RunInv, TypeInv', [Next]_vars, NEW t \in Jobs, pc[t] # "idle"
  PROVE  /\ RunLeft(t)' <= RunLeft(t)
         /\ StepOf(t) => RunLeft(t)' < RunLeft(t)
  <1>0. /\ StepOf(Cycle) = CycleStep /\ StepOf(Guard) = GuardStep
        /\ t \in {Cycle, Guard} /\ Cycle \in Jobs /\ Guard \in Jobs
    BY JobAssumption DEF StepOf, Jobs
  <1>1. RunLeft(t) \in Nat /\ RunLeft(t)' \in Nat
    BY RunNumbers, RunNumbersNext
  <1>2. CASE StepOf(t)
    <2>1. RunLeft(t)' < RunLeft(t)
      BY <1>0, <1>2, CycleLeft, GuardLeft
    <2>. DEFINE m == RunLeft(t)
                n == RunLeft(t)'
    <2>2. m \in Nat /\ n \in Nat /\ n < m
      BY <1>1, <2>1
    <2>. HIDE DEF m, n
    <2>3. n <= m
      BY <2>2
    <2>. QED BY <2>1, <2>3 DEF m, n
  <1>3. CASE ~StepOf(t)
    <2>1. RunLeft(t)' <= RunLeft(t)
      <3>1. CASE \E u \in Jobs \ {t} : StepOf(u)
        BY <1>1, <3>1, OtherLeft
      <3>2. CASE UserPauses \/ UserResumes \/ HourPasses \/ AlertExpires \/ UNCHANGED vars
        <4>1. UNCHANGED loop
          BY <3>2 DEF UserPauses, UserResumes, HourPasses, AlertExpires, vars
        <4>. QED BY <1>1, <4>1, SameLeft DEF loop
      <3>3. CASE Restart
        <4>1. RunLeft(t)' < RunLeft(t)
          BY <3>3, RunOver DEF Restart
        <4>. DEFINE m == RunLeft(t)
                    n == RunLeft(t)'
        <4>2. m \in Nat /\ n \in Nat /\ n < m
          BY <1>1, <4>1
        <4>. HIDE DEF m, n
        <4>3. n <= m
          BY <4>2
        <4>. QED BY <4>3 DEF m, n
      <3>. QED BY <1>0, <1>3, <3>1, <3>2, <3>3 DEF Next
    <2>. QED BY <1>3, <2>1
  <1>. QED BY <1>2, <1>3

LEMMA RunInvariant == Spec => [](TypeInv /\ RunInv)
  <1>1. Init => TypeInv /\ RunInv
    BY TypeInit, RunInit
  <1>2. TypeInv /\ RunInv /\ [Next]_vars => (TypeInv /\ RunInv)'
    BY TypeStep, RunInvStep
  <1>. QED BY <1>1, <1>2, PTL DEF Spec

\* Whatever fails in it, and whatever the other job, the user and the clock do meanwhile, each
\* step of a cycle or of a guard run brings it nearer to its end (run_once, check_exits_fast).
THEOREM RunsGoOn == Spec => RunAdvances
  <1>1. TypeInv /\ RunInv /\ TypeInv' /\ [Next]_vars
        => [\A t \in Jobs : pc[t] # "idle" =>
               /\ RunLeft(t)' <= RunLeft(t)
               /\ StepOf(t) => RunLeft(t)' < RunLeft(t)]_vars
    BY NextLeft
  <1>. QED BY <1>1, RunInvariant, PTL DEF Spec, RunAdvances

\* A run of the cycle or the guard takes no more steps than six for each market and five,
\* however many positions come and go while it works.
THEOREM RunLength == Spec => []RunBounded
  <1>1. TypeInv => RunBounded
    BY RunNumbers DEF RunBounded
  <1>. QED BY <1>1, RunInvariant, PTL

\* Neither job gets to a label where it would wait for the other one, or where only the other
\* one can go on.
THEOREM RunsNotStuck == Spec => []RunNotStuck
  <1>1. RunInv => RunNotStuck
    BY DEF RunInv
  <1>. QED BY <1>1, RunInvariant, PTL

=============================================================================
