---------------------------- MODULE TradingCycle -----------------------------
(***************************************************************************)
(* The engine (engine.py): the analysis cycle run_once, the position guard *)
(* check_exits_fast, and the kill switch (lists.py) that both of them and  *)
(* the user set.  The two jobs run in threads of their own.  A call of the *)
(* broker is one step here: what happens inside of it, under the lock of   *)
(* its market, is LiveMarket and PaperBroker.                              *)
(***************************************************************************)
EXTENDS Integers, FiniteSets

CONSTANTS
    Markets,        \* numbered in the order in which the guard visits them
    Correlated,     \* pairs of markets that move together
    Falling,        \* markets whose price stays beyond the stop of a position
    Live,           \* trading_mode = "live"
    MaxOpen,        \* max_open_positions, the most effective_max_positions gives
    MaxCluster,     \* max_correlated_positions
    Cap,            \* live_max_capital_eur, in positions
    Cycle, Guard,   \* the two jobs
    NoMarket,
    MaxRestarts     \* bound

Jobs == {Cycle, Guard}

ASSUME MarketAssumption == Markets \subseteq Nat /\ NoMarket \notin Markets
ASSUME JobAssumption    == Cycle # Guard
ASSUME LimitAssumption  == MaxOpen \in Nat /\ MaxCluster \in Nat /\ Cap \in Nat
ASSUME ModeAssumption   == Live \in BOOLEAN /\ IsFiniteSet(Markets)

VARIABLES
    open,       \* markets with a PositionRow
    unknown,    \* live: markets with an entry or exit of unknown fate
    paused,     \* KVRow trading_paused
    alerted,    \* _exit_alerted, while the alarm of a market is recent
    due,        \* _last_reconcile is too long ago
    pc, market, queue,              \* of each job: label, market, rest of its loop
    positions,                      \* positions, as the cycle read them last
    candles,                        \* the markets of candles_map
    problem,                        \* reconcile found one
    late,                           \* history: buys since kopen was paused
    restarts

broker == <<open, unknown>>
loop   == <<pc, market, queue>>
cycle  == <<positions, candles, problem>>
vars   == <<broker, paused, alerted, due, loop, cycle, late, restarts>>

Labels == {"idle", "reconcile", "pause", "pausing", "read", "next", "exit", "failed",
           "gate", "advise", "buy", "refresh", "protect", "look"}

TypeOK ==
    /\ open \subseteq Markets /\ unknown \subseteq IF Live THEN Markets ELSE {}
    /\ paused \in BOOLEAN /\ alerted \subseteq Markets /\ due \in BOOLEAN
    /\ pc \in [Jobs -> Labels] /\ market \in [Jobs -> Markets \cup {NoMarket}]
    /\ queue \in [Jobs -> SUBSET Markets]
    /\ positions \subseteq Markets /\ candles \subseteq Markets
    /\ problem \in BOOLEAN
    /\ late \in Nat /\ restarts \in Nat

Init ==
    /\ open = {} /\ unknown = {} /\ paused = FALSE /\ alerted = {} /\ due = TRUE
    /\ pc = [t \in Jobs |-> "idle"] /\ market = [t \in Jobs |-> NoMarket]
    /\ queue = [t \in Jobs |-> {}]
    /\ positions = {} /\ candles = {} /\ problem = FALSE
    /\ late = 0 /\ restarts = 0

-------------------------------------------------------------------------------
First(S) == CHOOSE m \in S : \A n \in S : m <= n

\* Labels outside of any market.
Between == {"next", "refresh", "protect"}

Move(t, label, m) ==
    /\ pc' = [pc EXCEPT ![t] = label]
    /\ market' = [market EXCEPT ![t] = IF label \in Between THEN NoMarket ELSE m]

Goto(t, label) == Move(t, label, market[t]) /\ UNCHANGED queue

\* The job goes on with market m of its loop.
Visit(t, m, label) == Move(t, label, m) /\ queue' = [queue EXCEPT ![t] = @ \ {m}]

Loop(t, markets, label) ==
    Move(t, label, NoMarket) /\ queue' = [queue EXCEPT ![t] = markets]

\* The broker finishes what it can in market m: an entry of unknown fate turns out to
\* be filled, in part or not at all, a stop has fired. Reports whether all is clear.
Settle(m, clear) ==
    /\ unknown' \in IF clear THEN {unknown \ {m}} ELSE {unknown}
    /\ open' \in {open \ {m}} \cup IF m \in open \cup unknown THEN {open \cup {m}} ELSE {}

(* The pause switch. *)

\* if not is_paused(): set_paused(True), in _reconcile_if_due and in _exit_failed.
\* Both jobs go on after it: with the analysis or with the next market.
After(t) == IF market[t] = NoMarket THEN "read" ELSE "next"

IsPaused(t) ==
    /\ pc[t] = "pause"
    /\ Goto(t, IF paused THEN After(t) ELSE "pausing")
    /\ UNCHANGED <<broker, paused, alerted, due, cycle, late, restarts>>

SetPaused(t) ==
    /\ pc[t] = "pausing"
    /\ paused' = TRUE
    /\ Goto(t, After(t))
    /\ UNCHANGED <<broker, alerted, due, cycle, late, restarts>>

\* POST /api/pause
UserPauses ==
    /\ paused' = TRUE
    /\ UNCHANGED <<broker, alerted, due, loop, cycle, late, restarts>>

UserResumes ==
    /\ paused' = FALSE /\ late' = 0
    /\ UNCHANGED <<broker, alerted, due, loop, cycle, restarts>>

(* A sale, by the guard or the cycle. *)

Sold(t) == IF t = Cycle THEN "refresh" ELSE "next"

\* PositionGone, or the position is closed.
Sell(t) ==
    /\ pc[t] = "exit"
    /\ open' = open \ {market[t]}
    /\ unknown' = IF market[t] \in open THEN unknown \ {market[t]} ELSE unknown
    /\ Goto(t, Sold(t))
    /\ UNCHANGED <<paused, alerted, due, cycle, late, restarts>>

SellFailsUnknown(t) ==                               \* mutant: paper leaves orders behind
    /\ pc[t] = "exit"
    /\ unknown' \in {unknown, unknown \cup ({market[t]} \cap open)}
    /\ Goto(t, "failed")
    /\ UNCHANGED <<open, paused, alerted, due, cycle, late, restarts>>

\* The exit raises, MarketBusy included; live its fate can be unknown.
SellFails(t) ==
    /\ pc[t] = "exit"
    /\ unknown' \in {unknown} \cup IF Live THEN {unknown \cup ({market[t]} \cap open)} ELSE {}
    /\ Goto(t, "failed")
    /\ UNCHANGED <<open, paused, alerted, due, cycle, late, restarts>>

ExitFailedEnds(t) ==                                 \* mutant: the exception ends the loop
    /\ pc[t] = "failed"
    /\ alerted' = alerted \cup {market[t]}
    /\ Move(t, IF Live /\ market[t] \notin alerted THEN "pause" ELSE "next", market[t])
    /\ queue' = [queue EXCEPT ![t] = {}]
    /\ UNCHANGED <<broker, paused, due, cycle, late, restarts>>

\* _exit_failed: one alarm per market in half an hour.
ExitFailed(t) ==
    /\ pc[t] = "failed"
    /\ alerted' = alerted \cup {market[t]}
    /\ Goto(t, IF Live /\ market[t] \notin alerted THEN "pause" ELSE "next")
    /\ UNCHANGED <<broker, paused, due, cycle, late, restarts>>

-------------------------------------------------------------------------------
(* run_once *)

\* Live: _reconcile_if_due. The markets with an open order and those with a position.
StartCycle ==
    /\ pc[Cycle] = "idle"
    /\ IF Live /\ due
       THEN due' = FALSE /\ Loop(Cycle, open \cup unknown, "reconcile")
       ELSE UNCHANGED due /\ Loop(Cycle, {}, "read")
    /\ UNCHANGED <<broker, paused, alerted, cycle, late, restarts>>

ReconcileQuiet ==                                    \* mutant: what is not finished is no problem
    /\ pc[Cycle] = "reconcile"
    /\ \E m \in queue[Cycle], clear \in BOOLEAN :
        /\ Settle(m, clear)
        /\ queue' = [queue EXCEPT ![Cycle] = @ \ {m}]
    /\ UNCHANGED <<paused, alerted, due, pc, market, cycle, late, restarts>>

ReconcileMarket ==
    /\ pc[Cycle] = "reconcile"
    /\ \E m \in queue[Cycle], clear \in BOOLEAN :
        /\ Settle(m, clear)
        /\ problem' = (problem \/ ~clear)
        /\ queue' = [queue EXCEPT ![Cycle] = @ \ {m}]
    /\ UNCHANGED <<paused, alerted, due, pc, market, positions, candles, late, restarts>>

\* The balances come last: a shortage, or no answer.
ReconcileBalances ==
    /\ pc[Cycle] = "reconcile" /\ queue[Cycle] = {}
    /\ \E short \in BOOLEAN : Goto(Cycle, IF problem \/ short THEN "pause" ELSE "read")
    /\ problem' = FALSE
    /\ UNCHANGED <<broker, paused, alerted, due, positions, candles, late, restarts>>

\* The state of the cycle: positions, and the markets whose candles were fetched.
Read ==
    /\ pc[Cycle] = "read"
    /\ positions' = open
    /\ \E fetched \in SUBSET Markets :
        candles' = fetched /\ Loop(Cycle, fetched, "next")
    /\ UNCHANGED <<broker, paused, alerted, due, problem, late, restarts>>

\* Nothing to do in a market, or its analysis raises.
Pass ==
    /\ pc[Cycle] = "next"
    /\ \E m \in queue[Cycle] : Visit(Cycle, m, "next")
    /\ UNCHANGED <<broker, paused, alerted, due, cycle, late, restarts>>

\* A mechanical exit.
Exit ==
    /\ pc[Cycle] = "next"
    /\ \E m \in queue[Cycle] \cap positions : Visit(Cycle, m, "exit")
    /\ UNCHANGED <<broker, paused, alerted, due, cycle, late, restarts>>

\* A candidate that passes can_open, the other gates of the decision engine and the
\* blocklist (Pass is the one that does not).
Decide ==
    /\ pc[Cycle] = "next" /\ Cardinality(positions) < MaxOpen
    /\ \E m \in queue[Cycle] \ positions : Visit(Cycle, m, "gate")
    /\ UNCHANGED <<broker, paused, alerted, due, cycle, late, restarts>>

GateSkipped ==                                       \* mutant: the switch is not read again
    /\ pc[Cycle] = "gate"
    /\ Goto(Cycle, "advise")
    /\ UNCHANGED <<broker, paused, alerted, due, cycle, late, restarts>>

\* The kill switch.
Gate ==
    /\ pc[Cycle] = "gate"
    /\ Goto(Cycle, IF paused THEN "next" ELSE "advise")
    /\ UNCHANGED <<broker, paused, alerted, due, cycle, late, restarts>>

Neighbours(m) == {p \in positions \cap candles : {m, p} \in Correlated}

AdviseOneMore ==                                     \* mutant: off by one
    /\ pc[Cycle] = "advise"
    /\ \/ Cardinality(Neighbours(market[Cycle])) <= MaxCluster /\ Goto(Cycle, "buy")
       \/ Goto(Cycle, "next")
    /\ UNCHANGED <<broker, paused, alerted, due, cycle, late, restarts>>

\* Correlation, regime and chase guard, and the LLM, which takes its time.
Advise ==
    /\ pc[Cycle] = "advise"
    /\ \/ Cardinality(Neighbours(market[Cycle])) < MaxCluster /\ Goto(Cycle, "buy")
       \/ Goto(Cycle, "next")
    /\ UNCHANGED <<broker, paused, alerted, due, cycle, late, restarts>>

\* The broker is called.
BuyStarts == late' = IF paused THEN late + 1 ELSE late

\* The live broker counts what is booked.
Room == Live => Cardinality(open) < Cap

Buy ==
    /\ pc[Cycle] = "buy" /\ BuyStarts
    /\ market[Cycle] \notin open /\ Room
    /\ open' = open \cup {market[Cycle]} /\ unknown' = unknown \ {market[Cycle]}
    /\ Goto(Cycle, "refresh")
    /\ UNCHANGED <<paused, alerted, due, cycle, restarts>>

\* The buy raises: before it got to the orders of the market, whose lock is not free or
\* whose data cannot be had, or after it finished the one of unknown fate.
BuyFails ==
    /\ pc[Cycle] = "buy" /\ BuyStarts
    /\ \/ UNCHANGED broker
       \/ market[Cycle] \in unknown /\ Settle(market[Cycle], TRUE)
    /\ Goto(Cycle, "next")
    /\ UNCHANGED <<paused, alerted, due, cycle, restarts>>

\* OrderStateUnknownError: what was filled so far is booked.
BuyUnknown ==
    /\ Live /\ pc[Cycle] = "buy" /\ BuyStarts
    /\ market[Cycle] \in unknown \/ (market[Cycle] \notin open /\ Room)
    /\ unknown' = unknown \cup {market[Cycle]}
    /\ open' \in {open, open \cup {market[Cycle]}}
    /\ due' = TRUE
    /\ Goto(Cycle, "next")
    /\ UNCHANGED <<paused, alerted, cycle, restarts>>

RefreshForgotten ==                                  \* mutant: positions of before the order
    /\ pc[Cycle] = "refresh"
    /\ Goto(Cycle, "next")
    /\ UNCHANGED <<broker, paused, alerted, due, cycle, late, restarts>>

\* _refresh_after_trade
Refresh ==
    /\ pc[Cycle] = "refresh"
    /\ positions' = open
    /\ Goto(Cycle, "next")
    /\ UNCHANGED <<broker, paused, alerted, due, candles, problem, late, restarts>>

EndCycle ==
    /\ pc[Cycle] = "next" /\ queue[Cycle] = {}
    /\ Loop(Cycle, {}, "idle")
    /\ positions' = {} /\ candles' = {}
    /\ UNCHANGED <<broker, paused, alerted, due, problem, late, restarts>>

-------------------------------------------------------------------------------
(* check_exits_fast *)

\* Live: _sync_protection first.
StartGuard ==
    /\ pc[Guard] = "idle"
    /\ IF Live THEN Loop(Guard, open, "protect") ELSE Loop(Guard, {}, "look")
    /\ UNCHANGED <<broker, paused, alerted, due, cycle, late, restarts>>

\* A stop fired, an order is finished, or the market is busy.
Protect ==
    /\ pc[Guard] = "protect" /\ queue[Guard] # {}
    /\ LET m == First(queue[Guard]) IN
       /\ IF m \in open THEN \E clear \in BOOLEAN : Settle(m, clear) ELSE UNCHANGED broker
       /\ Visit(Guard, m, "protect")
    /\ UNCHANGED <<paused, alerted, due, cycle, late, restarts>>

Protected ==
    /\ pc[Guard] = "protect" /\ queue[Guard] = {}
    /\ Goto(Guard, "look")
    /\ UNCHANGED <<broker, paused, alerted, due, cycle, late, restarts>>

Look ==
    /\ pc[Guard] = "look"
    /\ Loop(Guard, open, "next")
    /\ UNCHANGED <<broker, paused, alerted, due, cycle, late, restarts>>

\* No price, or one between stop and target.
Watch ==
    /\ pc[Guard] = "next" /\ queue[Guard] # {}
    /\ Visit(Guard, First(queue[Guard]), "next")
    /\ UNCHANGED <<broker, paused, alerted, due, cycle, late, restarts>>

\* The price is at the stop (and the exchange does not handle it) or at the target.
Hit(m) ==
    /\ pc[Guard] = "next" /\ queue[Guard] # {} /\ m = First(queue[Guard])
    /\ Visit(Guard, m, "exit")
    /\ UNCHANGED <<broker, paused, alerted, due, cycle, late, restarts>>

EndGuard ==
    /\ pc[Guard] = "next" /\ queue[Guard] = {}
    /\ Loop(Guard, {}, "idle")
    /\ UNCHANGED <<broker, paused, alerted, due, cycle, late, restarts>>

-------------------------------------------------------------------------------
\* RECONCILE_INTERVAL_S and EXIT_ALERT_INTERVAL_S go by.
HourPasses ==
    /\ ~due /\ due' = TRUE
    /\ UNCHANGED <<broker, paused, alerted, loop, cycle, late, restarts>>

AlertExpires ==
    /\ \E m \in alerted : alerted' = alerted \ {m}
    /\ UNCHANGED <<broker, paused, due, loop, cycle, late, restarts>>

\* The process stops and starts again. A crash inside a call of the broker is this step
\* after BuyUnknown or SellFails.
Restart ==
    /\ restarts < MaxRestarts /\ restarts' = restarts + 1
    /\ alerted' = {} /\ due' = TRUE
    /\ pc' = [t \in Jobs |-> "idle"] /\ market' = [t \in Jobs |-> NoMarket]
    /\ queue' = [t \in Jobs |-> {}]
    /\ positions' = {} /\ candles' = {} /\ problem' = FALSE
    /\ UNCHANGED <<broker, paused, late>>

Common(t) == IsPaused(t) \/ SetPaused(t) \/ Sell(t) \/ SellFails(t) \/ ExitFailed(t)

CycleStep ==
    \/ Common(Cycle)
    \/ StartCycle \/ ReconcileMarket \/ ReconcileBalances \/ Read
    \/ Pass \/ Exit \/ Decide \/ Gate \/ Advise
    \/ Buy \/ BuyFails \/ BuyUnknown \/ Refresh \/ EndCycle

GuardStep ==
    \/ Common(Guard)
    \/ StartGuard \/ Protect \/ Protected \/ Look
    \/ Watch \/ (\E m \in Markets : Hit(m)) \/ EndGuard

Next ==
    \/ CycleStep \/ GuardStep
    \/ UserPauses \/ UserResumes \/ HourPasses \/ AlertExpires \/ Restart

Spec == Init /\ [][Next]_vars

\* The scheduler starts both jobs again and again and every call has a timeout. The
\* price feed answers again and again, so a price that stays beyond the stop is seen.
FairSpec ==
    /\ Spec
    /\ WF_vars(CycleStep) /\ WF_vars(GuardStep) /\ WF_vars(HourPasses)
    /\ \A m \in Falling : SF_vars(Hit(m))

-------------------------------------------------------------------------------
\* Paper: however positions come and go while the cycle works, it never opens more
\* than the slots there are.
SlotsRespected == Cardinality(open) <= MaxOpen

\* Paper: when the cycle buys, fewer than MaxCluster of the positions that are open at
\* that moment (with candles) move along with the market.
ClusterRespected ==
    pc[Cycle] = "buy" =>
        Cardinality({p \in open \cap candles : {market[Cycle], p} \in Correlated}) < MaxCluster

\* A pause, by the user or after a failed exit, lets at most the buy through that had
\* already passed the switch.
AtMostOneLateBuy == late <= 1

\* The header of live.py: the exposure is limited to live_max_capital_eur.
ExposureWithinCap == Cardinality(open) <= Cap

\* An order of unknown fate is settled, or buying is paused.
UnknownIsHandled == \A m \in Markets : (m \in unknown) ~> (m \notin unknown \/ paused)

\* N1 of the reviews: the guard gets to every position whose price stays beyond its
\* stop, also when the exit of another one fails every time.
EveryExitTried ==
    \A m \in Falling :
        (m \in open) ~> (m \notin open \/ (pc[Guard] = "exit" /\ market[Guard] = m))
==============================================================================
