------------------------------ MODULE Measurement -----------------------------
(***************************************************************************)
(* How a gate in shadow is measured (engine.py, analysis/, export.py), for *)
(* one market.  The cycle and the position guard write rows; the analysis  *)
(* later finds the round trip that each row tells about.  All rows are one *)
(* log in the order of their timestamps; a table is the rows of one kind.  *)
(***************************************************************************)
EXTENDS Gates, Sequences

CONSTANTS
    Market, OtherMarkets,
    Candidates, Prices, FreeCash, DailyPnl, Portfolio,
    Configs,                    \* configurations the program is started with
    Window,                     \* one candle, the unit of Cooldown
    None,
    MaxTime, MaxRows, MaxStarts \* bounds

ASSUME MeasurementAssumption ==
    /\ Configs \subseteq Config
    /\ Window \in Nat \ {0}                   \* max(1, match_window_candles)
    /\ Window < Cooldown                      \* _match_same_cycle: one entry in the window
    /\ \A c \in Candidates : /\ {c.signal, c.closed} \subseteq BOOLEAN
                             /\ {c.close, c.atr} \subseteq Nat
    /\ Market \notin OtherMarkets /\ None \notin [buy : Nat, sell : Nat]
    /\ DailyPnl \subseteq Int /\ FreeCash \subseteq Nat /\ Portfolio \in Nat /\ Prices \subseteq Nat \ {0}
    /\ {MaxTime, MaxRows, MaxStarts} \subseteq Nat

VARIABLES
    now, cfg, starts,
    log,        \* rows of trades and of signals
    position,   \* row of the purchase of the open position, 0: none
    unknown,    \* cycle whose order may stand at the exchange, 0: none
    cycle       \* the locals of the cycle

vars == <<now, cfg, starts, log, position, unknown, cycle>>

Steps == {"idle", "exits", "timestop", "breakeven", "sell", "entry", "ask", "buy", "note"}

\* no: the cycle's number, the row it would write first; held: the position read at its start;
\* base: the decision before the gates; late: a candle has closed since the start.
NoCycle == [step |-> "idle", no |-> 0, held |-> 0, late |-> FALSE, d |-> Skip, base |-> Skip]

\* A row holds the configuration where the code holds its hash: see Cohort.
Row(kind, what, notes, no) ==
    [kind |-> kind, what |-> what, notes |-> notes, at |-> now, cfg |-> cfg, cycle |-> no,
     held |-> cycle.held]

Write(row) == Len(log) < MaxRows /\ log' = Append(log, row)

Terms    == [size : Nat, stop : Int, target : Int]
Decision == [action : {"buy", "skip"}, terms : Terms, notes : SUBSET EntryGates]

TypeOK ==
    /\ now \in 0..MaxTime /\ cfg \in Configs /\ starts \in 0..MaxStarts
    /\ log \in Seq([kind : {"trade", "signal"},
                    what : {"buy", "sell", "skip", "shadow"},
                    notes : SUBSET AllGates, at : 0..MaxTime, cfg : Configs, cycle : Nat, held : Nat])
    /\ position \in 0..Len(log) /\ unknown \in Nat
    /\ cycle \in [step : Steps, no : 0..Len(log) + 1, held : 0..Len(log), late : BOOLEAN,
                  d : Decision, base : Decision]

Init ==
    /\ now = 0 /\ cfg \in Configs /\ starts = 0
    /\ log = <<>> /\ position = 0 /\ unknown = 0 /\ cycle = NoCycle

-------------------------------------------------------------------------------
(* The cycle *)

IsTrade(i, side) == log[i].kind = "trade" /\ log[i].what = side
Trades(n) == {i \in 1..n : log[i].kind = "trade"}

LastTradeForgotten == Never                          \* mutant: the cooldown ends with a sale

\* last_trade_at reads the trades, so a restart keeps the cooldown.
LastTrade ==
    IF Trades(Len(log)) = {} THEN Never
    ELSE log[CHOOSE i \in Trades(Len(log)) : \A j \in Trades(Len(log)) : j <= i].at

Goto(step) == cycle' = [cycle EXCEPT !.step = step]
Finish == cycle' = NoCycle

\* The reconciliation at the start of a cycle books the unknown order, or drops it.
Reconcile ==
    /\ cycle.step = "idle" /\ unknown # 0
    /\ unknown' = 0
    /\ \/ Write(Row("trade", "buy", {}, unknown)) /\ position' = Len(log')
       \/ UNCHANGED <<log, position>>
    /\ UNCHANGED <<now, cfg, starts, cycle>>

Start ==
    /\ cycle.step = "idle" /\ unknown = 0
    /\ cycle' = [NoCycle EXCEPT !.step = IF position = 0 THEN "entry" ELSE "exits",
                                !.no = Len(log) + 1, !.held = position]
    /\ UNCHANGED <<now, cfg, starts, log, position, unknown>>

\* check_exit on the live price
Exits ==
    /\ cycle.step = "exits"
    /\ \E hit \in BOOLEAN : Goto(IF hit THEN "sell" ELSE "timestop")
    /\ UNCHANGED <<now, cfg, starts, log, position, unknown>>

\* _extra_exits: a hit sells when the gate binds, and is a row when it does not.
ExtraExit(gate, next) ==
    /\ cycle.step = gate
    /\ \/ Goto(next) /\ UNCHANGED log
       \/ /\ cfg.param[gate] # 0
          /\ IF cfg.binding[gate] THEN Goto("sell") /\ UNCHANGED log
             ELSE Write(Row("signal", "shadow", {gate}, cycle.no)) /\ Goto(next)
    /\ UNCHANGED <<now, cfg, starts, position, unknown>>

\* PositionGone when the guard was first; any other exception leaves the position.
Sell ==
    /\ cycle.step = "sell" /\ Finish
    /\ \/ position # 0 /\ Write(Row("trade", "sell", {}, cycle.no)) /\ position' = 0
       \/ UNCHANGED <<log, position>>
    /\ UNCHANGED <<now, cfg, starts, unknown>>

\* others: positions of other markets.  Blocklist, pause and cluster, which come between, are
\* TradingCycle's.
Consider ==
    /\ cycle.step = "entry"
    /\ \E c \in Candidates, live \in Prices, free \in FreeCash, pnl \in DailyPnl,
         others \in SUBSET OtherMarkets, regimeOk \in BOOLEAN :
          LET cand == [signal |-> c.signal, closed |-> c.closed, close |-> c.close, atr |-> c.atr,
                       live |-> live]
              may  == CanOpen(Market, others \cup (IF cycle.held = 0 THEN {} ELSE {Market}),
                              LastTrade, now, Portfolio, pnl)
              base == EvaluateBuy(cand, may, Portfolio, free)
              d    == ChaseGuard(RegimeFilter(base, regimeOk \/ cfg.param["regime"] = 0,
                                              cfg.binding["regime"]),
                                 cand, cfg.param["chase"], cfg.binding["chase"])
          IN  cycle' = [cycle EXCEPT !.base = base, !.d = d,
                           !.step = IF d.action # "buy" THEN "note"
                                    ELSE IF cfg.param["veto"] = 0 THEN "buy" ELSE "ask"]
    /\ UNCHANGED <<now, cfg, starts, log, position, unknown>>

\* The row in llm_calls is the router's: no property here reads it.  An opinion that raises ends
\* the way a buy without an order does: no signal row (Buy).
Ask ==
    /\ cycle.step = "ask"
    /\ \E v \in Verdicts :
          LET d == SecondOpinion(cycle.d, v, cfg.binding["veto"])
          IN  cycle' = [cycle EXCEPT !.d = d, !.step = IF d.action = "buy" THEN "buy" ELSE "note"]
    /\ UNCHANGED <<now, cfg, starts, log, position, unknown>>

\* Filled, refused, or without an answer: then there is no signal row either.
Buy ==
    /\ cycle.step = "buy"
    /\ \/ /\ Write(Row("trade", "buy", {}, cycle.no)) /\ position' = Len(log')
          /\ Goto("note") /\ UNCHANGED unknown
       \/ Finish /\ UNCHANGED <<log, position, unknown>>
       \/ Finish /\ unknown' = cycle.no /\ UNCHANGED <<log, position>>
    /\ UNCHANGED <<now, cfg, starts>>

\* _log_signal; a row without a note is read by no analysis and left out.
Note ==
    /\ cycle.step = "note" /\ Finish
    /\ IF cycle.d.notes = {} THEN UNCHANGED log
       ELSE Write(Row("signal", cycle.d.action, cycle.d.notes, cycle.no))
    /\ UNCHANGED <<now, cfg, starts, position, unknown>>

(* Around it *)

\* The position guard, in its own thread.
Guard ==
    /\ position # 0 /\ position' = 0
    /\ Write(Row("trade", "sell", {}, 0))
    /\ UNCHANGED <<now, cfg, starts, unknown, cycle>>

\* A cycle may see one candle close, never two.
Tick ==
    /\ now < MaxTime /\ ~cycle.late /\ now' = now + 1
    /\ cycle' = [cycle EXCEPT !.late = @ \/ cycle.step # "idle"]
    /\ UNCHANGED <<cfg, starts, log, position, unknown>>

\* A crash or a stop, and a start that reads the configuration.
Restart ==
    /\ starts < MaxStarts /\ starts' = starts + 1
    /\ cfg' \in Configs /\ Finish
    /\ UNCHANGED <<now, log, position, unknown>>

Next ==
    \/ Reconcile \/ Start \/ Exits \/ Sell \/ Consider \/ Ask \/ Buy \/ Note
    \/ ExtraExit("timestop", "breakeven") \/ ExtraExit("breakeven", "entry")
    \/ Guard \/ Tick \/ Restart

Spec == Init /\ [][Next]_vars

-------------------------------------------------------------------------------
(* The analysis.  It reads the trades up to a row, and the signals up to that row or a   *)
(* later one: in the database both are the last, build_export reads the trades first.    *)

Cuts == 0..Len(log)

\* build_roundtrips: a purchase opens unless one is open; the first sale after it closes.
Opens(i) == IsTrade(i, "buy") /\ \A j \in Trades(i - 1) :
                (\A k \in Trades(i - 1) : k <= j) => log[j].what = "sell"
RoundTrips(n) ==
    {rt \in [buy : Trades(n), sell : Trades(n)] :
        /\ Opens(rt.buy) /\ IsTrade(rt.sell, "sell") /\ rt.buy < rt.sell
        /\ \A s \in rt.buy + 1..rt.sell - 1 : ~IsTrade(s, "sell")}

Distance(a, b) == Most(log[a].at - log[b].at, log[b].at - log[a].at)

Earliest(rts) == IF rts = {} THEN None ELSE CHOOSE r \in rts : \A q \in rts : r.buy <= q.buy

\* mutant: an exit event looks for a purchase at its own time
MatchNearPurchase(e, n) == Earliest({rt \in RoundTrips(n) : Distance(rt.buy, e) <= 0 /\ rt.buy <= e})

\* The nearest purchase in the window, the earliest of equals.
MatchSameCycle(e, n) ==
    LET near == {rt \in RoundTrips(n) : Distance(rt.buy, e) <= Window}
    IN  Earliest({rt \in near : \A q \in near : Distance(rt.buy, e) <= Distance(q.buy, e)})

\* The round trip that was open when the row was written.
MatchDuringPosition(e, n) == Earliest({rt \in RoundTrips(n) : rt.buy <= e /\ e <= rt.sell})

\* The entry gates that shadow_gate.py measures; an opinion goes by its row in llm_calls.
MeasuredEntries == {"regime", "chase"}

\* load_events
Events(gates, n) == {e \in 1..n : log[e].kind = "signal" /\ log[e].notes \cap gates # {}}

Match(e, n) == IF log[e].notes \subseteq EntryGates THEN MatchSameCycle(e, n)
               ELSE MatchDuringPosition(e, n)

Cohort(e, gate) == Fingerprint(log[e].cfg, gate)

-------------------------------------------------------------------------------
(* Properties *)

\* The result of an entry gate is that of the purchase it would have prevented: the round trip
\* found for a row is the one its own cycle opened, in the database and in every export, whatever
\* the guard sold meanwhile, whatever restarted and whichever gates bind.
EntryEventsMeasureTheirOwnPurchase ==
    \A n \in Cuts : \A e \in Events(MeasuredEntries, Len(log)) :
        LET rt == Match(e, n) IN rt # None => log[rt.buy].cycle = log[e].cycle

\* Regime and chase are measured without removing duplicates: no purchase carries two rows of
\* one gate, also when a later gate binds and the candidate comes back every cycle.
OneEventPerPurchase ==
    \A e, f \in Events(MeasuredEntries, Len(log)) :
        LET rt == Match(e, Len(log))
        IN  e # f /\ rt # None /\ rt = Match(f, Len(log))
            => log[e].notes \cap log[f].notes \cap MeasuredEntries = {}

\* A row of an exit gate is measured by the position it was written about.  A row without a round
\* trip is counted as an open position: it is one, or the guard sold it while the cycle still
\* held its own copy.
ExitEventsMeasureTheirPosition ==
    \A e \in Events(ExitGates, Len(log)) :
        LET rt == Match(e, Len(log))
        IN  IF rt # None THEN rt.buy = log[e].held
            ELSE \/ position = log[e].held
                 \/ \E s \in log[e].cycle..e : IsTrade(s, "sell")

\* Two rows of a gate with one hash were measured on one population: the same core, the same
\* binding gates with the same parameters, and the same gate.
CohortsAreHomogeneous ==
    \A gate \in AllGates : \A e, f \in Events({gate}, Len(log)) :
        (gate \in log[e].notes \cap log[f].notes /\ Cohort(e, gate) = Cohort(f, gate))
            => Population(log[e].cfg, gate) = Population(log[f].cfg, gate)

\* A gate in shadow costs no purchase and changes none: up to the order the decision has the
\* size and the levels it had before the gates, and only a binding gate takes it away.
ShadowNeverCosts ==
    cycle.base.action = "buy" =>
        IF cycle.d.action = "buy" THEN cycle.d.terms = cycle.base.terms
        ELSE \E gate \in EntryGates : cfg.binding[gate]
===============================================================================
