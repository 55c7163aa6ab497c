-------------------------- MODULE MeasurementProofs ---------------------------
(***************************************************************************)
(* What holds of the measurement for every set of configurations, of       *)
(* candidates and of markets: the hash of a gate separates exactly the     *)
(* populations that differ for it, a gate in shadow costs nothing, and the *)
(* round trip that a row is measured by is the one it tells about.         *)
(***************************************************************************)
EXTENDS Measurement, SequenceTheorems, WellFoundedInduction, TLAPS

-------------------------------------------------------------------------------
(* The fingerprint *)

Shaping(c) == {h \in AllGates : c.binding[h]}
InScope(c, g) == {h \in AllGates : HomeOf(h) \in GateSections(c, g)}

\* The gates whose parameters go into the hash are the binding ones and the gate itself.
LEMMA HashedParameters ==
  ASSUME NEW c \in Config, NEW g \in AllGates
  PROVE  {h \in InScope(c, g) : h = g \/ c.binding[h]} = Shaping(c) \cup {g}
  <1>1. ASSUME NEW h \in AllGates, h = g \/ c.binding[h]
        PROVE  h \in InScope(c, g)
    BY <1>1 DEF InScope, GateSections, HomeOf
  <1>. QED BY <1>1 DEF InScope, Shaping

\* The judge goes in when the second opinion binds or is the gate itself.
LEMMA HashedJudge ==
  ASSUME NEW c \in Config, NEW g \in AllGates
  PROVE  "llm" \in GateSections(c, g) <=> "veto" \in Shaping(c) \cup {g}
  <1>1. \A h \in AllGates : SectionOf(h) = "llm" <=> h = "veto"
    BY DEF AllGates, EntryGates, ExitGates, SectionOf
  <1>2. "veto" \in AllGates
    BY DEF AllGates, EntryGates
  <1>. QED BY <1>1, <1>2 DEF GateSections, Shaping

LEMMA FingerprintParts ==
  ASSUME NEW c \in Config, NEW g \in AllGates
  PROVE  Fingerprint(c, g) =
            [core    |-> c.core,
             binding |-> [h \in InScope(c, g) |-> c.binding[h]],
             param   |-> [h \in Shaping(c) \cup {g} |-> c.param[h]],
             judge   |-> IF "veto" \in Shaping(c) \cup {g} THEN {c.judge} ELSE {}]
  <1>1. Fingerprint(c, g) =
            [core    |-> c.core,
             binding |-> [h \in InScope(c, g) |-> c.binding[h]],
             param   |-> [h \in {h \in InScope(c, g) : h = g \/ c.binding[h]} |-> c.param[h]],
             judge   |-> IF "llm" \in GateSections(c, g) THEN {c.judge} ELSE {}]
    BY DEF Fingerprint, InScope
  <1>. QED BY <1>1, HashedParameters, HashedJudge

LEMMA PopulationParts ==
  ASSUME NEW c, NEW g
  PROVE  Population(c, g) =
            [core |-> c.core, shaping |-> Shaping(c),
             param |-> [h \in Shaping(c) \cup {g} |-> c.param[h]],
             judge |-> IF "veto" \in Shaping(c) \cup {g} THEN {c.judge} ELSE {}]
  BY DEF Population, Shaping

\* A hash is complete: it tells apart whatever changes the purchases that a gate judges, or how
\* it judges them, also when two parameters change together.
THEOREM FingerprintSeparates ==
  ASSUME NEW c \in Config, NEW d \in Config, NEW g \in AllGates,
         Fingerprint(c, g) = Fingerprint(d, g)
  PROVE  Population(c, g) = Population(d, g)
  <1>1. /\ c.core = d.core
        /\ [h \in InScope(c, g) |-> c.binding[h]] = [h \in InScope(d, g) |-> d.binding[h]]
        /\ [h \in Shaping(c) \cup {g} |-> c.param[h]] = [h \in Shaping(d) \cup {g} |-> d.param[h]]
        /\ (IF "veto" \in Shaping(c) \cup {g} THEN {c.judge} ELSE {})
               = (IF "veto" \in Shaping(d) \cup {g} THEN {d.judge} ELSE {})
    <2>. DEFINE P(e) == [core    |-> e.core,
                         binding |-> [h \in InScope(e, g) |-> e.binding[h]],
                         param   |-> [h \in Shaping(e) \cup {g} |-> e.param[h]],
                         judge   |-> IF "veto" \in Shaping(e) \cup {g} THEN {e.judge} ELSE {}]
    <2>1. P(c) = P(d)
      BY FingerprintParts
    <2>2. P(c).core = P(d).core /\ P(c).binding = P(d).binding
          /\ P(c).param = P(d).param /\ P(c).judge = P(d).judge
      BY <2>1
    <2>. QED BY <2>2
  <1>2. ASSUME NEW h \in AllGates PROVE c.binding[h] <=> d.binding[h]
    <2>1. InScope(c, g) = InScope(d, g)
      BY <1>1
    <2>2. \A i \in InScope(c, g) : c.binding[i] = d.binding[i]
      BY <1>1, <2>1
    <2>3. (c.binding[h] => h \in InScope(c, g)) /\ (d.binding[h] => h \in InScope(d, g))
      BY DEF InScope, GateSections, HomeOf
    <2>. QED BY <2>1, <2>2, <2>3
  <1>3. Shaping(c) = Shaping(d)
    BY <1>2 DEF Shaping
  <1>. QED BY <1>1, <1>3, PopulationParts

\* A hash is stable: a change that neither the purchases nor the judgement of a gate can feel,
\* as of the parameters of another gate in shadow, keeps the cohort.
THEOREM FingerprintKeeps ==
  ASSUME NEW c \in Config, NEW d \in Config, NEW g \in AllGates,
         Population(c, g) = Population(d, g)
  PROVE  Fingerprint(c, g) = Fingerprint(d, g)
  <1>1. /\ c.core = d.core /\ Shaping(c) = Shaping(d)
        /\ [h \in Shaping(c) \cup {g} |-> c.param[h]] = [h \in Shaping(d) \cup {g} |-> d.param[h]]
        /\ (IF "veto" \in Shaping(c) \cup {g} THEN {c.judge} ELSE {})
               = (IF "veto" \in Shaping(d) \cup {g} THEN {d.judge} ELSE {})
    <2>. DEFINE P(e) == [core |-> e.core, shaping |-> Shaping(e),
                         param |-> [h \in Shaping(e) \cup {g} |-> e.param[h]],
                         judge |-> IF "veto" \in Shaping(e) \cup {g} THEN {e.judge} ELSE {}]
    <2>1. P(c) = P(d)
      BY PopulationParts
    <2>2. P(c).core = P(d).core /\ P(c).shaping = P(d).shaping
          /\ P(c).param = P(d).param /\ P(c).judge = P(d).judge
      BY <2>1
    <2>. QED BY <2>2
  <1>2. \A h \in AllGates : c.binding[h] = d.binding[h]
    <2>1. c.binding \in [AllGates -> BOOLEAN] /\ d.binding \in [AllGates -> BOOLEAN]
      BY DEF Config
    <2>2. \A h \in AllGates : c.binding[h] <=> d.binding[h]
      BY <1>1 DEF Shaping
    <2>. QED BY <2>1, <2>2
  <1>3. GateSections(c, g) = GateSections(d, g)
    BY <1>2 DEF GateSections
  <1>4. InScope(c, g) = InScope(d, g)
    BY <1>3 DEF InScope
  <1>5. [h \in InScope(c, g) |-> c.binding[h]] = [h \in InScope(d, g) |-> d.binding[h]]
    BY <1>2, <1>4 DEF InScope
  <1>6. Fingerprint(c, g) =
            [core    |-> d.core,
             binding |-> [h \in InScope(d, g) |-> d.binding[h]],
             param   |-> [h \in Shaping(d) \cup {g} |-> d.param[h]],
             judge   |-> IF "veto" \in Shaping(d) \cup {g} THEN {d.judge} ELSE {}]
    <2>1. Fingerprint(c, g) =
            [core    |-> c.core,
             binding |-> [h \in InScope(c, g) |-> c.binding[h]],
             param   |-> [h \in Shaping(c) \cup {g} |-> c.param[h]],
             judge   |-> IF "veto" \in Shaping(c) \cup {g} THEN {c.judge} ELSE {}]
      BY FingerprintParts
    <2>. QED BY <1>1, <1>5, <2>1
  <1>. QED BY <1>6, FingerprintParts

-------------------------------------------------------------------------------
(* Types *)

LEMMA Numbers ==
  /\ MakerPct \in Nat /\ TakerPct \in Nat /\ SlippagePct \in Nat /\ StopMult \in Nat
  /\ Reward \in Nat /\ Bucket \in Nat /\ PositionPct \in Nat /\ MinOrder \in Nat
  BY FeeAssumption, DecisionAssumption, RiskAssumption

LEMMA SizeNumber ==
  ASSUME NEW portfolio \in Nat, NEW free \in Nat
  PROVE  PositionSize(portfolio, free) \in Nat
  <1>1. portfolio * PositionPct \in Nat /\ Bucket \in Nat
    BY Numbers
  <1>2. (portfolio * PositionPct) \div 100 \in Nat
    BY <1>1
  <1>. QED BY <1>1, <1>2 DEF PositionSize, Least

LEMMA SkipType == Skip \in Decision /\ Skip.action = "skip"
  BY DEF Skip, NoTerms, Decision, Terms

LEMMA EvaluateType ==
  ASSUME NEW cand, cand.live \in Nat, cand.atr \in Nat, NEW may,
         NEW portfolio \in Nat, NEW free \in Nat
  PROVE  EvaluateBuy(cand, may, portfolio, free) \in Decision
  <1>1. PositionSize(portfolio, free) \in Nat
    BY SizeNumber
  <1>2. cand.live - StopDistance(cand.atr) \in Int /\ cand.live + TargetDistance(cand.atr) \in Int
    BY Numbers DEF StopDistance, TargetDistance
  <1>3. [action |-> "buy", notes |-> {},
         terms |-> [size   |-> PositionSize(portfolio, free),
                    stop   |-> cand.live - StopDistance(cand.atr),
                    target |-> cand.live + TargetDistance(cand.atr)]] \in Decision
    BY <1>1, <1>2 DEF Decision, Terms
  <1>. QED BY <1>3, SkipType DEF EvaluateBuy

\* A gate leaves a decision as it is but for a note, or takes it away when it binds.
LEMMA RefuseParts ==
  ASSUME NEW x \in Decision, NEW gate \in EntryGates, NEW hit, NEW binding
  PROVE  /\ Refuse(x, gate, hit, binding) \in Decision
         /\ x.action # "buy" => Refuse(x, gate, hit, binding) = x
         /\ x.action = "buy" => \/ binding /\ Refuse(x, gate, hit, binding) = Skip
                                \/ /\ Refuse(x, gate, hit, binding).action = "buy"
                                   /\ Refuse(x, gate, hit, binding).terms = x.terms
  <1>1. /\ [x EXCEPT !.notes = @ \cup {gate}] \in Decision
        /\ [x EXCEPT !.notes = @ \cup {gate}].action = x.action
        /\ [x EXCEPT !.notes = @ \cup {gate}].terms = x.terms
    BY DEF Decision
  <1>. QED BY <1>1, SkipType DEF Refuse

LEMMA SecondOpinionParts ==
  ASSUME NEW x \in Decision, NEW v \in Verdicts, NEW binding
  PROVE  /\ SecondOpinion(x, v, binding) \in Decision
         /\ SecondOpinion(x, v, binding).action = "buy" =>
               x.action = "buy" /\ SecondOpinion(x, v, binding).terms = x.terms
         /\ SecondOpinion(x, v, binding).action # "buy" => x.action # "buy" \/ binding
  <1>1. "veto" \in EntryGates
    BY DEF EntryGates
  <1>. QED BY <1>1, SkipType, RefuseParts DEF SecondOpinion

-------------------------------------------------------------------------------
(* The steps *)

Rows == [kind : {"trade", "signal"}, what : {"buy", "sell", "skip", "shadow"},
         notes : SUBSET AllGates, at : 0..MaxTime, cfg : Configs, cycle : Nat, held : Nat]

Cycles(n) == [step : Steps, no : 0..n + 1, held : 0..n, late : BOOLEAN, d : Decision, base : Decision]

\* For what a gate costs, types and the property itself are inductive.
Inv == TypeOK /\ ShadowNeverCosts

LEMMA TypeParts ==
  TypeOK <=> /\ now \in 0..MaxTime /\ cfg \in Configs /\ starts \in 0..MaxStarts
             /\ log \in Seq(Rows) /\ position \in 0..Len(log) /\ unknown \in Nat
             /\ cycle \in Cycles(Len(log))
  BY DEF TypeOK, Rows, Cycles

LEMMA Bounds ==
  MaxTime \in Nat /\ MaxRows \in Nat /\ MaxStarts \in Nat /\ Portfolio \in Nat /\ FreeCash \subseteq Nat
  BY MeasurementAssumption

\* What a cycle is stays true when the log grows.
LEMMA LongerLog ==
  ASSUME NEW n \in Nat, NEW m \in Nat, n <= m
  PROVE  0..n \subseteq 0..m /\ Cycles(n) \subseteq Cycles(m)
  BY DEF Cycles

LEMMA NoCycleType ==
  ASSUME NEW n \in Nat
  PROVE  NoCycle \in Cycles(n) /\ NoCycle.base.action = "skip"
  BY SkipType DEF NoCycle, Cycles, Steps

\* A row of the cycle or of the guard.
LEMMA RowType ==
  ASSUME TypeOK, NEW kind \in {"trade", "signal"}, NEW what \in {"buy", "sell", "skip", "shadow"},
         NEW notes \in SUBSET AllGates, NEW no \in Nat
  PROVE  Row(kind, what, notes, no) \in Rows
  <1>1. cycle.held \in Nat
    BY TypeParts DEF Cycles
  <1>. QED BY <1>1, TypeParts DEF Row, Rows

LEMMA WriteType ==
  ASSUME TypeOK, NEW row \in Rows, Write(row)
  PROVE  log' \in Seq(Rows) /\ Len(log) \in Nat /\ Len(log') = Len(log) + 1
  <1>1. log \in Seq(Rows) /\ log' = Append(log, row)
    BY TypeParts DEF Write
  <1>. QED BY <1>1, AppendProperties, LenProperties

\* A step that at most appends a row: what is left to show is the cycle's state.
LEMMA LogStep ==
  ASSUME TypeOK, UNCHANGED <<now, cfg, starts>>,
         UNCHANGED log \/ \E row \in Rows : Write(row),
         position' \in {0, position} \/ position' = Len(log'), unknown' \in Nat,
         cycle' \in Cycles(Len(log))
  PROVE  TypeOK'
  <1>1. Len(log) \in Nat /\ log \in Seq(Rows) /\ position \in 0..Len(log)
    BY TypeParts, LenProperties
  <1>2. log' \in Seq(Rows) /\ Len(log') \in Nat /\ Len(log) <= Len(log')
    <2>1. CASE UNCHANGED log
      BY <1>1, <2>1
    <2>2. CASE \E row \in Rows : Write(row)
      BY <1>1, <2>2, WriteType
    <2>. QED BY <2>1, <2>2
  <1>3. cycle' \in Cycles(Len(log'))
    BY <1>1, <1>2, LongerLog
  <1>4. position' \in 0..Len(log')
    BY <1>1, <1>2
  <1>. QED BY <1>2, <1>3, <1>4, TypeParts DEF TypeOK, Rows, Cycles

\* A step of the cycle that leaves both decisions alone.
LEMMA GotoType ==
  ASSUME TypeOK, NEW step \in Steps, Goto(step)
  PROVE  cycle' \in Cycles(Len(log)) /\ cycle'.d = cycle.d /\ cycle'.base = cycle.base
  BY TypeParts DEF Goto, Cycles

LEMMA SameDecisions ==
  ASSUME ShadowNeverCosts, cycle'.d = cycle.d, cycle'.base = cycle.base, UNCHANGED cfg
  PROVE  ShadowNeverCosts'
  BY DEF ShadowNeverCosts

LEMMA NoDecision ==
  ASSUME Finish
  PROVE  ShadowNeverCosts' /\ \A n \in Nat : cycle' \in Cycles(n)
  <1>1. cycle' = NoCycle
    BY DEF Finish
  <1>2. cycle'.base.action = "skip"
    BY <1>1, NoCycleType
  <1>. QED BY <1>1, <1>2, NoCycleType DEF ShadowNeverCosts

LEMMA StartState == Init => Inv
  <1>. SUFFICES ASSUME Init PROVE Inv
    OBVIOUS
  <1>1. Len(log) = 0 /\ log \in Seq(Rows)
    BY EmptySeq DEF Init
  <1>2. cycle \in Cycles(Len(log)) /\ cycle.base.action = "skip"
    BY <1>1, NoCycleType DEF Init
  <1>. QED BY <1>1, <1>2, TypeParts, Bounds DEF Init, Inv, ShadowNeverCosts

LEMMA ReconcileKeeps ==
  ASSUME Inv, Reconcile
  PROVE  Inv'
  <1>1. TypeOK /\ UNCHANGED <<now, cfg, starts, cycle>> /\ unknown \in Nat
    BY TypeParts DEF Inv, Reconcile
  <1>2. Row("trade", "buy", {}, unknown) \in Rows
    BY <1>1, RowType
  <1>3. \/ UNCHANGED <<log, position>>
        \/ (\E row \in Rows : Write(row)) /\ position' = Len(log')
    BY <1>2 DEF Reconcile
  <1>4. cycle' \in Cycles(Len(log)) /\ unknown' \in Nat
    BY <1>1, TypeParts DEF Reconcile
  <1>5. TypeOK'
    BY <1>1, <1>3, <1>4, LogStep
  <1>. QED BY <1>1, <1>5, SameDecisions DEF Inv

LEMMA StartKeeps ==
  ASSUME Inv, Start
  PROVE  Inv'
  <1>1. TypeOK /\ UNCHANGED <<now, cfg, starts, log, position, unknown>>
    BY DEF Inv, Start
  <1>2. Len(log) \in Nat /\ position \in 0..Len(log) /\ unknown \in Nat
    BY <1>1, TypeParts, LenProperties
  <1>3. cycle' = [NoCycle EXCEPT !.step = IF position = 0 THEN "entry" ELSE "exits",
                                 !.no = Len(log) + 1, !.held = position]
    BY DEF Start
  <1>4. cycle' \in Cycles(Len(log)) /\ cycle'.base = NoCycle.base
    <2>1. NoCycle \in Cycles(Len(log)) /\ Len(log) + 1 \in 0..Len(log) + 1
      BY <1>2, NoCycleType
    <2>. QED BY <1>2, <1>3, <2>1 DEF Cycles, Steps
  <1>5. TypeOK'
    BY <1>1, <1>2, <1>4, LogStep
  <1>6. ShadowNeverCosts'
    BY <1>2, <1>4, NoCycleType DEF ShadowNeverCosts
  <1>. QED BY <1>5, <1>6 DEF Inv

LEMMA ExitsKeeps ==
  ASSUME Inv, Exits
  PROVE  Inv'
  <1>1. TypeOK /\ UNCHANGED <<now, cfg, starts, log, position, unknown>>
    BY DEF Inv, Exits
  <1>2. Goto("sell") \/ Goto("timestop")
    BY DEF Exits
  <1>3. cycle' \in Cycles(Len(log)) /\ cycle'.d = cycle.d /\ cycle'.base = cycle.base
    BY <1>1, <1>2, GotoType DEF Steps
  <1>4. TypeOK'
    BY <1>1, <1>3, TypeParts, LogStep
  <1>. QED BY <1>1, <1>3, <1>4, SameDecisions DEF Inv

LEMMA ExtraExitKeeps ==
  ASSUME Inv, NEW gate \in ExitGates, NEW next \in Steps, ExtraExit(gate, next)
  PROVE  Inv'
  <1>1. TypeOK /\ UNCHANGED <<now, cfg, starts, position, unknown>> /\ cycle.no \in Nat
        /\ Len(log) \in Nat
    BY TypeParts, LenProperties DEF Inv, ExtraExit, Cycles
  <1>2. Row("signal", "shadow", {gate}, cycle.no) \in Rows
    BY <1>1, RowType DEF AllGates
  <1>3. Goto(next) \/ Goto("sell")
    BY DEF ExtraExit
  <1>4. UNCHANGED log \/ \E row \in Rows : Write(row)
    BY <1>2 DEF ExtraExit
  <1>5. cycle' \in Cycles(Len(log)) /\ cycle'.d = cycle.d /\ cycle'.base = cycle.base
    BY <1>1, <1>3, GotoType DEF Steps
  <1>6. TypeOK'
    BY <1>1, <1>4, <1>5, TypeParts, LogStep
  <1>. QED BY <1>1, <1>5, <1>6, SameDecisions DEF Inv

LEMMA SellKeeps ==
  ASSUME Inv, Sell
  PROVE  Inv'
  <1>1. TypeOK /\ UNCHANGED <<now, cfg, starts, unknown>> /\ cycle.no \in Nat /\ Len(log) \in Nat
    BY TypeParts, LenProperties DEF Inv, Sell, Cycles
  <1>2. Row("trade", "sell", {}, cycle.no) \in Rows
    BY <1>1, RowType
  <1>3. /\ UNCHANGED log \/ \E row \in Rows : Write(row)
        /\ position' \in {0, position}
    BY <1>2 DEF Sell
  <1>4. cycle' \in Cycles(Len(log)) /\ ShadowNeverCosts'
    BY <1>1, NoDecision DEF Sell
  <1>5. TypeOK'
    BY <1>1, <1>3, <1>4, TypeParts, LogStep
  <1>. QED BY <1>4, <1>5 DEF Inv

LEMMA ConsiderKeeps ==
  ASSUME Inv, Consider
  PROVE  Inv'
  <1>1. TypeOK /\ UNCHANGED <<now, cfg, starts, log, position, unknown>>
    BY DEF Inv, Consider
  <1>. DEFINE cand(c, live) == [signal |-> c.signal, closed |-> c.closed, close |-> c.close,
                                atr |-> c.atr, live |-> live]
              may(others, pnl) == CanOpen(Market, others \cup (IF cycle.held = 0 THEN {} ELSE {Market}),
                                          LastTrade, now, Portfolio, pnl)
              open(base, regimeOk) == RegimeFilter(base, regimeOk \/ cfg.param["regime"] = 0,
                                                   cfg.binding["regime"])
              step(d) == IF d.action # "buy" THEN "note"
                         ELSE IF cfg.param["veto"] = 0 THEN "buy" ELSE "ask"
  <1>2. PICK c \in Candidates, live \in Prices, free \in FreeCash, pnl \in DailyPnl,
             others \in SUBSET OtherMarkets, regimeOk \in BOOLEAN :
          LET base == EvaluateBuy(cand(c, live), may(others, pnl), Portfolio, free)
              d    == ChaseGuard(open(base, regimeOk), cand(c, live), cfg.param["chase"],
                                 cfg.binding["chase"])
          IN  cycle' = [cycle EXCEPT !.base = base, !.d = d, !.step = step(d)]
    BY DEF Consider
  <1>. DEFINE base == EvaluateBuy(cand(c, live), may(others, pnl), Portfolio, free)
              seen == open(base, regimeOk)
              d    == ChaseGuard(seen, cand(c, live), cfg.param["chase"], cfg.binding["chase"])
  <1>3. live \in Nat /\ c.atr \in Nat /\ free \in Nat /\ Portfolio \in Nat
    BY MeasurementAssumption
  <1>4. base \in Decision
    <2>1. cand(c, live).live \in Nat /\ cand(c, live).atr \in Nat
      BY <1>3
    <2>. HIDE DEF cand, may
    <2>. QED BY <1>3, <2>1, EvaluateType
  <1>5. {"regime", "chase"} \subseteq EntryGates
    BY DEF EntryGates
  <1>. HIDE DEF base
  <1>6. /\ seen \in Decision
        /\ base.action # "buy" => seen = base
        /\ base.action = "buy" => \/ cfg.binding["regime"] /\ seen = Skip
                                  \/ seen.action = "buy" /\ seen.terms = base.terms
    BY <1>4, <1>5, RefuseParts DEF RegimeFilter
  <1>. HIDE DEF seen
  <1>7. /\ d \in Decision
        /\ seen.action # "buy" => d = seen
        /\ seen.action = "buy" => \/ cfg.binding["chase"] /\ d = Skip
                                  \/ d.action = "buy" /\ d.terms = seen.terms
    BY <1>5, <1>6, RefuseParts DEF ChaseGuard
  <1>8. cycle' = [cycle EXCEPT !.base = base, !.d = d, !.step = step(d)]
    BY <1>2 DEF base, seen
  <1>. HIDE DEF d
  <1>9. cycle' \in Cycles(Len(log)) /\ cycle'.base = base /\ cycle'.d = d
    BY <1>1, <1>4, <1>7, <1>8, TypeParts DEF Cycles, Steps
  <1>10. TypeOK'
    BY <1>1, <1>9, TypeParts, LogStep
  <1>11. ShadowNeverCosts'
    BY <1>1, <1>5, <1>6, <1>7, <1>9, SkipType DEF ShadowNeverCosts
  <1>. QED BY <1>10, <1>11 DEF Inv

LEMMA AskKeeps ==
  ASSUME Inv, Ask
  PROVE  Inv'
  <1>1. TypeOK /\ UNCHANGED <<now, cfg, starts, log, position, unknown>>
    BY DEF Inv, Ask
  <1>2. PICK v \in Verdicts :
          LET d == SecondOpinion(cycle.d, v, cfg.binding["veto"])
          IN  cycle' = [cycle EXCEPT !.d = d, !.step = IF d.action = "buy" THEN "buy" ELSE "note"]
    BY DEF Ask
  <1>. DEFINE d == SecondOpinion(cycle.d, v, cfg.binding["veto"])
  <1>3. cycle.d \in Decision
    BY <1>1, TypeParts DEF Cycles
  <1>4. /\ d \in Decision
        /\ d.action = "buy" => cycle.d.action = "buy" /\ d.terms = cycle.d.terms
        /\ d.action # "buy" => cycle.d.action # "buy" \/ cfg.binding["veto"]
    BY <1>3, SecondOpinionParts
  <1>5. cycle' = [cycle EXCEPT !.d = d, !.step = IF d.action = "buy" THEN "buy" ELSE "note"]
    BY <1>2
  <1>. HIDE DEF d
  <1>6. cycle' \in Cycles(Len(log)) /\ cycle'.d = d /\ cycle'.base = cycle.base
    BY <1>1, <1>4, <1>5, TypeParts DEF Cycles, Steps
  <1>7. TypeOK'
    BY <1>1, <1>6, TypeParts, LogStep
  <1>8. ShadowNeverCosts'
    BY <1>1, <1>4, <1>6 DEF Inv, ShadowNeverCosts, EntryGates
  <1>. QED BY <1>7, <1>8 DEF Inv

LEMMA BuyKeeps ==
  ASSUME Inv, Buy
  PROVE  Inv'
  <1>1. TypeOK /\ UNCHANGED <<now, cfg, starts>> /\ cycle.no \in Nat /\ Len(log) \in Nat
        /\ unknown \in Nat
    BY TypeParts, LenProperties DEF Inv, Buy, Cycles
  <1>2. Row("trade", "buy", {}, cycle.no) \in Rows
    BY <1>1, RowType
  <1>3. /\ UNCHANGED log \/ \E row \in Rows : Write(row)
        /\ position' \in {0, position} \/ position' = Len(log')
        /\ unknown' \in Nat
    BY <1>1, <1>2 DEF Buy
  <1>4. cycle' \in Cycles(Len(log)) /\ ShadowNeverCosts'
    <2>1. CASE Goto("note")
      <3>1. cycle' \in Cycles(Len(log)) /\ cycle'.d = cycle.d /\ cycle'.base = cycle.base
        BY <1>1, <2>1, GotoType DEF Steps
      <3>. QED BY <1>1, <3>1, SameDecisions DEF Inv
    <2>2. CASE Finish
      BY <1>1, <2>2, NoDecision
    <2>. QED BY <2>1, <2>2 DEF Buy
  <1>5. TypeOK'
    BY <1>1, <1>3, <1>4, LogStep
  <1>. QED BY <1>4, <1>5 DEF Inv

LEMMA NoteKeeps ==
  ASSUME Inv, Note
  PROVE  Inv'
  <1>1. TypeOK /\ UNCHANGED <<now, cfg, starts, position, unknown>> /\ Len(log) \in Nat
        /\ cycle.no \in Nat /\ cycle.d \in Decision
    BY TypeParts, LenProperties DEF Inv, Note, Cycles
  <1>2. Row("signal", cycle.d.action, cycle.d.notes, cycle.no) \in Rows
    BY <1>1, RowType DEF Decision, AllGates
  <1>3. UNCHANGED log \/ \E row \in Rows : Write(row)
    BY <1>2 DEF Note
  <1>4. cycle' \in Cycles(Len(log)) /\ ShadowNeverCosts'
    BY <1>1, NoDecision DEF Note
  <1>5. TypeOK'
    BY <1>1, <1>3, <1>4, TypeParts, LogStep
  <1>. QED BY <1>4, <1>5 DEF Inv

LEMMA GuardKeeps ==
  ASSUME Inv, Guard
  PROVE  Inv'
  <1>1. TypeOK /\ UNCHANGED <<now, cfg, starts, unknown, cycle>> /\ position' = 0
    BY DEF Inv, Guard
  <1>2. \E row \in Rows : Write(row)
    BY <1>1, RowType DEF Guard
  <1>3. TypeOK'
    BY <1>1, <1>2, TypeParts, LogStep
  <1>. QED BY <1>1, <1>3, SameDecisions DEF Inv

LEMMA TickKeeps ==
  ASSUME Inv, Tick
  PROVE  Inv'
  <1>1. TypeOK /\ UNCHANGED <<cfg, starts, log, position, unknown>> /\ now' \in 0..MaxTime
    BY Bounds, TypeParts DEF Inv, Tick
  <1>2. cycle' \in Cycles(Len(log)) /\ cycle'.d = cycle.d /\ cycle'.base = cycle.base
    BY <1>1, TypeParts DEF Tick, Cycles
  <1>3. TypeOK'
    BY <1>1, <1>2, TypeParts DEF TypeOK, Rows, Cycles
  <1>. QED BY <1>1, <1>2, <1>3, SameDecisions DEF Inv

LEMMA RestartKeeps ==
  ASSUME Inv, Restart
  PROVE  Inv'
  <1>1. TypeOK /\ UNCHANGED <<now, log, position, unknown>> /\ cfg' \in Configs
        /\ starts' \in 0..MaxStarts /\ Len(log) \in Nat
    BY Bounds, TypeParts, LenProperties DEF Inv, Restart
  <1>2. cycle' \in Cycles(Len(log)) /\ ShadowNeverCosts'
    BY <1>1, NoDecision DEF Restart
  <1>3. TypeOK'
    BY <1>1, <1>2, TypeParts DEF TypeOK, Rows, Cycles
  <1>. QED BY <1>2, <1>3 DEF Inv

LEMMA StepKeeps == Inv /\ [Next]_vars => Inv'
  <1>. SUFFICES ASSUME Inv, [Next]_vars PROVE Inv'
    OBVIOUS
  <1>1. CASE ExtraExit("timestop", "breakeven")
    BY <1>1, ExtraExitKeeps DEF ExitGates, Steps
  <1>2. CASE ExtraExit("breakeven", "entry")
    BY <1>2, ExtraExitKeeps DEF ExitGates, Steps
  <1>3. CASE UNCHANGED vars
    BY <1>3 DEF vars, Inv, TypeOK, ShadowNeverCosts
  <1>. QED BY <1>1, <1>2, <1>3, ReconcileKeeps, StartKeeps, ExitsKeeps, SellKeeps, ConsiderKeeps,
              AskKeeps, BuyKeeps, NoteKeeps, GuardKeeps, TickKeeps, RestartKeeps DEF Next

-------------------------------------------------------------------------------
(* Rows and round trips: the inductive invariant.  l is the log. *)

Bought(l, i) == l[i].kind = "trade" /\ l[i].what = "buy"
Sold(l, i)   == l[i].kind = "trade" /\ l[i].what = "sell"
Noted(l, i, gates) == l[i].kind = "signal" /\ l[i].notes \cap gates # {}

Chronological(l, time) ==
    \A i \in 1..Len(l) : l[i].at <= time /\ \A j \in i..Len(l) : l[i].at <= l[j].at

\* A cycle writes its rows behind the row it counts from.
Numbered(l) == \A i \in 1..Len(l) : l[i].cycle <= i

Sides(l) == \A i \in 1..Len(l) : l[i].kind = "trade" => Bought(l, i) \/ Sold(l, i)

\* Between two purchases there is a sale and the cooldown.
Purchases(l) ==
    \A i, j \in 1..Len(l) : Bought(l, i) /\ Bought(l, j) /\ i < j =>
        (\E s \in i + 1..j - 1 : Sold(l, s)) /\ l[i].at + Cooldown <= l[j].at

\* The open position is the last trade; every other purchase was sold.
Positioned(l, p) ==
    /\ p # 0 => p \in 1..Len(l) /\ Bought(l, p) /\ \A i \in p + 1..Len(l) : ~Bought(l, i) /\ ~Sold(l, i)
    /\ \A i \in 1..Len(l) : Bought(l, i) /\ i # p => \E s \in i + 1..Len(l) : Sold(l, s)

\* The row of an entry gate stands behind the purchase of its cycle, at most one candle later,
\* and is the only one of that cycle.
EntryRow(l, e) ==
    /\ l[e].notes \subseteq EntryGates
    /\ \E b \in 1..e - 1 : Bought(l, b) /\ l[b].cycle = l[e].cycle /\ l[e].at <= l[b].at + 1
    /\ \A f \in 1..e - 1 : Noted(l, f, EntryGates) => l[f].cycle # l[e].cycle
EntryRows(l) == \A e \in 1..Len(l) : Noted(l, e, EntryGates) => EntryRow(l, e)

\* A cycle that counts from row c and holds the purchase of row h, when there are n rows.
Held(l, h, c, n) ==
    /\ h \in 1..c - 1 /\ Bought(l, h)
    /\ \A i \in h + 1..c - 1 : ~Bought(l, i) /\ ~Sold(l, i)
    /\ \A i \in h + 1..n : ~Bought(l, i)

\* The row of an exit gate stands in a cycle that holds the position the row tells.
ExitRow(l, e) ==
    l[e].notes \subseteq ExitGates /\ l[e].cycle <= e /\ Held(l, l[e].held, l[e].cycle, e)
ExitRows(l) == \A e \in 1..Len(l) : Noted(l, e, ExitGates) => ExitRow(l, e)

\* A purchase may be written now.
Free(l, p, time) ==
    p = 0 /\ \A i \in 1..Len(l) : Bought(l, i) \/ Sold(l, i) => l[i].at + Cooldown <= time

-------------------------------------------------------------------------------
(* A log with a row more *)

Grown(l, k, row) ==
    /\ Len(k) = Len(l) + 1 /\ k[Len(l) + 1] = row
    /\ \A i \in 1..Len(l) : k[i] = l[i]

LEMMA AppendGrows ==
  ASSUME NEW l \in Seq(Rows), NEW row \in Rows
  PROVE  Append(l, row) \in Seq(Rows) /\ Grown(l, Append(l, row), row)
  <1>1. Len(l) \in Nat
    BY LenProperties
  <1>. QED BY <1>1, AppendProperties DEF Grown

LEMMA LogNumbers ==
  ASSUME NEW l \in Seq(Rows)
  PROVE  /\ Len(l) \in Nat
         /\ \A i \in 1..Len(l) : /\ l[i] \in Rows /\ l[i].at \in Nat /\ l[i].cycle \in Nat
                                 /\ l[i].held \in Nat
  <1>1. Len(l) \in Nat /\ \A i \in 1..Len(l) : l[i] \in Rows
    BY ElementOfSeq, LenProperties
  <1>. QED BY <1>1, Bounds DEF Rows

LEMMA GrownChronological ==
  ASSUME NEW l \in Seq(Rows), NEW k, NEW row, Grown(l, k, row), NEW time \in Nat,
         Chronological(l, time), row.at = time
  PROVE  Chronological(k, time)
  BY LogNumbers DEF Grown, Chronological

LEMMA GrownNumbered ==
  ASSUME NEW l \in Seq(Rows), NEW k, NEW row, Grown(l, k, row), Numbered(l), row.cycle <= Len(l) + 1
  PROVE  Numbered(k)
  BY LogNumbers DEF Grown, Numbered

LEMMA GrownSides ==
  ASSUME NEW l \in Seq(Rows), NEW k, NEW row, Grown(l, k, row), Sides(l),
         row.kind = "trade" => row.what \in {"buy", "sell"}
  PROVE  Sides(k)
  <1>1. Len(l) \in Nat /\ Len(k) = Len(l) + 1 /\ k[Len(k)] = row /\ \A i \in 1..Len(l) : k[i] = l[i]
    BY LogNumbers DEF Grown
  <1>. QED BY <1>1 DEF Sides, Bought, Sold

\* No row but a purchase can disturb the order of the purchases.
LEMMA GrownPurchases ==
  ASSUME NEW l \in Seq(Rows), NEW k, NEW row, Grown(l, k, row), Purchases(l),
         Bought(k, Len(k)) => \A i \in 1..Len(l) : Bought(l, i) =>
             (\E s \in i + 1..Len(l) : Sold(l, s)) /\ l[i].at + Cooldown <= row.at
  PROVE  Purchases(k)
  <1>. DEFINE n == Len(l)
              m == n + 1
  <1>1. n \in Nat /\ Len(k) = m /\ k[m] = row
    BY LogNumbers DEF Grown
  <1>2. \A i \in 1..n : k[i] = l[i]
    BY DEF Grown
  <1>. SUFFICES ASSUME NEW i \in 1..m, NEW j \in 1..m, Bought(k, i), Bought(k, j), i < j
                PROVE  (\E s \in i + 1..j - 1 : Sold(k, s)) /\ k[i].at + Cooldown <= k[j].at
    BY <1>1 DEF Purchases
  <1>3. i \in 1..n /\ k[i] = l[i] /\ Bought(l, i)
    BY <1>1, <1>2 DEF Bought
  <1>4. PICK s \in i + 1..j - 1 : Sold(l, s) /\ l[i].at + Cooldown <= k[j].at
    <2>1. CASE j = m
      BY <1>1, <1>3, <2>1
    <2>2. CASE j # m
      <3>1. j \in 1..n /\ k[j] = l[j]
        BY <1>1, <1>2, <2>2
      <3>. QED BY <1>3, <3>1 DEF Purchases, Bought
    <2>. QED BY <2>1, <2>2
  <1>5. s \in 1..n /\ k[s] = l[s]
    BY <1>1, <1>2
  <1>. QED BY <1>3, <1>4, <1>5 DEF Sold

LEMMA GrownSale ==
  ASSUME NEW l \in Seq(Rows), NEW k, NEW row, Grown(l, k, row), Purchases(l),
         row.kind = "trade", row.what = "sell"
  PROVE  Purchases(k) /\ Positioned(k, 0)
  <1>1. Len(l) \in Nat /\ Len(k) = Len(l) + 1 /\ Sold(k, Len(k)) /\ ~Bought(k, Len(k))
    BY LogNumbers DEF Grown, Sold, Bought
  <1>2. Purchases(k)
    BY <1>1, GrownPurchases
  <1>3. ASSUME NEW i \in 1..Len(k), Bought(k, i) PROVE \E s \in i + 1..Len(k) : Sold(k, s)
    <2>1. i # Len(k)
      BY <1>1, <1>3
    <2>. QED BY <1>1, <2>1
  <1>. QED BY <1>2, <1>3 DEF Positioned

LEMMA GrownPurchase ==
  ASSUME NEW l \in Seq(Rows), NEW k, NEW row, Grown(l, k, row), NEW time \in Nat, NEW p,
         Purchases(l), Positioned(l, p), Free(l, p, time),
         row.kind = "trade", row.what = "buy", row.at = time
  PROVE  Purchases(k) /\ Positioned(k, Len(k))
  <1>1. Len(l) \in Nat /\ Len(k) = Len(l) + 1 /\ Bought(k, Len(k))
    BY LogNumbers DEF Grown, Bought
  <1>2. ASSUME NEW i \in 1..Len(l), Bought(l, i)
        PROVE  (\E s \in i + 1..Len(l) : Sold(l, s)) /\ l[i].at + Cooldown <= time
    BY <1>2 DEF Positioned, Free
  <1>3. Purchases(k)
    BY <1>2, GrownPurchases
  <1>4. ASSUME NEW i \in 1..Len(k), Bought(k, i), i # Len(k)
        PROVE  \E s \in i + 1..Len(k) : Sold(k, s)
    <2>1. i \in 1..Len(l) /\ k[i] = l[i]
      BY <1>1, <1>4 DEF Grown
    <2>2. PICK s \in i + 1..Len(l) : Sold(l, s)
      BY <1>2, <1>4, <2>1 DEF Bought
    <2>3. s \in i + 1..Len(k) /\ k[s] = l[s]
      BY <1>1, <2>1 DEF Grown
    <2>. QED BY <2>2, <2>3 DEF Sold
  <1>. QED BY <1>1, <1>3, <1>4 DEF Positioned

LEMMA GrownSignal ==
  ASSUME NEW l \in Seq(Rows), NEW k, NEW row, Grown(l, k, row), NEW p,
         Purchases(l), Positioned(l, p), row.kind = "signal"
  PROVE  Purchases(k) /\ Positioned(k, p)
  <1>. DEFINE n == Len(l)
  <1>1. n \in Nat /\ Len(k) = n + 1 /\ ~Sold(k, Len(k)) /\ ~Bought(k, Len(k))
    BY LogNumbers DEF Grown, Sold, Bought
  <1>2. Purchases(k)
    BY <1>1, GrownPurchases
  <1>3. \A i \in 1..n : k[i] = l[i]
    BY DEF Grown
  <1>4. ASSUME p # 0
        PROVE  /\ p \in 1..Len(k) /\ Bought(k, p)
               /\ \A i \in p + 1..Len(k) : ~Bought(k, i) /\ ~Sold(k, i)
    <2>1. p \in 1..n /\ Bought(l, p) /\ \A i \in p + 1..n : ~Bought(l, i) /\ ~Sold(l, i)
      BY <1>4 DEF Positioned
    <2>2. ASSUME NEW i \in p + 1..Len(k), i # Len(k) PROVE ~Bought(k, i) /\ ~Sold(k, i)
      <3>1. i \in p + 1..n /\ i \in 1..n
        BY <1>1, <2>1, <2>2
      <3>. QED BY <1>3, <2>1, <3>1 DEF Bought, Sold
    <2>. QED BY <1>1, <1>3, <2>1, <2>2 DEF Bought
  <1>5. ASSUME NEW i \in 1..Len(k), Bought(k, i), i # p PROVE \E s \in i + 1..Len(k) : Sold(k, s)
    <2>1. i \in 1..n
      BY <1>1, <1>5
    <2>2. Bought(l, i)
      BY <1>3, <1>5, <2>1 DEF Bought
    <2>3. PICK s \in i + 1..n : Sold(l, s)
      BY <1>5, <2>1, <2>2 DEF Positioned
    <2>4. s \in 1..n /\ s \in i + 1..Len(k)
      BY <1>1, <2>1
    <2>. QED BY <1>3, <2>3, <2>4 DEF Sold
  <1>. QED BY <1>2, <1>4, <1>5 DEF Positioned

\* The rows of the gates stay what they were; the new one is to be looked at.
LEMMA GrownEntryRows ==
  ASSUME NEW l \in Seq(Rows), NEW k, NEW row, Grown(l, k, row), EntryRows(l),
         Noted(k, Len(k), EntryGates) => EntryRow(k, Len(k))
  PROVE  EntryRows(k)
  <1>. DEFINE n == Len(l)
  <1>1. n \in Nat /\ Len(k) = n + 1 /\ \A i \in 1..n : k[i] = l[i]
    BY LogNumbers DEF Grown
  <1>2. ASSUME NEW e \in 1..n, Noted(k, e, EntryGates) PROVE EntryRow(k, e)
    <2>1. EntryRow(l, e) /\ k[e] = l[e]
      BY <1>1, <1>2 DEF EntryRows, Noted
    <2>2. \A i \in 1..e - 1 : k[i] = l[i]
      BY <1>1
    <2>. QED BY <2>1, <2>2 DEF EntryRow, Bought, Noted
  <1>. QED BY <1>1, <1>2 DEF EntryRows

LEMMA GrownHeld ==
  ASSUME NEW l \in Seq(Rows), NEW k, NEW row, Grown(l, k, row), NEW h, NEW c \in Nat,
         c <= Len(l) + 1, NEW n \in 0..Len(l), Held(l, h, c, n)
  PROVE  Held(k, h, c, n)
  <1>1. Len(l) \in Nat /\ \A i \in 1..Len(l) : k[i] = l[i]
    BY LogNumbers DEF Grown
  <1>2. h \in 1..c - 1
    BY DEF Held
  <1>3. \A i \in h..c - 1 : i \in 1..Len(l)
    BY <1>1, <1>2
  <1>4. \A i \in h + 1..n : i \in 1..Len(l)
    BY <1>1, <1>2
  <1>5. Bought(k, h)
    BY <1>1, <1>2, <1>3 DEF Held, Bought
  <1>6. \A i \in h + 1..c - 1 : ~Bought(k, i) /\ ~Sold(k, i)
    BY <1>1, <1>2, <1>3 DEF Held, Bought, Sold
  <1>7. \A i \in h + 1..n : ~Bought(k, i)
    BY <1>1, <1>2, <1>4 DEF Held, Bought
  <1>. QED BY <1>2, <1>5, <1>6, <1>7 DEF Held

LEMMA GrownStillHeld ==
  ASSUME NEW l \in Seq(Rows), NEW k, NEW row, Grown(l, k, row), NEW h, NEW c \in Nat,
         c <= Len(l) + 1, Held(l, h, c, Len(l)), ~Bought(k, Len(k))
  PROVE  Held(k, h, c, Len(k))
  <1>1. Len(l) \in Nat /\ Len(k) = Len(l) + 1
    BY LogNumbers DEF Grown
  <1>2. Held(k, h, c, Len(l))
    BY <1>1, GrownHeld
  <1>. QED BY <1>1, <1>2 DEF Held

LEMMA GrownExitRows ==
  ASSUME NEW l \in Seq(Rows), NEW k, NEW row, Grown(l, k, row), ExitRows(l),
         Noted(k, Len(k), ExitGates) => ExitRow(k, Len(k))
  PROVE  ExitRows(k)
  <1>. DEFINE n == Len(l)
  <1>1. n \in Nat /\ Len(k) = n + 1 /\ \A i \in 1..n : k[i] = l[i]
    BY LogNumbers DEF Grown
  <1>2. ASSUME NEW e \in 1..n, Noted(k, e, ExitGates) PROVE ExitRow(k, e)
    <2>1. ExitRow(l, e) /\ k[e] = l[e] /\ l[e].cycle \in Nat
      BY <1>1, <1>2, LogNumbers DEF ExitRows, Noted
    <2>2. e \in 0..n /\ l[e].cycle <= n + 1 /\ Held(l, l[e].held, l[e].cycle, e)
      BY <1>1, <2>1 DEF ExitRow
    <2>3. Held(k, l[e].held, l[e].cycle, e)
      BY <2>1, <2>2, GrownHeld
    <2>. QED BY <2>1, <2>3 DEF ExitRow
  <1>. QED BY <1>1, <1>2 DEF ExitRows

LEMMA GrownFree ==
  ASSUME NEW l \in Seq(Rows), NEW k, NEW row, Grown(l, k, row), NEW p, NEW time,
         Free(l, p, time), row.kind = "signal"
  PROVE  Free(k, p, time)
  BY LogNumbers DEF Grown, Free, Bought, Sold

\* All that holds of the log; p is the position.
LogInv(l, p, time) ==
    /\ Chronological(l, time) /\ Numbered(l) /\ Sides(l)
    /\ Purchases(l) /\ Positioned(l, p) /\ EntryRows(l) /\ ExitRows(l)

LEMMA LogSale ==
  ASSUME NEW l \in Seq(Rows), NEW k, NEW row, Grown(l, k, row), NEW time \in Nat, NEW p,
         LogInv(l, p, time), row.kind = "trade", row.what = "sell", row.at = time,
         row.cycle <= Len(l) + 1
  PROVE  LogInv(k, 0, time)
  <1>1. Len(l) \in Nat /\ k[Len(k)].kind = "trade"
    BY LogNumbers DEF Grown
  <1>2. EntryRows(k) /\ ExitRows(k)
    BY <1>1, GrownEntryRows, GrownExitRows DEF LogInv, Noted
  <1>. QED BY <1>2, GrownChronological, GrownNumbered, GrownSides, GrownSale DEF LogInv

LEMMA LogPurchase ==
  ASSUME NEW l \in Seq(Rows), NEW k, NEW row, Grown(l, k, row), NEW time \in Nat, NEW p,
         LogInv(l, p, time), Free(l, p, time), row.kind = "trade", row.what = "buy",
         row.at = time, row.cycle <= Len(l) + 1
  PROVE  LogInv(k, Len(k), time)
  <1>1. Len(l) \in Nat /\ k[Len(k)].kind = "trade"
    BY LogNumbers DEF Grown
  <1>2. EntryRows(k) /\ ExitRows(k)
    BY <1>1, GrownEntryRows, GrownExitRows DEF LogInv, Noted
  <1>. QED BY <1>2, GrownChronological, GrownNumbered, GrownSides, GrownPurchase DEF LogInv

LEMMA LogEntryNote ==
  ASSUME NEW l \in Seq(Rows), NEW k, NEW row, Grown(l, k, row), NEW time \in Nat, NEW p,
         LogInv(l, p, time), row.kind = "signal", row.notes \subseteq EntryGates,
         row.at = time, row.cycle <= Len(l) + 1,
         \E b \in 1..Len(l) : Bought(l, b) /\ l[b].cycle = row.cycle /\ time <= l[b].at + 1,
         \A f \in 1..Len(l) : Noted(l, f, EntryGates) => l[f].cycle # row.cycle
  PROVE  LogInv(k, p, time)
  <1>1. Len(l) \in Nat /\ Len(k) = Len(l) + 1 /\ k[Len(k)] = row /\ \A i \in 1..Len(l) : k[i] = l[i]
    BY LogNumbers DEF Grown
  <1>2. EntryRow(k, Len(k))
    BY <1>1 DEF EntryRow, Bought, Noted
  <1>3. ~Noted(k, Len(k), ExitGates)
    BY <1>1 DEF Noted, EntryGates, ExitGates
  <1>4. EntryRows(k) /\ ExitRows(k)
    BY <1>2, <1>3, GrownEntryRows, GrownExitRows DEF LogInv
  <1>. QED BY <1>4, GrownChronological, GrownNumbered, GrownSides, GrownSignal DEF LogInv

LEMMA LogExitNote ==
  ASSUME NEW l \in Seq(Rows), NEW k, NEW row, Grown(l, k, row), NEW time \in Nat, NEW p,
         LogInv(l, p, time), row.kind = "signal", row.notes \subseteq ExitGates,
         row.at = time, row.cycle \in Nat, row.cycle <= Len(l) + 1,
         Held(l, row.held, row.cycle, Len(l))
  PROVE  LogInv(k, p, time)
  <1>1. Len(l) \in Nat /\ Len(k) = Len(l) + 1 /\ k[Len(k)] = row
    BY LogNumbers DEF Grown
  <1>2. Held(k, row.held, row.cycle, Len(k))
    BY <1>1, GrownStillHeld DEF Bought
  <1>3. ExitRow(k, Len(k))
    BY <1>1, <1>2 DEF ExitRow
  <1>4. ~Noted(k, Len(k), EntryGates)
    BY <1>1 DEF Noted, EntryGates, ExitGates
  <1>5. EntryRows(k) /\ ExitRows(k)
    BY <1>3, <1>4, GrownEntryRows, GrownExitRows DEF LogInv
  <1>. QED BY <1>5, GrownChronological, GrownNumbered, GrownSides, GrownSignal DEF LogInv

LEMMA LogLater ==
  ASSUME NEW l \in Seq(Rows), NEW p, NEW time \in Nat, LogInv(l, p, time)
  PROVE  LogInv(l, p, time + 1) /\ (Free(l, p, time) => Free(l, p, time + 1))
  <1>1. Cooldown \in Nat
    BY RiskAssumption
  <1>. QED BY <1>1, LogNumbers DEF LogInv, Chronological, Free

-------------------------------------------------------------------------------
(* The cycle between the rows; c is the cycle, u the unknown order. *)

\* The purchase that the cycle will write a note about.
OwnPurchase(l, c, time) ==
    \E b \in 1..Len(l) : /\ Bought(l, b) /\ l[b].cycle = c.no
                         /\ time <= l[b].at + 1 /\ (~c.late => time = l[b].at)

Running(l, c) ==
    c.step # "idle" =>
        /\ c.no > 0
        /\ \A e \in 1..Len(l) : Noted(l, e, EntryGates) => l[e].cycle # c.no
        /\ c.held # 0 => Held(l, c.held, c.no, Len(l))

Stage(l, p, u, c, time) ==
    /\ u # 0 => c.step = "idle" /\ Free(l, p, time)
    /\ c.step \in {"exits", "timestop", "breakeven", "sell"} => c.held # 0
    /\ c.step = "entry" /\ c.held = 0 => p = 0
    /\ c.step \in {"ask", "buy"} => c.held = 0 /\ Free(l, p, time) /\ c.d.action = "buy"
    /\ c.step = "note" /\ c.d.notes # {} => c.d.action = "buy" /\ OwnPurchase(l, c, time)

MatchInv ==
    /\ LogInv(log, position, now) /\ unknown <= Len(log) + 1
    /\ Running(log, cycle) /\ Stage(log, position, unknown, cycle, now)

LEMMA StateNumbers ==
  ASSUME TypeOK
  PROVE  /\ log \in Seq(Rows) /\ Len(log) \in Nat /\ now \in Nat /\ unknown \in Nat
         /\ position \in 0..Len(log)
         /\ cycle.no \in 0..Len(log) + 1 /\ cycle.held \in 0..Len(log) /\ cycle.late \in BOOLEAN
         /\ cycle.step \in Steps /\ cycle.d \in Decision
  BY TypeParts, LenProperties, Bounds DEF Cycles

LEMMA WriteGrows ==
  ASSUME TypeOK, NEW kind \in {"trade", "signal"}, NEW what \in {"buy", "sell", "skip", "shadow"},
         NEW notes \in SUBSET AllGates, NEW no \in Nat, Write(Row(kind, what, notes, no))
  PROVE  Grown(log, log', Row(kind, what, notes, no))
  <1>1. log \in Seq(Rows) /\ Row(kind, what, notes, no) \in Rows
    BY StateNumbers, RowType
  <1>. QED BY <1>1, AppendGrows DEF Write

LEMMA GotoParts ==
  ASSUME TypeOK, NEW step, Goto(step)
  PROVE  /\ cycle'.step = step /\ cycle'.no = cycle.no /\ cycle'.held = cycle.held
         /\ cycle'.late = cycle.late /\ cycle'.d = cycle.d
  BY TypeParts DEF Goto, Cycles

LEMMA IdleParts ==
  /\ NoCycle.step = "idle" /\ NoCycle.held = 0 /\ NoCycle.no = 0
  /\ \A l : Running(l, NoCycle)
  /\ \A l, p, u, time : (u # 0 => Free(l, p, time)) => Stage(l, p, u, NoCycle, time)
  BY DEF NoCycle, Running, Stage

\* A cycle that goes on while a row is written that is no purchase under a position.
LEMMA RunningGrown ==
  ASSUME NEW l \in Seq(Rows), NEW k, NEW row, Grown(l, k, row), NEW c, NEW d, Running(l, c),
         c.step # "idle", c.no \in Nat, c.no <= Len(l) + 1, d.no = c.no, d.held = c.held,
         ~Noted(k, Len(k), EntryGates), c.held # 0 => ~Bought(k, Len(k))
  PROVE  Running(k, d)
  <1>1. Len(l) \in Nat /\ Len(k) = Len(l) + 1 /\ \A i \in 1..Len(l) : k[i] = l[i]
    BY LogNumbers DEF Grown
  <1>2. c.held # 0 => Held(k, c.held, c.no, Len(k))
    BY GrownStillHeld DEF Running
  <1>3. ASSUME NEW e \in 1..Len(k), Noted(k, e, EntryGates) PROVE k[e].cycle # c.no
    <2>1. e \in 1..Len(l) /\ k[e] = l[e]
      BY <1>1, <1>3
    <2>2. Noted(l, e, EntryGates)
      BY <1>3, <2>1 DEF Noted
    <2>. QED BY <2>1, <2>2 DEF Running
  <1>. QED BY <1>2, <1>3 DEF Running

-------------------------------------------------------------------------------
(* The steps *)

LEMMA MatchStart == Init => MatchInv
  <1>. SUFFICES ASSUME Init PROVE MatchInv
    OBVIOUS
  <1>1. Len(log) = 0 /\ position = 0 /\ unknown = 0 /\ cycle = NoCycle
    BY EmptySeq DEF Init
  <1>2. 1..Len(log) = {}
    BY <1>1
  <1>3. LogInv(log, position, now)
    BY <1>1, <1>2 DEF LogInv, Chronological, Numbered, Sides, Purchases, Positioned, EntryRows, ExitRows
  <1>. QED BY <1>1, <1>3, IdleParts DEF MatchInv

LEMMA MatchReconcile ==
  ASSUME TypeOK, MatchInv, Reconcile
  PROVE  MatchInv'
  <1>1. /\ cycle.step = "idle" /\ unknown # 0 /\ unknown' = 0 /\ UNCHANGED <<now, cycle>>
        /\ Free(log, position, now)
    BY DEF Reconcile, MatchInv, Stage
  <1>2. CASE Write(Row("trade", "buy", {}, unknown)) /\ position' = Len(log')
    <2>. DEFINE row == Row("trade", "buy", {}, unknown)
    <2>1. Grown(log, log', row)
      BY <1>2, StateNumbers, WriteGrows
    <2>2. row.kind = "trade" /\ row.what = "buy" /\ row.at = now /\ row.cycle = unknown
      BY DEF Row
    <2>. HIDE DEF row
    <2>3. LogInv(log', position', now)
      BY <1>1, <1>2, <2>1, <2>2, StateNumbers, LogPurchase DEF MatchInv
    <2>4. unknown' <= Len(log') + 1
      BY <1>1, <2>1, StateNumbers DEF Grown
    <2>. QED BY <1>1, <2>3, <2>4 DEF MatchInv, Running, Stage
  <1>3. CASE UNCHANGED <<log, position>>
    BY <1>1, <1>3, StateNumbers DEF MatchInv, Running, Stage
  <1>. QED BY <1>2, <1>3 DEF Reconcile

LEMMA MatchBegin ==
  ASSUME TypeOK, MatchInv, Start
  PROVE  MatchInv'
  <1>1. cycle.step = "idle" /\ unknown = 0 /\ UNCHANGED <<now, log, position, unknown>>
    BY DEF Start
  <1>2. /\ cycle'.step = (IF position = 0 THEN "entry" ELSE "exits")
        /\ cycle'.no = Len(log) + 1 /\ cycle'.held = position
    BY DEF Start, NoCycle
  <1>3. Len(log) \in Nat /\ position \in 0..Len(log)
    BY StateNumbers
  <1>4. \A e \in 1..Len(log) : log[e].cycle # cycle'.no
    <2>1. \A e \in 1..Len(log) : log[e].cycle \in Nat /\ log[e].cycle <= e
      BY StateNumbers, LogNumbers DEF MatchInv, LogInv, Numbered
    <2>. QED BY <1>2, <1>3, <2>1
  <1>5. position # 0 => Held(log, position, Len(log) + 1, Len(log))
    BY <1>3 DEF MatchInv, LogInv, Positioned, Held
  <1>6. Running(log, cycle')
    BY <1>2, <1>3, <1>4, <1>5 DEF Running
  <1>7. Stage(log, position, unknown, cycle', now)
    BY <1>1, <1>2 DEF Stage
  <1>. QED BY <1>1, <1>6, <1>7 DEF MatchInv

LEMMA MatchExits ==
  ASSUME TypeOK, MatchInv, Exits
  PROVE  MatchInv'
  <1>1. cycle.step = "exits" /\ UNCHANGED <<now, log, position, unknown>>
    BY DEF Exits
  <1>2. /\ cycle'.step \in {"sell", "timestop"} /\ cycle'.no = cycle.no /\ cycle'.held = cycle.held
        /\ unknown = 0
    BY GotoParts DEF Exits, MatchInv, Stage
  <1>3. Running(log, cycle') /\ Stage(log, position, unknown, cycle', now)
    BY <1>1, <1>2 DEF MatchInv, Running, Stage
  <1>. QED BY <1>1, <1>3 DEF MatchInv

LEMMA MatchExtraExit ==
  ASSUME TypeOK, MatchInv, NEW gate \in ExitGates, NEW next \in {"breakeven", "entry"},
         ExtraExit(gate, next)
  PROVE  MatchInv'
  <1>1. cycle.step = gate /\ UNCHANGED <<now, position, unknown>>
    BY DEF ExtraExit
  <1>2. cycle.held # 0 /\ cycle.step # "idle" /\ unknown = 0
    BY <1>1 DEF MatchInv, Stage, ExitGates
  <1>3. /\ cycle'.step \in {"sell", "breakeven", "entry"} /\ cycle'.no = cycle.no
        /\ cycle'.held = cycle.held
    BY GotoParts DEF ExtraExit
  <1>4. \A l : Stage(l, position, unknown, cycle', now)
    BY <1>2, <1>3 DEF Stage
  <1>5. CASE UNCHANGED log
    BY <1>1, <1>2, <1>3, <1>4, <1>5 DEF MatchInv, Running
  <1>6. CASE Write(Row("signal", "shadow", {gate}, cycle.no))
    <2>. DEFINE row == Row("signal", "shadow", {gate}, cycle.no)
    <2>1. Grown(log, log', row)
      BY <1>6, StateNumbers, WriteGrows DEF AllGates
    <2>2. /\ row.kind = "signal" /\ row.notes = {gate} /\ row.at = now /\ row.cycle = cycle.no
          /\ row.held = cycle.held
      BY DEF Row
    <2>. HIDE DEF row
    <2>3. Held(log, cycle.held, cycle.no, Len(log))
      BY <1>2 DEF MatchInv, Running
    <2>4. LogInv(log', position', now)
      BY <1>1, <2>1, <2>2, <2>3, StateNumbers, LogExitNote DEF MatchInv
    <2>5. Len(log') = Len(log) + 1 /\ log'[Len(log')] = row
      BY <2>1 DEF Grown
    <2>6. ~Noted(log', Len(log'), EntryGates) /\ ~Bought(log', Len(log'))
      BY <2>2, <2>5 DEF Noted, Bought, EntryGates, ExitGates
    <2>7. Running(log', cycle')
      BY <1>2, <1>3, <2>1, <2>6, StateNumbers, RunningGrown DEF MatchInv
    <2>8. unknown' <= Len(log') + 1
      BY <1>1, <1>2, <2>5, StateNumbers
    <2>. QED BY <1>1, <1>4, <2>4, <2>7, <2>8 DEF MatchInv
  <1>. QED BY <1>5, <1>6 DEF ExtraExit

LEMMA MatchSell ==
  ASSUME TypeOK, MatchInv, Sell
  PROVE  MatchInv'
  <1>1. cycle.step = "sell" /\ cycle' = NoCycle /\ UNCHANGED <<now, unknown>> /\ unknown = 0
    BY DEF Sell, Finish, MatchInv, Stage
  <1>2. CASE Write(Row("trade", "sell", {}, cycle.no)) /\ position' = 0
    <2>. DEFINE row == Row("trade", "sell", {}, cycle.no)
    <2>1. Grown(log, log', row)
      BY <1>2, StateNumbers, WriteGrows
    <2>2. row.kind = "trade" /\ row.what = "sell" /\ row.at = now /\ row.cycle = cycle.no
      BY DEF Row
    <2>. HIDE DEF row
    <2>3. LogInv(log', position', now)
      BY <1>2, <2>1, <2>2, StateNumbers, LogSale DEF MatchInv
    <2>4. unknown' <= Len(log') + 1
      BY <1>1, <2>1, StateNumbers DEF Grown
    <2>. QED BY <1>1, <2>3, <2>4, IdleParts DEF MatchInv
  <1>3. CASE UNCHANGED <<log, position>>
    BY <1>1, <1>3, IdleParts DEF MatchInv
  <1>. QED BY <1>2, <1>3 DEF Sell

LEMMA MatchBuy ==
  ASSUME TypeOK, MatchInv, Buy
  PROVE  MatchInv'
  <1>1. /\ cycle.step = "buy" /\ UNCHANGED now /\ unknown = 0 /\ Free(log, position, now)
        /\ cycle.held = 0 /\ cycle.d.action = "buy" /\ position = 0
    BY DEF Buy, MatchInv, Stage, Free
  <1>2. CASE Write(Row("trade", "buy", {}, cycle.no)) /\ position' = Len(log') /\ Goto("note")
             /\ UNCHANGED unknown
    <2>. DEFINE row == Row("trade", "buy", {}, cycle.no)
    <2>1. Grown(log, log', row)
      BY <1>2, StateNumbers, WriteGrows
    <2>2. row.kind = "trade" /\ row.what = "buy" /\ row.at = now /\ row.cycle = cycle.no
      BY DEF Row
    <2>. HIDE DEF row
    <2>3. LogInv(log', position', now)
      BY <1>1, <1>2, <2>1, <2>2, StateNumbers, LogPurchase DEF MatchInv
    <2>4. Len(log') = Len(log) + 1 /\ log'[Len(log')] = row
      BY <2>1 DEF Grown
    <2>5. /\ cycle'.step = "note" /\ cycle'.no = cycle.no /\ cycle'.held = cycle.held
          /\ cycle'.d = cycle.d
      BY <1>2, GotoParts
    <2>6. ~Noted(log', Len(log'), EntryGates)
      BY <2>2, <2>4 DEF Noted
    <2>7. Running(log', cycle')
      BY <1>1, <2>1, <2>5, <2>6, StateNumbers, RunningGrown DEF MatchInv
    <2>8. OwnPurchase(log', cycle', now)
      BY <2>2, <2>4, <2>5, StateNumbers DEF OwnPurchase, Bought
    <2>9. Stage(log', position', unknown', cycle', now)
      BY <1>1, <1>2, <2>5, <2>8 DEF Stage
    <2>10. unknown' <= Len(log') + 1
      BY <1>1, <1>2, <2>4, StateNumbers
    <2>. QED BY <1>1, <2>3, <2>7, <2>9, <2>10 DEF MatchInv
  <1>3. CASE Finish /\ UNCHANGED <<log, position>> /\ unknown' \in {unknown, cycle.no}
    <2>1. cycle' = NoCycle /\ unknown' <= Len(log') + 1
      BY <1>1, <1>3, StateNumbers DEF Finish
    <2>. QED BY <1>1, <1>3, <2>1, IdleParts DEF MatchInv
  <1>. QED BY <1>2, <1>3 DEF Buy

LEMMA MatchNote ==
  ASSUME TypeOK, MatchInv, Note
  PROVE  MatchInv'
  <1>1. /\ cycle.step = "note" /\ cycle' = NoCycle /\ UNCHANGED <<now, position, unknown>>
        /\ unknown = 0
    BY DEF Note, Finish, MatchInv, Stage
  <1>2. CASE UNCHANGED log
    BY <1>1, <1>2, IdleParts DEF MatchInv
  <1>3. CASE cycle.d.notes # {} /\ Write(Row("signal", cycle.d.action, cycle.d.notes, cycle.no))
    <2>. DEFINE row == Row("signal", cycle.d.action, cycle.d.notes, cycle.no)
    <2>1. cycle.d.notes \subseteq EntryGates /\ cycle.d.action \in {"buy", "skip"}
      BY StateNumbers DEF Decision
    <2>2. Grown(log, log', row)
      BY <1>3, <2>1, StateNumbers, WriteGrows DEF AllGates
    <2>3. /\ row.kind = "signal" /\ row.notes = cycle.d.notes /\ row.at = now
          /\ row.cycle = cycle.no
      BY DEF Row
    <2>. HIDE DEF row
    <2>4. /\ \E b \in 1..Len(log) : Bought(log, b) /\ log[b].cycle = row.cycle
                                     /\ now <= log[b].at + 1
          /\ \A f \in 1..Len(log) : Noted(log, f, EntryGates) => log[f].cycle # row.cycle
      BY <1>1, <1>3, <2>3 DEF MatchInv, Stage, Running, OwnPurchase
    <2>5. LogInv(log', position', now)
      BY <1>1, <2>1, <2>2, <2>3, <2>4, StateNumbers, LogEntryNote DEF MatchInv
    <2>6. unknown' <= Len(log') + 1
      BY <1>1, <2>2, StateNumbers DEF Grown
    <2>. QED BY <1>1, <2>5, <2>6, IdleParts DEF MatchInv
  <1>. QED BY <1>2, <1>3 DEF Note

LEMMA MatchGuard ==
  ASSUME TypeOK, MatchInv, Guard
  PROVE  MatchInv'
  <1>1. position # 0 /\ position' = 0 /\ UNCHANGED <<now, unknown, cycle>>
    BY DEF Guard
  <1>. DEFINE row == Row("trade", "sell", {}, 0)
  <1>2. Grown(log, log', row)
    BY WriteGrows DEF Guard
  <1>3. row.kind = "trade" /\ row.what = "sell" /\ row.at = now /\ row.cycle = 0
    BY DEF Row
  <1>. HIDE DEF row
  <1>4. LogInv(log', position', now)
    BY <1>1, <1>2, <1>3, StateNumbers, LogSale DEF MatchInv
  <1>5. Len(log') = Len(log) + 1 /\ log'[Len(log')] = row /\ \A i \in 1..Len(log) : log'[i] = log[i]
    BY <1>2 DEF Grown
  <1>6. ~Noted(log', Len(log'), EntryGates) /\ ~Bought(log', Len(log'))
    BY <1>3, <1>5 DEF Noted, Bought
  <1>7. Running(log', cycle)
    <2>1. CASE cycle.step = "idle"
      BY <2>1 DEF Running
    <2>2. CASE cycle.step # "idle"
      BY <1>2, <1>6, <2>2, StateNumbers, RunningGrown DEF MatchInv
    <2>. QED BY <2>1, <2>2
  <1>8. Stage(log', position', unknown, cycle, now)
    <2>1. unknown = 0 /\ cycle.step \notin {"ask", "buy"}
      BY <1>1 DEF MatchInv, Stage, Free
    <2>2. OwnPurchase(log, cycle, now) => OwnPurchase(log', cycle, now)
      <3>1. \A i \in 1..Len(log) : i \in 1..Len(log')
        BY <1>5, StateNumbers
      <3>. QED BY <1>5, <3>1 DEF OwnPurchase, Bought
    <2>. QED BY <1>1, <2>1, <2>2 DEF MatchInv, Stage
  <1>9. unknown <= Len(log') + 1
    BY <1>5, StateNumbers DEF MatchInv
  <1>. QED BY <1>1, <1>4, <1>7, <1>8, <1>9 DEF MatchInv

LEMMA MatchTick ==
  ASSUME TypeOK, MatchInv, Tick
  PROVE  MatchInv'
  <1>1. ~cycle.late /\ now' = now + 1 /\ UNCHANGED <<log, position, unknown>>
    BY DEF Tick
  <1>2. /\ cycle'.step = cycle.step /\ cycle'.no = cycle.no /\ cycle'.held = cycle.held
        /\ cycle'.d = cycle.d /\ (cycle.step # "idle" => cycle'.late)
    BY TypeParts DEF Tick, Cycles
  <1>3. /\ LogInv(log, position, now')
        /\ Free(log, position, now) => Free(log, position, now')
    BY <1>1, StateNumbers, LogLater DEF MatchInv
  <1>4. OwnPurchase(log, cycle, now) /\ cycle.step = "note" => OwnPurchase(log, cycle', now')
    BY <1>1, <1>2, StateNumbers, LogNumbers DEF OwnPurchase
  <1>5. Running(log, cycle')
    BY <1>2 DEF MatchInv, Running
  <1>6. Stage(log, position, unknown, cycle', now')
    BY <1>2, <1>3, <1>4 DEF MatchInv, Stage
  <1>. QED BY <1>1, <1>3, <1>5, <1>6 DEF MatchInv

LEMMA MatchRestart ==
  ASSUME TypeOK, MatchInv, Restart
  PROVE  MatchInv'
  <1>1. cycle' = NoCycle /\ UNCHANGED <<now, log, position, unknown>>
    BY DEF Restart, Finish
  <1>2. Stage(log, position, unknown, NoCycle, now)
    BY IdleParts DEF MatchInv, Stage
  <1>. QED BY <1>1, <1>2, IdleParts DEF MatchInv

LEMMA LeastNumber ==
  ASSUME NEW D, D \subseteq Nat, D # {}
  PROVE  \E x \in D : \A y \in D : x <= y
  <1>. DEFINE R == OpToRel(<, Nat)
  <1>. HIDE DEF R
  <1>1. PICK x \in D : \A y \in D : ~(<<y, x>> \in R)
    <2>1. IsWellFoundedOn(R, Nat)
      BY NatLessThanWellFounded, Zenon DEF R
    <2>. QED BY <2>1, WFMin, Zenon
  <1>2. ASSUME NEW y \in D PROVE x <= y
    <2>1. ~(y < x)
      BY <1>1, Zenon DEF R, OpToRel
    <2>. QED BY <2>1
  <1>. QED BY <1>2

\* The last of the trades is the last in time.
LEMMA LastTradeIsLast ==
  ASSUME TypeOK, Chronological(log, now), NEW i \in Trades(Len(log))
  PROVE  LastTrade \in Nat /\ log[i].at <= LastTrade
  <1>. DEFINE T == Trades(Len(log))
              D == {x \in Nat : Len(log) - x \in T}
  <1>1. log \in Seq(Rows) /\ Len(log) \in Nat /\ T \subseteq 1..Len(log)
    BY StateNumbers DEF Trades
  <1>2. \E j \in T : \A k \in T : k <= j
    <2>1. Len(log) - i \in D
      BY <1>1
    <2>2. PICK x \in D : \A y \in D : x <= y
      <3>. HIDE DEF D
      <3>1. D \subseteq Nat /\ D # {}
        BY <2>1 DEF D
      <3>. QED BY <3>1, LeastNumber
    <2>3. ASSUME NEW k \in T PROVE k <= Len(log) - x
      <3>1. Len(log) - k \in D
        BY <1>1
      <3>. QED BY <1>1, <2>2, <3>1
    <2>. QED BY <2>2, <2>3
  <1>. DEFINE m == CHOOSE j \in T : \A k \in T : k <= j
  <1>3. m \in T /\ i <= m
    BY <1>2
  <1>4. LastTrade = log[m].at
    BY DEF LastTrade
  <1>. HIDE DEF m, T
  <1>5. m \in 1..Len(log) /\ i \in 1..m
    BY <1>1, <1>3 DEF T
  <1>. QED BY <1>1, <1>4, <1>5, LogNumbers DEF Chronological

\* A market may be bought when it is not held and the cooldown after its last trade is over.
LEMMA MayOpen ==
  ASSUME TypeOK, Chronological(log, now), NEW others, NEW pnl, position = 0,
         CanOpen(Market, others, LastTrade, now, Portfolio, pnl)
  PROVE  Market \notin others /\ Free(log, position, now)
  <1>1. ASSUME NEW i \in 1..Len(log), Bought(log, i) \/ Sold(log, i)
        PROVE  log[i].at + Cooldown <= now
    <2>1. i \in Trades(Len(log))
      BY <1>1 DEF Bought, Sold, Trades
    <2>2. LastTrade \in Nat /\ log[i].at <= LastTrade
      BY <2>1, LastTradeIsLast
    <2>3. now - LastTrade >= Cooldown
      BY <2>2, RiskAssumption DEF CanOpen
    <2>4. log[i].at \in Nat /\ now \in Nat /\ Cooldown \in Nat
      BY StateNumbers, LogNumbers, RiskAssumption
    <2>. QED BY <2>2, <2>3, <2>4
  <1>. QED BY <1>1 DEF CanOpen, Free

LEMMA RefuseAction ==
  ASSUME NEW x \in Decision, NEW gate \in EntryGates, NEW hit, NEW binding,
         x.action = "buy" \/ x.notes = {}
  PROVE  /\ Refuse(x, gate, hit, binding) \in Decision
         /\ Refuse(x, gate, hit, binding).action = "buy" => x.action = "buy"
         /\ Refuse(x, gate, hit, binding).action # "buy" => Refuse(x, gate, hit, binding).notes = {}
  <1>1. Skip.action # "buy" /\ Skip.notes = {}
    BY DEF Skip
  <1>2. [x EXCEPT !.notes = @ \cup {gate}].action = x.action
    BY DEF Decision
  <1>. QED BY <1>1, <1>2, RefuseParts DEF Refuse

LEMMA MatchConsider ==
  ASSUME TypeOK, MatchInv, Consider
  PROVE  MatchInv'
  <1>1. cycle.step = "entry" /\ UNCHANGED <<now, log, position, unknown>> /\ unknown = 0
    BY DEF Consider, MatchInv, Stage
  <1>. DEFINE cand(c, live) == [signal |-> c.signal, closed |-> c.closed, close |-> c.close,
                                atr |-> c.atr, live |-> live]
              open(others) == others \cup (IF cycle.held = 0 THEN {} ELSE {Market})
              may(others, pnl) == CanOpen(Market, open(others), LastTrade, now, Portfolio, pnl)
              filter(base, regimeOk) == RegimeFilter(base, regimeOk \/ cfg.param["regime"] = 0,
                                                     cfg.binding["regime"])
              step(d) == IF d.action # "buy" THEN "note"
                         ELSE IF cfg.param["veto"] = 0 THEN "buy" ELSE "ask"
  <1>2. PICK c \in Candidates, live \in Prices, free \in FreeCash, pnl \in DailyPnl,
             others \in SUBSET OtherMarkets, regimeOk \in BOOLEAN :
          LET base == EvaluateBuy(cand(c, live), may(others, pnl), Portfolio, free)
              d    == ChaseGuard(filter(base, regimeOk), cand(c, live), cfg.param["chase"],
                                 cfg.binding["chase"])
          IN  cycle' = [cycle EXCEPT !.base = base, !.d = d, !.step = step(d)]
    BY DEF Consider
  <1>. DEFINE allowed == may(others, pnl)
              base == EvaluateBuy(cand(c, live), allowed, Portfolio, free)
              seen == filter(base, regimeOk)
              d    == ChaseGuard(seen, cand(c, live), cfg.param["chase"], cfg.binding["chase"])
  <1>3. live \in Nat /\ c.atr \in Nat /\ free \in Nat /\ Portfolio \in Nat
    BY MeasurementAssumption
  <1>4. allowed => cycle.held = 0 /\ Free(log, position, now)
    <2>. HIDE DEF open
    <2>1. cycle.held = 0 => position = 0
      BY <1>1 DEF MatchInv, Stage
    <2>2. cycle.held # 0 => Market \in open(others)
      BY DEF open
    <2>. QED BY <2>1, <2>2, MayOpen DEF MatchInv, LogInv, CanOpen
  <1>. HIDE DEF allowed, may, open
  <1>5. base \in Decision /\ base.notes = {} /\ (base.action = "buy" => allowed)
    <2>1. cand(c, live).live \in Nat /\ cand(c, live).atr \in Nat
      BY <1>3
    <2>. HIDE DEF cand
    <2>2. base \in Decision
      BY <1>3, <2>1, EvaluateType
    <2>3. base.notes = {} /\ (base.action = "buy" => allowed)
      BY DEF EvaluateBuy, Skip
    <2>. QED BY <2>2, <2>3
  <1>6. {"regime", "chase"} \subseteq EntryGates
    BY DEF EntryGates
  <1>. HIDE DEF base
  <1>7. /\ seen \in Decision /\ (seen.action = "buy" => base.action = "buy")
        /\ seen.action # "buy" => seen.notes = {}
    BY <1>5, <1>6, RefuseAction DEF RegimeFilter
  <1>. HIDE DEF seen
  <1>8. /\ d \in Decision /\ (d.action = "buy" => seen.action = "buy")
        /\ d.action # "buy" => d.notes = {}
    BY <1>6, <1>7, RefuseAction DEF ChaseGuard
  <1>9. cycle' = [cycle EXCEPT !.base = base, !.d = d, !.step = step(d)]
    BY <1>2 DEF base, seen, allowed
  <1>. HIDE DEF d
  <1>10. /\ cycle'.step = step(d) /\ cycle'.d = d /\ cycle'.no = cycle.no
         /\ cycle'.held = cycle.held
    BY <1>9, TypeParts DEF Cycles
  <1>11. Running(log, cycle')
    BY <1>1, <1>10 DEF MatchInv, Running
  <1>12. Stage(log, position, unknown, cycle', now)
    BY <1>1, <1>4, <1>5, <1>7, <1>8, <1>10 DEF Stage
  <1>. QED BY <1>1, <1>11, <1>12 DEF MatchInv

LEMMA MatchAsk ==
  ASSUME TypeOK, MatchInv, Ask
  PROVE  MatchInv'
  <1>1. /\ cycle.step = "ask" /\ UNCHANGED <<now, log, position, unknown>> /\ unknown = 0
        /\ cycle.held = 0 /\ Free(log, position, now) /\ cycle.d.action = "buy"
    BY DEF Ask, MatchInv, Stage
  <1>2. PICK v \in Verdicts :
          LET d == SecondOpinion(cycle.d, v, cfg.binding["veto"])
          IN  cycle' = [cycle EXCEPT !.d = d, !.step = IF d.action = "buy" THEN "buy" ELSE "note"]
    BY DEF Ask
  <1>. DEFINE d == SecondOpinion(cycle.d, v, cfg.binding["veto"])
  <1>3. d.action # "buy" => d.notes = {}
    <2>1. "veto" \in EntryGates /\ cycle.d \in Decision /\ Skip.notes = {}
      BY StateNumbers DEF EntryGates, Skip
    <2>. QED BY <1>1, <2>1, RefuseAction DEF SecondOpinion
  <1>4. cycle' = [cycle EXCEPT !.d = d, !.step = IF d.action = "buy" THEN "buy" ELSE "note"]
    BY <1>2
  <1>. HIDE DEF d
  <1>5. /\ cycle'.step = (IF d.action = "buy" THEN "buy" ELSE "note") /\ cycle'.d = d
        /\ cycle'.no = cycle.no /\ cycle'.held = cycle.held
    BY <1>4, TypeParts DEF Cycles
  <1>6. Running(log, cycle')
    BY <1>1, <1>5 DEF MatchInv, Running
  <1>7. Stage(log, position, unknown, cycle', now)
    BY <1>1, <1>3, <1>5 DEF Stage
  <1>. QED BY <1>1, <1>6, <1>7 DEF MatchInv

LEMMA MatchStep == Inv /\ MatchInv /\ [Next]_vars => MatchInv'
  <1>. SUFFICES ASSUME Inv, MatchInv, [Next]_vars PROVE MatchInv'
    OBVIOUS
  <1>1. TypeOK
    BY DEF Inv
  <1>2. CASE ExtraExit("timestop", "breakeven")
    BY <1>1, <1>2, MatchExtraExit DEF ExitGates
  <1>3. CASE ExtraExit("breakeven", "entry")
    BY <1>1, <1>3, MatchExtraExit DEF ExitGates
  <1>4. CASE UNCHANGED vars
    BY <1>4 DEF vars, MatchInv
  <1>. QED BY <1>1, <1>2, <1>3, <1>4, MatchReconcile, MatchBegin, MatchExits, MatchSell,
              MatchConsider, MatchAsk, MatchBuy, MatchNote, MatchGuard, MatchTick, MatchRestart
           DEF Next

-------------------------------------------------------------------------------
(* The analysis reads the rows *)

\* Every purchase opens a round trip: the trade before it is a sale.
LEMMA PurchaseOpens ==
  ASSUME log \in Seq(Rows), Sides(log), Purchases(log), NEW b \in 1..Len(log), Bought(log, b)
  PROVE  Opens(b)
  <1>1. Len(log) \in Nat
    BY LogNumbers
  <1>. SUFFICES ASSUME NEW j \in Trades(b - 1), \A k \in Trades(b - 1) : k <= j, log[j].what # "sell"
                PROVE  FALSE
    BY DEF Opens, Bought, IsTrade
  <1>2. j \in 1..b - 1 /\ j \in 1..Len(log) /\ log[j].kind = "trade"
    BY <1>1 DEF Trades
  <1>3. Bought(log, j)
    BY <1>2 DEF Sides, Sold
  <1>4. PICK s \in j + 1..b - 1 : Sold(log, s)
    BY <1>2, <1>3 DEF Purchases
  <1>5. s \in Trades(b - 1)
    BY <1>2, <1>4 DEF Trades, Sold
  <1>. QED BY <1>2, <1>4, <1>5

LEMMA RoundTripParts ==
  ASSUME log \in Seq(Rows), NEW n \in Cuts, NEW rt \in RoundTrips(n)
  PROVE  /\ rt \in [buy : Nat, sell : Nat] /\ rt.buy \in 1..n /\ rt.sell \in 1..n /\ rt.buy < rt.sell
         /\ n \in Nat /\ Len(log) \in Nat /\ n <= Len(log)
         /\ Bought(log, rt.buy) /\ Sold(log, rt.sell)
         /\ \A s \in rt.buy + 1..rt.sell - 1 : ~Sold(log, s)
  <1>1. Len(log) \in Nat /\ n \in Nat /\ n <= Len(log)
    BY LogNumbers DEF Cuts
  <1>2. rt.buy \in Trades(n) /\ rt.sell \in Trades(n) /\ rt \in [buy : Trades(n), sell : Trades(n)]
    BY DEF RoundTrips
  <1>. QED BY <1>1, <1>2 DEF RoundTrips, Trades, Opens, IsTrade, Bought, Sold

\* A purchase that was sold has a round trip, to the first sale after it.
LEMMA FirstSale ==
  ASSUME log \in Seq(Rows), Sides(log), Purchases(log), NEW n \in Cuts, NEW b \in 1..n,
         Bought(log, b), NEW s \in b + 1..n, Sold(log, s)
  PROVE  \E rt \in RoundTrips(n) : rt.buy = b
  <1>. DEFINE D == {t \in b + 1..n : Sold(log, t)}
  <1>1. Len(log) \in Nat /\ n \in Nat /\ n <= Len(log) /\ b \in 1..Len(log)
    BY LogNumbers DEF Cuts
  <1>2. PICK x \in D : \A y \in D : x <= y
    <2>1. D \subseteq Nat /\ D # {}
      BY <1>1
    <2>. HIDE DEF D
    <2>. QED BY <2>1, LeastNumber
  <1>3. b \in Trades(n) /\ x \in Trades(n)
    BY <1>1, <1>2 DEF Trades, Bought, Sold
  <1>4. \A t \in b + 1..x - 1 : ~IsTrade(t, "sell")
    BY <1>1, <1>2 DEF IsTrade, Sold
  <1>5. Opens(b)
    BY <1>1, PurchaseOpens
  <1>. DEFINE rt == [buy |-> b, sell |-> x]
  <1>6. rt \in RoundTrips(n)
    BY <1>1, <1>2, <1>3, <1>4, <1>5 DEF RoundTrips, IsTrade, Sold
  <1>. QED BY <1>6

\* Of round trips that have an earliest purchase, that one is found.
LEMMA EarliestFound ==
  ASSUME NEW rts, \A q \in rts : q.buy \in Nat, NEW r \in rts, \A q \in rts : r.buy <= q.buy
  PROVE  Earliest(rts) \in rts /\ Earliest(rts).buy = r.buy
  <1>. DEFINE x == CHOOSE x \in rts : \A q \in rts : x.buy <= q.buy
  <1>1. x \in rts /\ \A q \in rts : x.buy <= q.buy
    OBVIOUS
  <1>2. Earliest(rts) = x
    BY DEF Earliest
  <1>. HIDE DEF x
  <1>3. x.buy = r.buy
    BY <1>1
  <1>. QED BY <1>1, <1>2, <1>3

LEMMA DistanceBounds ==
  ASSUME NEW a, NEW b, log[a].at \in Nat, log[b].at \in Nat
  PROVE  /\ Distance(a, b) \in Nat
         /\ log[a].at - log[b].at <= Distance(a, b) /\ log[b].at - log[a].at <= Distance(a, b)
         /\ Distance(a, b) = log[a].at - log[b].at \/ Distance(a, b) = log[b].at - log[a].at
  BY DEF Distance, Most

LEMMA WindowNumber == Window \in Nat /\ 1 <= Window /\ Window < Cooldown /\ Cooldown \in Nat
  BY MeasurementAssumption, RiskAssumption

\* Times x of another purchase, y of the own one, z of the note.
LEMMA Nearness ==
  ASSUME NEW x \in Nat, NEW y \in Nat, NEW z \in Nat, NEW w \in Nat, NEW gap \in Nat,
         NEW far \in Nat, 1 <= w, w < gap, y <= z, z <= y + 1
  PROVE  /\ x + gap <= y /\ z - x <= far => far > w
         /\ y + gap <= x /\ x - z <= far => far >= w /\ far >= 1
  OBVIOUS

\* The cooldown is longer than the window and a cycle sees one candle close: no purchase in the
\* window is nearer to a note than the one of its own cycle, and none before it is in the window.
LEMMA OwnPurchaseIsNearest ==
  ASSUME log \in Seq(Rows), Chronological(log, now), Sides(log), Purchases(log), NEW n \in Cuts,
         NEW e \in 1..Len(log), NEW b \in 1..e - 1, Bought(log, b), log[e].at <= log[b].at + 1,
         MatchSameCycle(e, n) # None
  PROVE  MatchSameCycle(e, n).buy = b
  <1>. DEFINE near == {rt \in RoundTrips(n) : Distance(rt.buy, e) <= Window}
              best == {rt \in near : \A q \in near : Distance(rt.buy, e) <= Distance(q.buy, e)}
  <1>1. MatchSameCycle(e, n) = Earliest(best) /\ best # {}
    BY DEF MatchSameCycle, Earliest
  <1>2. /\ Len(log) \in Nat /\ b \in 1..Len(log) /\ e \in b..Len(log)
        /\ \A i \in 1..Len(log) : log[i].at \in Nat
    BY LogNumbers
  <1>3. log[b].at <= log[e].at
    BY <1>2 DEF Chronological
  <1>4. Distance(b, e) \in Nat /\ Distance(b, e) <= 1
    <2>1. log[b].at \in Nat /\ log[e].at \in Nat
      BY <1>2
    <2>2. /\ Distance(b, e) \in Nat
          /\ Distance(b, e) = log[b].at - log[e].at \/ Distance(b, e) = log[e].at - log[b].at
      BY <2>1, DistanceBounds
    <2>. QED BY <1>3, <2>1, <2>2
  <1>5. ASSUME NEW q \in near
        PROVE  /\ q.buy \in Nat /\ b <= q.buy /\ Distance(b, e) <= Distance(q.buy, e)
               /\ \E r \in near : r.buy = b
    <2>. DEFINE a == q.buy
    <2>1. /\ q \in RoundTrips(n) /\ a \in 1..n /\ a \in 1..Len(log) /\ Bought(log, a)
          /\ n \in Nat /\ a \in Nat /\ Distance(a, e) <= Window
      BY RoundTripParts
    <2>. HIDE DEF a
    <2>2. /\ Distance(a, e) \in Nat /\ log[a].at - log[e].at <= Distance(a, e)
          /\ log[e].at - log[a].at <= Distance(a, e) /\ log[a].at \in Nat /\ log[e].at \in Nat
          /\ log[b].at \in Nat
      BY <1>2, <2>1, DistanceBounds
    <2>3. /\ log[a].at + Cooldown <= log[b].at => Distance(a, e) > Window
          /\ log[b].at + Cooldown <= log[a].at => Distance(a, e) >= 1
      <3>. DEFINE x == log[a].at
                  y == log[b].at
                  z == log[e].at
                  far == Distance(a, e)
      <3>1. /\ x \in Nat /\ y \in Nat /\ z \in Nat /\ far \in Nat /\ y <= z /\ z <= y + 1
            /\ x - z <= far /\ z - x <= far
        BY <1>3, <2>2
      <3>. HIDE DEF x, y, z, far
      <3>2. (x + Cooldown <= y => far > Window) /\ (y + Cooldown <= x => far >= 1)
        BY <3>1, WindowNumber, Nearness
      <3>. QED BY <3>2 DEF x, y, z, far
    <2>4. ~(a < b)
      <3>1. SUFFICES ASSUME a < b PROVE FALSE
        OBVIOUS
      <3>2. log[a].at + Cooldown <= log[b].at
        BY <1>2, <2>1, <3>1 DEF Purchases
      <3>3. Distance(a, e) > Window
        BY <2>3, <3>2
      <3>. QED BY <2>1, <2>2, <3>3, WindowNumber
    <2>5. CASE a = b
      <3>1. Distance(b, e) <= Distance(a, e)
        BY <2>2, <2>5
      <3>. QED BY <2>1, <2>5, <3>1 DEF a
    <2>6. CASE b < a
      <3>1. log[b].at + Cooldown <= log[a].at /\ \E s \in b + 1..a - 1 : Sold(log, s)
        BY <1>2, <2>1, <2>6 DEF Purchases
      <3>2. Distance(b, e) <= Distance(a, e) /\ Distance(b, e) <= Window
        <4>1. Distance(a, e) >= 1
          BY <2>3, <3>1
        <4>. QED BY <1>4, <2>2, <4>1, WindowNumber
      <3>3. PICK s \in b + 1..n : Sold(log, s)
        BY <1>2, <2>1, <3>1
      <3>4. \E r \in RoundTrips(n) : r.buy = b
        BY <1>2, <2>1, <2>6, <3>3, FirstSale
      <3>. QED BY <1>2, <2>1, <2>6, <3>2, <3>4 DEF a
    <2>. QED BY <1>2, <2>1, <2>4, <2>5, <2>6 DEF a
  <1>6. PICK r \in near : r.buy = b
    BY <1>1, <1>5
  <1>. HIDE DEF near
  <1>7. r \in best /\ \A q \in best : q.buy \in Nat /\ r.buy <= q.buy
    BY <1>5, <1>6
  <1>. HIDE DEF best
  <1>8. Earliest(best).buy = r.buy
    BY <1>7, EarliestFound
  <1>. QED BY <1>1, <1>6, <1>8

LEMMA EntryMatch ==
  ASSUME TypeOK, MatchInv, NEW n \in Cuts, NEW e \in Events(MeasuredEntries, Len(log)),
         Match(e, n) # None
  PROVE  /\ e \in 1..Len(log) /\ EntryRow(log, e) /\ Noted(log, e, EntryGates)
         /\ log[Match(e, n).buy].cycle = log[e].cycle
  <1>1. e \in 1..Len(log) /\ Noted(log, e, EntryGates)
    BY DEF Events, Noted, MeasuredEntries, EntryGates
  <1>2. EntryRow(log, e)
    BY <1>1 DEF MatchInv, LogInv, EntryRows
  <1>3. PICK b \in 1..e - 1 : /\ Bought(log, b) /\ log[b].cycle = log[e].cycle
                              /\ log[e].at <= log[b].at + 1
    BY <1>2 DEF EntryRow
  <1>4. Match(e, n) = MatchSameCycle(e, n)
    BY <1>2 DEF Match, EntryRow
  <1>5. MatchSameCycle(e, n).buy = b
    BY <1>1, <1>3, <1>4, StateNumbers, OwnPurchaseIsNearest DEF MatchInv, LogInv
  <1>. QED BY <1>1, <1>2, <1>3, <1>4, <1>5

LEMMA ExitMatch ==
  ASSUME TypeOK, MatchInv, NEW e \in Events(ExitGates, Len(log))
  PROVE  LET rt == Match(e, Len(log))
         IN  IF rt # None THEN rt.buy = log[e].held
             ELSE \/ position = log[e].held
                  \/ \E s \in log[e].cycle..e : IsTrade(s, "sell")
  <1>. DEFINE n == Len(log)
              h == log[e].held
              c == log[e].cycle
              open == {rt \in RoundTrips(n) : rt.buy <= e /\ e <= rt.sell}
  <1>1. e \in 1..n /\ Noted(log, e, ExitGates)
    BY DEF Events, Noted
  <1>2. ExitRow(log, e)
    BY <1>1 DEF MatchInv, LogInv, ExitRows
  <1>3. Match(e, n) = Earliest(open)
    <2>1. ~(log[e].notes \subseteq EntryGates)
      BY <1>1, <1>2 DEF ExitRow, Noted, EntryGates, ExitGates
    <2>. QED BY <2>1 DEF Match, MatchDuringPosition
  <1>4. /\ log \in Seq(Rows) /\ n \in Nat /\ n \in Cuts /\ c \in Nat /\ e \in Nat
        /\ Sides(log) /\ Purchases(log) /\ Positioned(log, position)
    BY <1>1, StateNumbers, LogNumbers DEF MatchInv, LogInv, Cuts
  <1>5. /\ h \in 1..c - 1 /\ c <= e /\ Bought(log, h) /\ h \in 1..n
        /\ \A i \in h + 1..c - 1 : ~Sold(log, i)
        /\ \A i \in h + 1..e : ~Bought(log, i)
    BY <1>1, <1>2, <1>4 DEF ExitRow, Held
  <1>. HIDE DEF h, c
  <1>6. ASSUME NEW q \in open PROVE q \in [buy : Nat, sell : Nat] /\ q.buy = h
    <2>1. /\ q \in [buy : Nat, sell : Nat] /\ q.buy \in 1..n /\ Bought(log, q.buy) /\ q.buy <= e
          /\ e <= q.sell /\ q.sell \in 1..n
          /\ \A s \in q.buy + 1..q.sell - 1 : ~Sold(log, s)
      BY <1>4, RoundTripParts
    <2>2. ~(h < q.buy)
      BY <1>4, <1>5, <2>1
    <2>3. ~(q.buy < h)
      <3>1. SUFFICES ASSUME q.buy < h PROVE FALSE
        OBVIOUS
      <3>2. PICK s \in q.buy + 1..h - 1 : Sold(log, s)
        BY <1>5, <2>1, <3>1 DEF Purchases, Positioned, MatchInv, LogInv
      <3>. QED BY <1>4, <1>5, <2>1, <3>2
    <2>. QED BY <1>5, <2>1, <2>2, <2>3
  <1>7. CASE open # {}
    <2>1. PICK r \in open : TRUE
      BY <1>7
    <2>2. Earliest(open) \in open /\ Earliest(open).buy = h
      <3>1. \A q \in open : q.buy \in Nat /\ r.buy <= q.buy
        BY <1>5, <1>6, <2>1
      <3>. HIDE DEF open
      <3>2. Earliest(open) \in open
        BY <2>1, <3>1, EarliestFound
      <3>. QED BY <1>6, <3>2
    <2>3. Earliest(open) # None
      BY <1>6, <2>2, MeasurementAssumption
    <2>. QED BY <1>3, <2>2, <2>3 DEF h
  <1>8. CASE open = {}
    <2>1. Match(e, n) = None
      BY <1>3, <1>8 DEF Earliest
    <2>2. ASSUME position # h, \A s \in c..e : ~Sold(log, s) PROVE FALSE
      <3>1. PICK s \in h + 1..n : Sold(log, s)
        BY <1>4, <1>5, <2>2 DEF Positioned
      <3>2. PICK rt \in RoundTrips(n) : rt.buy = h
        BY <1>4, <1>5, <3>1, FirstSale
      <3>3. rt.sell \in 1..n /\ Sold(log, rt.sell) /\ h < rt.sell
        BY <1>4, <3>2, RoundTripParts
      <3>4. e <= rt.sell
        BY <1>4, <1>5, <2>2, <3>3
      <3>5. rt \in open
        BY <1>4, <1>5, <3>2, <3>4
      <3>. QED BY <1>8, <3>5
    <2>. QED BY <2>1, <2>2 DEF h, c, Sold, IsTrade
  <1>. QED BY <1>7, <1>8

-------------------------------------------------------------------------------
(* Theorems *)

\* A gate in shadow costs no purchase and changes none, for every configuration, price and
\* order of steps: until the order, size and levels are those from before the gates.
THEOREM ShadowCorrect == Spec => []ShadowNeverCosts
  <1>1. Inv => ShadowNeverCosts
    BY DEF Inv
  <1>. QED BY <1>1, StartState, StepKeeps, PTL DEF Spec

\* Every row of the log is of a configuration that the program was started with; two rows of a
\* gate with one hash are of one population, whatever configurations there are.
THEOREM CohortsCorrect == Spec => []CohortsAreHomogeneous
  <1>1. Inv => CohortsAreHomogeneous
    <2>. SUFFICES ASSUME Inv, NEW gate \in AllGates,
                         NEW e \in Events({gate}, Len(log)), NEW f \in Events({gate}, Len(log)),
                         Cohort(e, gate) = Cohort(f, gate)
                  PROVE  Population(log[e].cfg, gate) = Population(log[f].cfg, gate)
      BY DEF CohortsAreHomogeneous
    <2>1. log \in Seq(Rows) /\ e \in 1..Len(log) /\ f \in 1..Len(log)
      BY TypeParts DEF Inv, Events
    <2>2. log[e] \in Rows /\ log[f] \in Rows
      BY <2>1, ElementOfSeq
    <2>3. log[e].cfg \in Config /\ log[f].cfg \in Config
      BY <2>2, MeasurementAssumption DEF Rows
    <2>. QED BY <2>3, FingerprintSeparates DEF Cohort
  <1>. QED BY <1>1, StartState, StepKeeps, PTL DEF Spec

LEMMA MatchAlways == Spec => [](Inv /\ MatchInv)
  <1>1. Init => Inv /\ MatchInv
    BY StartState, MatchStart
  <1>2. Inv /\ MatchInv /\ [Next]_vars => (Inv /\ MatchInv)'
    BY StepKeeps, MatchStep
  <1>. QED BY <1>1, <1>2, PTL DEF Spec

\* The state is of its types, for every bound and every set of configurations.
THEOREM MeasurementTypes == Spec => []TypeOK
  <1>1. Inv => TypeOK
    BY DEF Inv
  <1>. QED BY <1>1, StartState, StepKeeps, PTL DEF Spec

\* The round trip found for the row of an entry gate is that of its own cycle's purchase, in the
\* database and in every export: it holds because a market may not be bought again before the
\* cooldown is over, also after a restart and also for an order that was found later.
THEOREM EntryMatchCorrect == Spec => []EntryEventsMeasureTheirOwnPurchase
  <1>1. Inv /\ MatchInv => EntryEventsMeasureTheirOwnPurchase
    BY EntryMatch DEF Inv, EntryEventsMeasureTheirOwnPurchase
  <1>. QED BY <1>1, MatchAlways, PTL

\* A purchase is counted once for a gate: two rows that find it are of one cycle, and a cycle
\* writes one row.
THEOREM OneEventCorrect == Spec => []OneEventPerPurchase
  <1>1. Inv /\ MatchInv => OneEventPerPurchase
    <2>. SUFFICES ASSUME Inv, MatchInv, NEW e \in Events(MeasuredEntries, Len(log)),
                         NEW f \in Events(MeasuredEntries, Len(log)), e # f,
                         Match(e, Len(log)) # None, Match(e, Len(log)) = Match(f, Len(log))
                  PROVE  FALSE
      BY DEF OneEventPerPurchase
    <2>1. TypeOK /\ Len(log) \in Cuts
      BY StateNumbers DEF Inv, Cuts
    <2>2. /\ e \in 1..Len(log) /\ EntryRow(log, e) /\ Noted(log, e, EntryGates)
          /\ log[Match(e, Len(log)).buy].cycle = log[e].cycle
      BY <2>1, EntryMatch
    <2>3. /\ f \in 1..Len(log) /\ EntryRow(log, f) /\ Noted(log, f, EntryGates)
          /\ log[Match(f, Len(log)).buy].cycle = log[f].cycle
      BY <2>1, EntryMatch
    <2>4. e \in 1..f - 1 \/ f \in 1..e - 1
      BY <2>1, <2>2, <2>3, StateNumbers
    <2>. QED BY <2>2, <2>3, <2>4 DEF EntryRow
  <1>. QED BY <1>1, MatchAlways, PTL

\* The row of an exit gate is measured by the position it was written about, also when the guard
\* sells in the middle of the cycle: then it finds no round trip at all.
THEOREM ExitMatchCorrect == Spec => []ExitEventsMeasureTheirPosition
  <1>1. Inv /\ MatchInv => ExitEventsMeasureTheirPosition
    BY ExitMatch DEF Inv, ExitEventsMeasureTheirPosition
  <1>. QED BY <1>1, MatchAlways, PTL
===============================================================================
