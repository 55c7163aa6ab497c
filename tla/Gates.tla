-------------------------------- MODULE Gates ---------------------------------
(***************************************************************************)
(* The way of a candidate from its score to an order (decision.py), and    *)
(* the hash that tells which configuration measured it (config.py).        *)
(* A gate in shadow lets the purchase through with a note, a binding gate  *)
(* turns it into a skip without notes.                                     *)
(***************************************************************************)
EXTENDS Rules

CONSTANTS Settings      \* values of a configuration section

EntryGates == {"regime", "chase", "veto"}
ExitGates  == {"timestop", "breakeven"}
AllGates   == EntryGates \cup ExitGates        \* SHADOW_GATES

\* core: what all gates share; param: the gate's own parameters; judge: section llm.
Config == [core : Settings, binding : [AllGates -> BOOLEAN], param : [AllGates -> Settings],
           judge : Settings]

-------------------------------------------------------------------------------
(* Decisions.  A candidate is what evaluate_buy of strategy.py scored: the price and the *)
(* ATR of the closed candle, and the live price that the order pays.                     *)

NoTerms == [size |-> 0, stop |-> 0, target |-> 0]
Skip == [action |-> "skip", terms |-> NoTerms, notes |-> {}]

\* DecisionEngine.evaluate_buy; may: the answer of can_open.
EvaluateBuy(cand, may, portfolio, free) ==
    LET size == PositionSize(portfolio, free)
    IN  IF cand.signal /\ may /\ ~NeedsTooMuch(cand.live, cand.atr) /\ size >= MinOrder
        THEN [action |-> "buy", notes |-> {},
              terms |-> [size   |-> size,
                         stop   |-> cand.live - StopDistance(cand.atr),
                         target |-> cand.live + TargetDistance(cand.atr)]]
        ELSE Skip

RefuseWithNotes(d, gate, hit, binding) ==            \* mutant: a skip keeps earlier notes
    IF d.action # "buy" \/ ~hit THEN d
    ELSE IF binding THEN [Skip EXCEPT !.notes = d.notes \cup {gate}]
    ELSE [d EXCEPT !.notes = @ \cup {gate}]

RefuseAndForget(d, gate, hit, binding) ==            \* mutant: the note without the levels
    IF d.action # "buy" \/ ~hit THEN d
    ELSE IF binding THEN Skip
    ELSE [d EXCEPT !.notes = @ \cup {gate}, !.terms = NoTerms]

\* What the three apply_ functions share.
Refuse(d, gate, hit, binding) ==
    IF d.action # "buy" \/ ~hit THEN d
    ELSE IF binding THEN Skip
    ELSE [d EXCEPT !.notes = @ \cup {gate}]

RegimeFilter(d, regimeOk, binding) == Refuse(d, "regime", ~regimeOk, binding)

\* A decision on the live snapshot has nothing to chase.
ChaseGuard(d, cand, maxChase, binding) ==
    Refuse(d, "chase", cand.closed /\ ChaseTooFar(cand.close, cand.live, cand.atr, maxChase), binding)

\* agree, veto, unsure (agrees below llm_min_confidence) or none (no provider answered).
Verdicts == {"agree", "veto", "unsure", "none"}

SecondOpinion(d, verdict, binding) ==
    IF verdict = "none" THEN IF binding THEN Skip ELSE d
    ELSE Refuse(d, "veto", verdict \in {"veto", "unsure"}, binding)

-------------------------------------------------------------------------------
(* Fingerprints.  A hash is the set of values that go into it: no two payloads collide.  *)

SectionOf(g) == [veto |-> "llm", chase |-> "core", regime |-> "regime",
                 timestop |-> "exits", breakeven |-> "exits"][g]

\* Section with the gate's binding flag and parameters.
HomeOf(g) == IF g = "veto" THEN "core" ELSE SectionOf(g)

GateSectionsOwn(c, g) == {"core", SectionOf(g)}      \* mutant: binding gates left out
GateSections(c, g) == {"core"} \cup {SectionOf(h) : h \in {h \in AllGates : h = g \/ c.binding[h]}}

\* gate_fingerprint: parameters of another gate that does not bind are dropped.
Fingerprint(c, g) ==
    LET sections == GateSections(c, g)
        inScope  == {h \in AllGates : HomeOf(h) \in sections}
    IN  [core    |-> c.core,
         binding |-> [h \in inScope |-> c.binding[h]],
         param   |-> [h \in {h \in inScope : h = g \/ c.binding[h]} |-> c.param[h]],
         judge   |-> IF "llm" \in sections THEN {c.judge} ELSE {}]

\* What decides which purchases there are for g to judge, and how g judges them.
Population(c, g) ==
    LET shaping == {h \in AllGates : c.binding[h]}
    IN  [core |-> c.core, shaping |-> shaping,
         param |-> [h \in shaping \cup {g} |-> c.param[h]],
         judge |-> IF "veto" \in shaping \cup {g} THEN {c.judge} ELSE {}]
===============================================================================
