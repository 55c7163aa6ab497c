--------------------------------- MODULE Panel --------------------------------
(***************************************************************************)
(* The cycle between the dashboard and the providers: which markets it     *)
(* looks at, and the second opinion on each purchase (engine.py, web.py).  *)
(***************************************************************************)
EXTENDS MarketLists, LLMRouter, Scanner

CONSTANTS
    Tickers,            \* what the exchange may report
    Slots,              \* effective_max_positions
    MaxAuto, Buffer,    \* max_auto, auto_fill_buffer
    MaxEvents, MaxDay   \* bounds: things that happen to the cycle; days

ASSUME PanelAssumption ==
    /\ {Slots, MaxAuto, Buffer, MaxEvents, MaxDay} \subseteq Nat
    /\ IsFiniteSet(Tickers) /\ \A t \in Tickers : t.market \in Names

VARIABLES
    positions,
    autoFill,           \* last_auto_fill, shown by the dashboard
    todo,               \* markets of this cycle still to look at, None: no cycle
    market,             \* the market whose purchase is being judged
    events              \* bound

cycleVars == <<positions, autoFill, todo, market>>
vars      == <<listVars, routerVars, cycleVars, events>>

Init ==
    /\ ListsInit /\ RouterInit
    /\ positions = {} /\ autoFill = {} /\ todo = None /\ market = None /\ events = 0

Event == events < MaxEvents /\ events' = events + 1

-------------------------------------------------------------------------------
(* The cycle *)

\* _auto_fill_markets: nothing without a free slot; a scan that fails fills nothing.
AutoFillChoices(pinned) ==
    LET free == Slots - Cardinality(positions)
        want == IF MaxAuto < free + Buffer THEN MaxAuto ELSE free + Buffer
    IN  IF free <= 0 THEN {{}}
        ELSE {{}} \cup AutoFills(Scanned(Tickers, Blocklist), pinned \cup positions \cup Blocklist, want)

StartCycle ==
    /\ todo = None
    /\ \E auto \in AutoFillChoices(Current("markets")) :
          LET names == {t.market : t \in auto}
          IN  /\ todo' = Current("markets") \cup positions \cup names
              /\ autoFill' = names
    /\ UNCHANGED <<listVars, routerVars, positions, market, events>>

EndCycle ==
    /\ todo = {} /\ market = None /\ todo' = None
    /\ UNCHANGED <<listVars, routerVars, positions, autoFill, market, events>>

\* A market without candles, with an exit, or that a gate refuses.
LookAt(m) ==
    /\ todo # None /\ market = None /\ m \in todo
    /\ todo' = todo \ {m}
    /\ positions' \in {positions, positions \ {m}}
    /\ UNCHANGED <<listVars, routerVars, autoFill, market, events>>

\* A candidate that passes every gate goes to the router.
Candidate(m) ==
    /\ todo # None /\ market = None /\ m \in todo
    /\ m \notin positions /\ m \notin Blocklist /\ Cardinality(positions) < Slots
    /\ todo' = todo \ {m} /\ market' = m
    /\ Consult
    /\ UNCHANGED <<listVars, today, day, used, asked, launches, carried, positions, autoFill, events>>

\* The order may fail; an exception skips the market.
Judge ==
    /\ asking.step = "done"
    /\ asking' = NotAsking /\ market' = None
    /\ \/ /\ asking.answer = "agree" \/ (~VetoBinding /\ asking.answer # "raised")
          /\ positions' = positions \cup {market}
       \/ UNCHANGED positions
    /\ UNCHANGED <<listVars, today, day, used, asked, launches, carried, autoFill, todo, events>>

(* Around it *)

Guard ==
    /\ \E m \in positions : positions' = positions \ {m}
    /\ UNCHANGED <<listVars, routerVars, autoFill, todo, market, events>>

Restart ==
    /\ Event /\ ListsRestart /\ RouterRestart
    /\ todo' = None /\ market' = None
    /\ UNCHANGED <<positions, autoFill>>

EditStep ==
    /\ \/ Event /\ \E e \in Editors : Post(e)
       \/ UNCHANGED events /\ \E e \in Editors : Decide(e) \/ StoreMarkets(e) \/ StoreWatchlist(e)
    /\ UNCHANGED <<routerVars, cycleVars>>

RouterStep ==
    /\ Check \/ Send \/ Answer
    /\ UNCHANGED <<listVars, cycleVars, events>>

DashboardStep ==
    /\ Event /\ (Probe \/ (today < MaxDay /\ Midnight))
    /\ UNCHANGED <<listVars, cycleVars>>

Next ==
    \/ StartCycle \/ EndCycle \/ Judge \/ Guard \/ Restart
    \/ EditStep \/ RouterStep \/ DashboardStep
    \/ \E m \in Names : LookAt(m) \/ Candidate(m)

Spec == Init /\ [][Next]_vars

\* The thread of the cycle runs on, and every request ends in an answer or a timeout.
FairSpec ==
    /\ Spec
    /\ WF_vars(EndCycle) /\ WF_vars(Judge) /\ WF_vars(RouterStep)
    /\ WF_vars(\E m \in Names : LookAt(m) \/ Candidate(m))

-------------------------------------------------------------------------------

\* A cycle that has begun ends, whatever the providers answer and whatever is edited meanwhile:
\* the scheduler starts no second one (max_instances=1), so a cycle that hung would be the last.
CycleEnds == todo # None ~> todo = None
===============================================================================
