----------------------------- MODULE PanelProofs ------------------------------
(***************************************************************************)
(* What the lists and the budgets keep for every number of markets,        *)
(* browsers and providers, whatever the cycle does beside them.            *)
(***************************************************************************)
EXTENDS Panel, TLAPS, FiniteSetTheorems

-------------------------------------------------------------------------------
(* The lists *)

\* A list the program may have.
Fits(l, s) ==
    /\ s \subseteq Names
    /\ Cardinality(s) <= Cap[l]
    /\ l = "markets" => s # {}

\* Every stored list was allowed; an edit holds the trading markets it read, or the two
\* lists it is going to write.
ListInv ==
    /\ stored \in [ListNames -> (SUBSET Names) \cup {None}]
    /\ edits \in [Editors -> Edit \cup {None}]
    /\ \A l \in ListNames : Fits(l, Current(l))
    /\ \A e \in Editors : edits[e] # None =>
          IF edits[e].step = "decide" THEN Fits("markets", edits[e].lists["markets"])
          ELSE \A l \in ListNames : Fits(l, edits[e].lists[l])

LEMMA NamesFinite ==
  ASSUME NEW s \in SUBSET Names
  PROVE  IsFiniteSet(s) /\ Cardinality(s) \in Nat
  BY ListsAssumption, FS_Subset, FS_CardinalityType

LEMMA CapNumber ==
  ASSUME NEW l \in ListNames
  PROVE  Cap[l] \in Nat
  BY ListsAssumption

\* Taking a market away or leaving it keeps a list within its cap.
LEMMA SmallerFits ==
  ASSUME NEW l \in ListNames, NEW s, Fits(l, s), NEW m, l = "markets" => s \ {m} # {}
  PROVE  Fits(l, s \ {m})
  <1>1. s \in SUBSET Names /\ s \ {m} \in SUBSET Names
    BY DEF Fits
  <1>2. Cardinality(s \ {m}) <= Cardinality(s)
    BY <1>1, NamesFinite, FS_Subset
  <1>. QED BY <1>1, <1>2, NamesFinite, CapNumber DEF Fits

LEMMA LargerFits ==
  ASSUME NEW l \in ListNames, NEW s, Fits(l, s), NEW m \in Names, m \notin s,
         ~(Cardinality(s) >= Cap[l])
  PROVE  Fits(l, s \cup {m})
  <1>1. s \in SUBSET Names /\ s \cup {m} \in SUBSET Names
    BY DEF Fits
  <1>2. Cardinality(s \cup {m}) = Cardinality(s) + 1
    BY <1>1, NamesFinite, FS_AddElement
  <1>. QED BY <1>1, <1>2, NamesFinite, CapNumber DEF Fits

\* A list of more than one market has one left.
LEMMA OneLeft ==
  ASSUME NEW s \in SUBSET Names, NEW m \in s, ~(Cardinality(s) <= 1)
  PROVE  s \ {m} # {}
  <1>1. Cardinality(s \ {m}) = Cardinality(s) - 1
    BY NamesFinite, FS_RemoveElement
  <1>2. Cardinality(s \ {m}) # 0
    BY <1>1, NamesFinite
  <1>. QED BY <1>2, FS_EmptySet

\* What modify allows keeps both lists within their caps, with a market to trade in.
LEMMA EditFits ==
  ASSUME NEW list \in ListNames, NEW m \in Names, NEW action \in {"add", "remove"},
         NEW lists \in Lists, \A l \in ListNames : Fits(l, lists[l]),
         ~Refused(list, m, action, lists)
  PROVE  /\ Edited(list, m, action, lists) \in Lists
         /\ \A l \in ListNames : Fits(l, Edited(list, m, action, lists)[l])
  <1>1. CASE action = "remove"
    <2>1. m \in lists[list] /\ ~(list = "markets" /\ Cardinality(lists[list]) <= 1)
      BY <1>1 DEF Refused
    <2>2. lists[list] \in SUBSET Names
      BY DEF Lists
    <2>3. list = "markets" => lists[list] \ {m} # {}
      BY <2>1, <2>2, OneLeft
    <2>4. Fits(list, lists[list] \ {m})
      BY <2>3, SmallerFits
    <2>5. Edited(list, m, action, lists) = [lists EXCEPT ![list] = lists[list] \ {m}]
      BY <1>1 DEF Edited
    <2>. QED BY <2>2, <2>4, <2>5 DEF Lists
  <1>2. CASE action = "add"
    <2>1. /\ m \notin lists[list] /\ m \notin lists["markets"]
          /\ ~(Cardinality(lists[list]) >= Cap[list])
      BY <1>2 DEF Refused
    <2>2. Fits(list, lists[list] \cup {m})
      BY <2>1, LargerFits
    <2>3. ASSUME NEW l \in ListNames, l # list PROVE Fits(l, lists[l] \ {m})
      <3>1. l = "markets" => lists[l] \ {m} = lists[l] /\ lists[l] # {}
        BY <2>1 DEF Fits
      <3>. QED BY <3>1, SmallerFits
    <2>4. Edited(list, m, action, lists)
            = [l \in ListNames |-> IF l = list THEN lists[l] \cup {m} ELSE lists[l] \ {m}]
      BY <1>2 DEF Edited
    <2>. QED BY <2>2, <2>3, <2>4 DEF Lists
  <1>. QED BY <1>1, <1>2

\* An edit leaves its market in the list it names, or out of it, and the lists disjoint.
Settled(d) ==
    /\ d.lists["markets"] \cap d.lists["watchlist"] = {}
    /\ (d.market \in d.lists[d.list]) = (d.action = "add")

\* The lists as the last edit left them.
Exact ==
    /\ Current("markets") \cap Current("watchlist") = {}
    /\ last # None => (last.market \in Current(last.list)) = (last.action = "add")

\* Without an overlap there is one edit, it works on what is stored, and only between its
\* two writes the stored lists are not those of an edit.
LoneInv ==
    ~overlapped =>
        /\ \A e, f \in Editors : edits[e] # None /\ edits[f] # None => e = f
        /\ (\A e \in Editors : edits[e] # None => edits[e].step # "storeWatchlist") => Exact
        /\ \A e \in Editors : edits[e] # None =>
              /\ edits[e].step = "decide" => edits[e].lists["markets"] = Current("markets")
              /\ edits[e].step # "decide" => Settled(edits[e])
              /\ edits[e].step = "storeWatchlist" => Current("markets") = edits[e].lists["markets"]

\* What changes when one list is stored.
LEMMA StoreFacts ==
  ASSUME ListInv, NEW l \in ListNames, NEW s \in SUBSET Names,
         stored' = [stored EXCEPT ![l] = s]
  PROVE  /\ stored' \in [ListNames -> (SUBSET Names) \cup {None}]
         /\ Current(l)' = s
         /\ \A k \in ListNames : k # l => Current(k)' = Current(k)
  <1>1. s # None
    BY ListsAssumption
  <1>. QED BY <1>1 DEF ListInv, Current

LEMMA ListsStart == Init => ListInv /\ LoneInv
  <1>. SUFFICES ASSUME Init PROVE ListInv /\ LoneInv
    OBVIOUS
  <1>1. /\ stored = [l \in ListNames |-> None] /\ edits = [e \in Editors |-> None]
        /\ overlapped = FALSE /\ last = None
    BY DEF Init, ListsInit
  <1>2. \A l \in ListNames : Current(l) = Configured[l]
    BY <1>1 DEF Current
  <1>3. \A l \in ListNames : Fits(l, Configured[l])
    BY ListsAssumption DEF Fits, Lists
  <1>4. ListInv
    BY <1>1, <1>2, <1>3 DEF ListInv
  <1>5. "markets" \in ListNames /\ "watchlist" \in ListNames
    BY DEF ListNames
  <1>6. Exact
    BY <1>1, <1>2, <1>5, ListsAssumption DEF Exact
  <1>. QED BY <1>1, <1>4, <1>6 DEF LoneInv

LEMMA PostKeeps ==
  ASSUME ListInv, LoneInv, NEW e \in Editors, Post(e)
  PROVE  ListInv' /\ LoneInv'
  <1>. PICK list \in ListNames, market_1 \in Names, action \in {"add", "remove"} :
            edits' = [edits EXCEPT ![e] =
                [step |-> "decide", list |-> list, market |-> market_1, action |-> action,
                 lists |-> [l \in ListNames |-> IF l = "markets" THEN Current(l) ELSE {}]]]
    BY DEF Post
  <1>. DEFINE d == [step |-> "decide", list |-> list, market |-> market_1, action |-> action,
                    lists |-> [l \in ListNames |-> IF l = "markets" THEN Current(l) ELSE {}]]
  <1>0. "markets" \in ListNames
    BY DEF ListNames
  <1>1. /\ d.step = "decide" /\ d.lists["markets"] = Current("markets")
        /\ d.lists \in Lists /\ d \in Edit
    BY <1>0 DEF Edit, Lists, ListInv, Fits
  <1>2. edits' = [edits EXCEPT ![e] = d]
    OBVIOUS
  <1>. HIDE DEF d
  <1>3. /\ edits[e] = None /\ stored' = stored /\ last' = last
        /\ overlapped' = (overlapped \/ \E f \in Editors : edits[f] # None)
    BY DEF Post
  <1>4. \A l \in ListNames : Current(l)' = Current(l)
    BY <1>3 DEF Current
  <1>5. ListInv'
    BY <1>0, <1>1, <1>2, <1>3, <1>4 DEF ListInv
  <1>6. LoneInv'
    <2>. SUFFICES ASSUME ~overlapped' PROVE LoneInv'
      BY DEF LoneInv
    <2>1. ~overlapped /\ \A f \in Editors : edits[f] = None
      BY <1>3
    <2>2. Exact
      BY <2>1 DEF LoneInv
    <2>3. Exact'
      BY <2>2, <1>3 DEF Exact, Current
    <2>4. \A f \in Editors : edits'[f] # None => f = e /\ edits'[f] = d
      BY <1>2, <2>1 DEF ListInv
    <2>. QED BY <1>0, <1>1, <1>4, <2>3, <2>4 DEF LoneInv
  <1>. QED BY <1>5, <1>6

\* The fields of an edit under way.
LEMMA EditFields ==
  ASSUME ListInv, NEW e \in Editors, edits[e] # None
  PROVE  /\ edits[e] \in Edit
         /\ edits[e].list \in ListNames /\ edits[e].market \in Names
         /\ edits[e].action \in {"add", "remove"} /\ edits[e].lists \in Lists
         /\ edits[e].lists["markets"] \in SUBSET Names
         /\ edits[e].lists["watchlist"] \in SUBSET Names
  BY DEF ListInv, Edit, Lists, ListNames

\* An edit of disjoint lists leaves them disjoint, with its market where it belongs.
LEMMA EditSettles ==
  ASSUME NEW list \in ListNames, NEW m \in Names, NEW action \in {"add", "remove"},
         NEW lists \in Lists, lists["markets"] \cap lists["watchlist"] = {}
  PROVE  LET after == Edited(list, m, action, lists)
         IN  /\ after["markets"] \cap after["watchlist"] = {}
             /\ (m \in after[list]) = (action = "add")
  <1>1. CASE action = "remove"
    BY <1>1 DEF Edited, Lists, ListNames
  <1>2. CASE action = "add"
    BY <1>2 DEF Edited, Lists, ListNames
  <1>. QED BY <1>1, <1>2

LEMMA DecideKeeps ==
  ASSUME ListInv, LoneInv, NEW e \in Editors, Decide(e)
  PROVE  ListInv' /\ LoneInv'
  <1>. DEFINE d     == edits[e]
              lists == [d.lists EXCEPT !["watchlist"] = Current("watchlist")]
              after == Edited(d.list, d.market, d.action, lists)
              next  == [d EXCEPT !.step = "storeMarkets", !.lists = after]
  <1>0. "markets" \in ListNames /\ "watchlist" \in ListNames
        /\ \A l \in ListNames : l = "markets" \/ l = "watchlist"
    BY DEF ListNames
  <1>1. /\ d # None /\ d.step = "decide" /\ d.list \in ListNames /\ d.market \in Names
        /\ d.action \in {"add", "remove"} /\ d.lists \in Lists /\ d \in Edit
    BY EditFields DEF Decide
  <1>2. /\ stored' = stored /\ overlapped' = overlapped /\ last' = last
        /\ edits' = [edits EXCEPT ![e] =
              IF Refused(d.list, d.market, d.action, lists) THEN None ELSE next]
    BY DEF Decide
  <1>3. \A l \in ListNames : Current(l)' = Current(l)
    BY <1>2 DEF Current
  <1>4. lists \in Lists /\ \A l \in ListNames : Fits(l, lists[l])
    <2>1. Fits("markets", d.lists["markets"]) /\ Fits("watchlist", Current("watchlist"))
      BY <1>0, <1>1 DEF ListInv
    <2>2. Current("watchlist") \in SUBSET Names
      BY <2>1 DEF Fits
    <2>3. lists \in Lists
      BY <1>0, <1>1, <2>2 DEF Lists
    <2>4. lists["watchlist"] = Current("watchlist") /\ lists["markets"] = d.lists["markets"]
      BY <1>0, <1>1 DEF Lists
    <2>. QED BY <1>0, <2>1, <2>3, <2>4
  <1>5. ~Refused(d.list, d.market, d.action, lists) =>
            after \in Lists /\ \A l \in ListNames : Fits(l, after[l])
    <2>. HIDE DEF lists, d
    <2>. QED BY <1>1, <1>4, EditFits
  <1>6. /\ next.step = "storeMarkets" /\ next.lists = after /\ next.list = d.list
        /\ next.market = d.market /\ next.action = d.action
        /\ after \in Lists => next \in Edit
    BY <1>1 DEF Edit
  <1>7. ListInv'
    <2>. HIDE DEF next, after, lists, d
    <2>1. edits' \in [Editors -> Edit \cup {None}]
      BY <1>2, <1>5, <1>6 DEF ListInv
    <2>2. \A f \in Editors : f # e => edits'[f] = edits[f]
      BY <1>2 DEF ListInv
    <2>3. edits'[e] # None => edits'[e] = next /\ ~Refused(d.list, d.market, d.action, lists)
      BY <1>2 DEF ListInv
    <2>. QED BY <1>2, <1>3, <1>5, <1>6, <2>1, <2>2, <2>3 DEF ListInv
  <1>8. LoneInv'
    <2>. SUFFICES ASSUME ~overlapped PROVE LoneInv'
      BY <1>2 DEF LoneInv
    <2>1. \A f \in Editors : edits[f] # None => f = e
      BY <1>1 DEF LoneInv
    <2>2. Exact /\ d.lists["markets"] = Current("markets")
      BY <1>1, <2>1 DEF LoneInv
    <2>3. Exact'
      BY <1>0, <1>2, <1>3, <2>2 DEF Exact, Current
    <2>4. lists["markets"] \cap lists["watchlist"] = {}
      BY <1>0, <1>1, <2>2 DEF Exact, Lists
    <2>5. /\ after["markets"] \cap after["watchlist"] = {}
          /\ (d.market \in after[d.list]) = (d.action = "add")
      <3>. HIDE DEF lists, d
      <3>. QED BY <1>1, <1>4, <2>4, EditSettles
    <2>6. Settled(next)
      <3>. HIDE DEF next, after, d
      <3>. QED BY <1>6, <2>5 DEF Settled
    <2>. HIDE DEF next, after, lists, d
    <2>7. \A f \in Editors : edits'[f] # None => f = e /\ edits'[f] = next
      BY <1>2, <2>1 DEF ListInv
    <2>. QED BY <1>6, <2>3, <2>6, <2>7 DEF LoneInv
  <1>. QED BY <1>7, <1>8

LEMMA StoreMarketsKeeps ==
  ASSUME ListInv, LoneInv, NEW e \in Editors, StoreMarkets(e)
  PROVE  ListInv' /\ LoneInv'
  <1>. DEFINE d    == edits[e]
              next == [d EXCEPT !.step = "storeWatchlist"]
  <1>0. "markets" \in ListNames /\ "watchlist" \in ListNames
        /\ \A l \in ListNames : l = "markets" \/ l = "watchlist"
    BY DEF ListNames
  <1>1. d # None /\ d.step = "storeMarkets" /\ d \in Edit /\ d.lists["markets"] \in SUBSET Names
    BY EditFields DEF StoreMarkets
  <1>2. /\ stored' = [stored EXCEPT !["markets"] = d.lists["markets"]]
        /\ edits' = [edits EXCEPT ![e] = next]
        /\ overlapped' = overlapped /\ last' = last
    BY DEF StoreMarkets
  <1>3. /\ next.step = "storeWatchlist" /\ next \in Edit /\ next.lists = d.lists
        /\ next.list = d.list /\ next.market = d.market /\ next.action = d.action
    BY <1>1 DEF Edit
  <1>4. \A l \in ListNames : Fits(l, d.lists[l])
    BY <1>1 DEF ListInv
  <1>. HIDE DEF next, d
  <1>5. /\ stored' \in [ListNames -> (SUBSET Names) \cup {None}]
        /\ Current("markets")' = d.lists["markets"]
        /\ \A k \in ListNames : k # "markets" => Current(k)' = Current(k)
    BY <1>0, <1>1, <1>2, StoreFacts
  <1>6. /\ edits' \in [Editors -> Edit \cup {None}]
        /\ edits'[e] = next /\ \A f \in Editors : f # e => edits'[f] = edits[f]
    BY <1>2, <1>3 DEF ListInv
  <1>7. ListInv'
    BY <1>0, <1>3, <1>4, <1>5, <1>6 DEF ListInv
  <1>8. LoneInv'
    <2>. SUFFICES ASSUME ~overlapped PROVE LoneInv'
      BY <1>2 DEF LoneInv
    <2>1. \A f \in Editors : edits[f] # None => f = e
      BY <1>1 DEF LoneInv, d
    <2>2. Settled(d)
      BY <1>1 DEF LoneInv, d
    <2>3. Settled(next)
      BY <1>3, <2>2 DEF Settled
    <2>4. next # None
      BY <1>3, ListsAssumption
    <2>5. \A f \in Editors : edits'[f] # None => f = e /\ edits'[f] = next
      BY <1>6, <2>1
    <2>. QED BY <1>3, <1>5, <1>6, <2>3, <2>4, <2>5 DEF LoneInv
  <1>. QED BY <1>7, <1>8

LEMMA StoreWatchlistKeeps ==
  ASSUME ListInv, LoneInv, NEW e \in Editors, StoreWatchlist(e)
  PROVE  ListInv' /\ LoneInv'
  <1>. DEFINE d == edits[e]
  <1>0. "markets" \in ListNames /\ "watchlist" \in ListNames
        /\ \A l \in ListNames : l = "markets" \/ l = "watchlist"
    BY DEF ListNames
  <1>1. /\ d # None /\ d.step = "storeWatchlist" /\ d.list \in ListNames
        /\ d.lists["watchlist"] \in SUBSET Names
    BY EditFields DEF StoreWatchlist
  <1>2. /\ stored' = [stored EXCEPT !["watchlist"] = d.lists["watchlist"]]
        /\ edits' = [edits EXCEPT ![e] = None] /\ overlapped' = overlapped
        /\ last' = [list |-> d.list, market |-> d.market, action |-> d.action]
    BY DEF StoreWatchlist
  <1>3. \A l \in ListNames : Fits(l, d.lists[l])
    BY <1>1 DEF ListInv
  <1>4. ~overlapped => /\ Settled(d) /\ Current("markets") = d.lists["markets"]
                       /\ \A f \in Editors : edits[f] # None => f = e
    BY <1>1 DEF LoneInv
  <1>. HIDE DEF d
  <1>5. /\ stored' \in [ListNames -> (SUBSET Names) \cup {None}]
        /\ Current("watchlist")' = d.lists["watchlist"]
        /\ \A k \in ListNames : k # "watchlist" => Current(k)' = Current(k)
    <2>. DEFINE s == d.lists["watchlist"]
    <2>1. "watchlist" \in ListNames /\ s \in SUBSET Names
          /\ stored' = [stored EXCEPT !["watchlist"] = s]
      BY <1>0, <1>1, <1>2
    <2>. HIDE DEF s
    <2>2. /\ stored' \in [ListNames -> (SUBSET Names) \cup {None}]
          /\ Current("watchlist")' = s
          /\ \A k \in ListNames : k # "watchlist" => Current(k)' = Current(k)
      BY <2>1, StoreFacts
    <2>. QED BY <2>2 DEF s
  <1>6. /\ edits' \in [Editors -> Edit \cup {None}]
        /\ edits'[e] = None /\ \A f \in Editors : f # e => edits'[f] = edits[f]
    BY <1>2 DEF ListInv
  <1>7. ListInv'
    BY <1>0, <1>3, <1>5, <1>6 DEF ListInv
  <1>8. LoneInv'
    <2>. SUFFICES ASSUME ~overlapped PROVE LoneInv'
      BY <1>2 DEF LoneInv
    <2>1. \A f \in Editors : edits'[f] = None
      BY <1>4, <1>6
    <2>2. Current("markets")' = d.lists["markets"]
      BY <1>0, <1>4, <1>5
    <2>3. Exact'
      BY <1>0, <1>1, <1>2, <1>4, <1>5, <2>2 DEF Exact, Settled
    <2>. QED BY <2>1, <2>3 DEF LoneInv
  <1>. QED BY <1>7, <1>8

LEMMA ListsRestartKeeps ==
  ASSUME ListInv, LoneInv, ListsRestart
  PROVE  ListInv' /\ LoneInv'
  <1>1. /\ edits' = [e \in Editors |-> None] /\ stored' = stored /\ last' = last
        /\ overlapped' = (overlapped \/ \E e \in Editors : edits[e] # None)
    BY DEF ListsRestart
  <1>2. ListInv'
    BY <1>1 DEF ListInv, Current
  <1>3. LoneInv'
    <2>. SUFFICES ASSUME ~overlapped' PROVE LoneInv'
      BY DEF LoneInv
    <2>1. Exact
      BY <1>1 DEF LoneInv
    <2>. QED BY <1>1, <2>1 DEF LoneInv, Exact, Current
  <1>. QED BY <1>2, <1>3

LEMMA ListsIdle ==
  ASSUME ListInv, LoneInv, UNCHANGED listVars
  PROVE  ListInv' /\ LoneInv'
  <1>1. \A l \in ListNames : Current(l)' = Current(l)
    BY DEF listVars, Current
  <1>2. ListInv'
    BY <1>1 DEF listVars, ListInv
  <1>3. Exact' = Exact
    BY DEF listVars, Exact, Current
  <1>. QED BY <1>2, <1>3 DEF listVars, LoneInv, Settled, Current

LEMMA ListsStep ==
  ASSUME ListInv, LoneInv, [Next]_vars
  PROVE  ListInv' /\ LoneInv'
  <1>1. CASE StartCycle
    BY <1>1, ListsIdle DEF StartCycle, listVars
  <1>2. CASE EndCycle
    BY <1>2, ListsIdle DEF EndCycle, listVars
  <1>3. CASE Judge
    BY <1>3, ListsIdle DEF Judge
  <1>4. CASE Guard
    BY <1>4, ListsIdle DEF Guard
  <1>5. CASE Restart
    BY <1>5, ListsRestartKeeps DEF Restart
  <1>6. CASE EditStep
    BY <1>6, PostKeeps, DecideKeeps, StoreMarketsKeeps, StoreWatchlistKeeps DEF EditStep
  <1>7. CASE RouterStep
    BY <1>7, ListsIdle DEF RouterStep
  <1>8. CASE DashboardStep
    BY <1>8, ListsIdle DEF DashboardStep
  <1>9. ASSUME NEW m \in Names, LookAt(m) \/ Candidate(m) PROVE ListInv' /\ LoneInv'
    BY <1>9, ListsIdle DEF LookAt, Candidate
  <1>10. CASE UNCHANGED vars
    BY <1>10, ListsIdle DEF vars
  <1>. QED BY <1>1, <1>2, <1>3, <1>4, <1>5, <1>6, <1>7, <1>8, <1>9, <1>10 DEF Next

\* However many browsers edit the lists at once and whatever restarts, there is a market to
\* trade in and no list is longer than its cap.
THEOREM ListsCorrect == Spec => []ListsWithinCaps
  <1>1. ListInv => ListsWithinCaps
    BY DEF ListInv, Fits, ListsWithinCaps, ListNames
  <1>. QED BY <1>1, ListsStart, ListsStep, PTL DEF Spec

\* As long as no edit ran into another, the last one is in place and no market is in both
\* lists.
THEOREM LoneEditsCorrect == Spec => []LoneEditsAreExact
  <1>1. LoneInv => LoneEditsAreExact
    BY DEF LoneInv, Exact, LoneEditsAreExact
  <1>. QED BY <1>1, ListsStart, ListsStep, PTL DEF Spec

-------------------------------------------------------------------------------
(* The budgets *)

RouterSteps == {"idle", "check", "send", "wait", "done"}

RouterType ==
    /\ today \in Nat \ {0} /\ launches \in Nat \ {0} /\ carried \subseteq Providers
    /\ day \in [Providers -> Nat] /\ used \in [Providers -> Nat] /\ asked \in [Providers -> Nat]
    /\ \A p \in Providers : day[p] <= today
    /\ asking \in [step : RouterSteps, p : 0..NProviders, answer : Answers]
    /\ asking.step \in {"check", "send", "wait"} => asking.p \in Providers

\* What earlier processes of the day, and yesterday, may have spent of today.
Earlier(p) == (launches - 1) * Budget[p] + (IF p \in carried THEN 1 ELSE 0)

\* What the counter says of today.
CountedToday(p) == IF day[p] = today THEN used[p] ELSE 0

\* The counter is at least what the cycle spent, the budget is too, and a request that is
\* about to be sent still fits.
BudgetInv ==
    \A p \in Providers :
        /\ asked[p] <= Earlier(p) + Budget[p]
        /\ asked[p] <= Earlier(p) + CountedToday(p)
        /\ asking.step = "send" /\ asking.p = p =>
              asked[p] + 1 <= Earlier(p) + (IF day[p] = today THEN Budget[p] ELSE 0)

LEMMA OneMoreLaunch ==
  ASSUME NEW n \in Nat \ {0}, NEW b \in Nat
  PROVE  (n - 1) * b \in Nat /\ (n - 1) * b + b = n * b /\ ((n + 1) - 1) * b = n * b
  OBVIOUS

LEMMA EarlierNumber ==
  ASSUME RouterType, NEW p \in Providers
  PROVE  /\ Earlier(p) \in Nat /\ Budget[p] \in Nat
         /\ Earlier(p) + Budget[p] = launches * Budget[p] + (IF p \in carried THEN 1 ELSE 0)
  <1>1. launches \in Nat \ {0} /\ Budget[p] \in Nat
    BY RouterAssumption DEF RouterType
  <1>2. /\ (launches - 1) * Budget[p] \in Nat
        /\ (launches - 1) * Budget[p] + Budget[p] = launches * Budget[p]
    BY <1>1, OneMoreLaunch
  <1>. DEFINE a == (launches - 1) * Budget[p]
  <1>3. launches * Budget[p] = a + Budget[p] /\ a \in Nat
    BY <1>2
  <1>. HIDE DEF a
  <1>. QED BY <1>1, <1>3 DEF Earlier, a

\* The next provider, or the end of the list.
LEMMA PassType ==
  ASSUME RouterType, NEW p \in 0..NProviders
  PROVE  /\ Pass(p) \in [step : RouterSteps, p : 0..NProviders, answer : Answers]
         /\ Pass(p).step \in {"check", "done"}
         /\ Pass(p).step = "check" => Pass(p).p \in Providers
  <1>1. CASE p < NProviders
    <2>1. Pass(p) = [asking EXCEPT !.step = "check", !.p = p + 1]
      BY <1>1 DEF Pass
    <2>2. p + 1 \in Providers /\ p + 1 \in 0..NProviders
      BY <1>1, RouterAssumption DEF Providers
    <2>. QED BY <2>1, <2>2 DEF RouterType, RouterSteps
  <1>2. CASE ~(p < NProviders)
    <2>1. Pass(p) = [asking EXCEPT !.step = "done", !.answer = "none"]
      BY <1>2 DEF Pass
    <2>. QED BY <2>1 DEF RouterType, RouterSteps, Answers
  <1>. QED BY <1>1, <1>2

LEMMA RouterStart == Init => RouterType /\ BudgetInv
  <1>. SUFFICES ASSUME Init PROVE RouterType /\ BudgetInv
    OBVIOUS
  <1>1. /\ today = 1 /\ launches = 1 /\ carried = {} /\ asking = NotAsking
        /\ day = [p \in Providers |-> 0] /\ used = [p \in Providers |-> 0]
        /\ asked = [p \in Providers |-> 0]
    BY DEF Init, RouterInit
  <1>2. RouterType
    BY <1>1, RouterAssumption DEF RouterType, NotAsking, RouterSteps, Answers
  <1>3. \A p \in Providers : Earlier(p) \in Nat /\ Budget[p] \in Nat
    BY <1>2, EarlierNumber
  <1>. QED BY <1>1, <1>2, <1>3 DEF BudgetInv, CountedToday, NotAsking

\* A step that changes only what the router is asking, and does not send.
LEMMA AskingOnly ==
  ASSUME RouterType, BudgetInv, UNCHANGED <<today, day, used, asked, launches, carried>>,
         asking' \in [step : RouterSteps, p : 0..NProviders, answer : Answers],
         asking'.step # "send",
         asking'.step \in {"check", "wait"} => asking'.p \in Providers
  PROVE  RouterType' /\ BudgetInv'
  BY DEF RouterType, BudgetInv, Earlier, CountedToday

LEMMA CheckKeeps ==
  ASSUME RouterType, BudgetInv, Check
  PROVE  RouterType' /\ BudgetInv'
  <1>p. PICK p \in Providers : p = asking.p
    BY DEF RouterType, Check
  <1>. DEFINE count == CountedToday(p)
  <1>1. p \in Providers /\ count \in Nat /\ today \in Nat /\ Budget[p] \in Nat
    BY <1>p, RouterAssumption DEF RouterType, CountedToday, Check
  <1>2. /\ day' = [day EXCEPT ![p] = today] /\ used' = [used EXCEPT ![p] = count]
        /\ asking' = IF count < Budget[p] THEN [asking EXCEPT !.step = "send"] ELSE Pass(p)
        /\ UNCHANGED <<today, asked, launches, carried>>
    BY <1>p DEF Check, CountedToday
  <1>3. p \in 0..NProviders
    BY <1>p DEF RouterType
  <1>4. /\ asking' \in [step : RouterSteps, p : 0..NProviders, answer : Answers]
        /\ asking'.step \in {"check", "send", "wait"} => asking'.p \in Providers
        /\ asking'.step = "send" => asking'.p = p /\ count < Budget[p]
    <2>1. CASE count < Budget[p]
      <3>1. asking' = [asking EXCEPT !.step = "send"]
        BY <1>2, <2>1
      <3>. QED BY <1>p, <1>1, <2>1, <3>1 DEF RouterType, RouterSteps
    <2>2. CASE ~(count < Budget[p])
      <3>1. asking' = Pass(p)
        BY <1>2, <2>2
      <3>. QED BY <1>3, <3>1, PassType
    <2>. QED BY <2>1, <2>2
  <1>5. RouterType'
    BY <1>1, <1>2, <1>4 DEF RouterType
  <1>6. \A q \in Providers : Earlier(q)' = Earlier(q) /\ CountedToday(q)' = CountedToday(q)
    BY <1>1, <1>2 DEF Earlier, CountedToday, RouterType
  <1>7. \A q \in Providers : Earlier(q) \in Nat /\ asked[q] \in Nat
    BY EarlierNumber DEF RouterType
  <1>8. day'[p] = today'
    BY <1>1, <1>2 DEF RouterType
  <1>9. asked[p] <= Earlier(p) + count
    BY <1>1 DEF BudgetInv
  <1>. HIDE DEF count
  <1>10. asking'.step = "send" => asked'[p] + 1 <= Earlier(p)' + Budget[p]
    BY <1>1, <1>2, <1>4, <1>6, <1>7, <1>9
  <1>. QED BY <1>1, <1>2, <1>4, <1>5, <1>6, <1>8, <1>10 DEF BudgetInv

LEMMA SendKeeps ==
  ASSUME RouterType, BudgetInv, Send
  PROVE  RouterType' /\ BudgetInv'
  <1>p. PICK p \in Providers : p = asking.p
    BY DEF RouterType, Send
  <1>1. /\ p \in Providers /\ asking.step = "send"
        /\ used' = [used EXCEPT ![p] = used[p] + 1]
        /\ asked' = [asked EXCEPT ![p] = asked[p] + 1]
        /\ asking' = [asking EXCEPT !.step = "wait"]
        /\ UNCHANGED <<today, day, launches, carried>>
    BY <1>p DEF Send, Counted, RouterType
  <1>2. RouterType'
    BY <1>1 DEF RouterType, RouterSteps
  <1>3. \A q \in Providers : /\ Earlier(q)' = Earlier(q) /\ Earlier(q) \in Nat
                            /\ Budget[q] \in Nat /\ asked[q] \in Nat /\ used[q] \in Nat
    BY <1>1, EarlierNumber DEF Earlier, RouterType
  <1>4. asked[p] + 1 <= Earlier(p) + (IF day[p] = today THEN Budget[p] ELSE 0)
    BY <1>p, <1>1 DEF BudgetInv
  <1>5. asked'[p] = asked[p] + 1 /\ used'[p] = used[p] + 1
        /\ \A q \in Providers : q # p => asked'[q] = asked[q] /\ used'[q] = used[q]
    BY <1>1 DEF RouterType
  <1>6. asking'.step = "wait"
    BY <1>1 DEF RouterType
  <1>7. /\ asked'[p] <= Earlier(p) + Budget[p]
        /\ asked'[p] <= Earlier(p) + CountedToday(p)'
    BY <1>1, <1>3, <1>4, <1>5 DEF CountedToday, BudgetInv
  <1>8. \A q \in Providers : q # p => CountedToday(q)' = CountedToday(q)
    BY <1>1, <1>5 DEF CountedToday
  <1>. QED BY <1>1, <1>2, <1>3, <1>5, <1>6, <1>7, <1>8 DEF BudgetInv

LEMMA ProbeKeeps ==
  ASSUME RouterType, BudgetInv, Probe
  PROVE  RouterType' /\ BudgetInv'
  <1>1. PICK p \in Providers : used' = [used EXCEPT ![p] = used[p] + 1]
    BY DEF Probe, Counted
  <1>2. UNCHANGED <<today, day, asking, asked, launches, carried>>
    BY DEF Probe
  <1>3. RouterType'
    BY <1>1, <1>2 DEF RouterType
  <1>4. \A q \in Providers : /\ Earlier(q)' = Earlier(q) /\ Earlier(q) \in Nat
                            /\ asked[q] \in Nat /\ CountedToday(q) \in Nat
                            /\ CountedToday(q)' \in Nat /\ CountedToday(q) <= CountedToday(q)'
    BY <1>1, <1>2, EarlierNumber DEF Earlier, CountedToday, RouterType
  <1>. QED BY <1>2, <1>3, <1>4 DEF BudgetInv

LEMMA MidnightKeeps ==
  ASSUME RouterType, BudgetInv, Midnight
  PROVE  RouterType' /\ BudgetInv'
  <1>1. /\ today' = today + 1 /\ asked' = [p \in Providers |-> 0] /\ launches' = 1
        /\ carried' = IF asking.step = "send" THEN {asking.p} ELSE {}
        /\ UNCHANGED <<day, used, asking>>
    BY DEF Midnight
  <1>2. RouterType'
    BY <1>1 DEF RouterType
  <1>3. \A q \in Providers : day'[q] # today' /\ Budget[q] \in Nat
    BY <1>1, RouterAssumption DEF RouterType
  <1>4. \A q \in Providers : Earlier(q)' = IF q \in carried' THEN 1 ELSE 0
    BY <1>1, <1>3 DEF Earlier
  <1>. QED BY <1>1, <1>2, <1>3, <1>4 DEF BudgetInv, CountedToday

LEMMA RouterRestartKeeps ==
  ASSUME RouterType, BudgetInv, RouterRestart
  PROVE  RouterType' /\ BudgetInv'
  <1>1. /\ day' = [p \in Providers |-> 0] /\ used' = [p \in Providers |-> 0]
        /\ asking' = NotAsking /\ launches' = launches + 1
        /\ UNCHANGED <<today, asked, carried>>
    BY DEF RouterRestart
  <1>2. RouterType'
    BY <1>1, RouterAssumption DEF RouterType, NotAsking, RouterSteps, Answers
  <1>3. ASSUME NEW q \in Providers
        PROVE  /\ Earlier(q)' = Earlier(q) + Budget[q] /\ Earlier(q) \in Nat
               /\ Budget[q] \in Nat /\ day'[q] # today' /\ asked[q] \in Nat
    <2>1. launches \in Nat \ {0} /\ Budget[q] \in Nat
      BY RouterAssumption DEF RouterType
    <2>2. (launches' - 1) * Budget[q] = launches * Budget[q]
      BY <1>1, <2>1, OneMoreLaunch
    <2>3. Earlier(q)' = launches * Budget[q] + (IF q \in carried THEN 1 ELSE 0)
      BY <1>1, <2>2 DEF Earlier
    <2>4. day'[q] # today' /\ asked[q] \in Nat
      BY <1>1 DEF RouterType
    <2>. QED BY <2>1, <2>3, <2>4, EarlierNumber
  <1>4. asking'.step = "idle"
    BY <1>1 DEF NotAsking
  <1>. QED BY <1>1, <1>2, <1>3, <1>4 DEF BudgetInv, CountedToday

LEMMA RouterIdle ==
  ASSUME RouterType, BudgetInv, UNCHANGED routerVars
  PROVE  RouterType' /\ BudgetInv'
  BY DEF routerVars, RouterType, BudgetInv, Earlier, CountedToday

LEMMA RouterKeeps ==
  ASSUME RouterType, BudgetInv, [Next]_vars
  PROVE  RouterType' /\ BudgetInv'
  <1>1. CASE StartCycle
    BY <1>1, RouterIdle DEF StartCycle
  <1>2. CASE EndCycle
    BY <1>2, RouterIdle DEF EndCycle
  <1>3. CASE Judge
    <2>1. UNCHANGED <<today, day, used, asked, launches, carried>> /\ asking' = NotAsking
      BY <1>3 DEF Judge
    <2>2. /\ NotAsking \in [step : RouterSteps, p : 0..NProviders, answer : Answers]
          /\ NotAsking.step = "idle"
      BY RouterAssumption DEF NotAsking, RouterSteps, Answers
    <2>. QED BY <2>1, <2>2, AskingOnly
  <1>4. CASE Guard
    BY <1>4, RouterIdle DEF Guard
  <1>5. CASE Restart
    BY <1>5, RouterRestartKeeps DEF Restart
  <1>6. CASE EditStep
    BY <1>6, RouterIdle DEF EditStep
  <1>7. CASE RouterStep
    <2>1. CASE Check
      BY <2>1, CheckKeeps
    <2>2. CASE Send
      BY <2>2, SendKeeps
    <2>3. CASE Answer
      <3>1. /\ UNCHANGED <<today, day, used, asked, launches, carried>>
            /\ \/ \E a \in {"agree", "veto", "raised"} :
                     asking' = [asking EXCEPT !.step = "done", !.answer = a]
               \/ asking' = Pass(asking.p)
        BY <2>3 DEF Answer
      <3>2. CASE \E a \in {"agree", "veto", "raised"} :
                     asking' = [asking EXCEPT !.step = "done", !.answer = a]
        <4>1. /\ asking' \in [step : RouterSteps, p : 0..NProviders, answer : Answers]
              /\ asking'.step = "done"
          BY <3>2 DEF RouterType, RouterSteps, Answers
        <4>. QED BY <3>1, <4>1, AskingOnly
      <3>3. CASE asking' = Pass(asking.p)
        <4>1. asking.p \in 0..NProviders
          BY DEF RouterType
        <4>. QED BY <3>1, <3>3, <4>1, PassType, AskingOnly
      <3>. QED BY <3>1, <3>2, <3>3
    <2>. QED BY <1>7, <2>1, <2>2, <2>3 DEF RouterStep
  <1>8. CASE DashboardStep
    BY <1>8, ProbeKeeps, MidnightKeeps DEF DashboardStep
  <1>9. ASSUME NEW m \in Names, LookAt(m) PROVE RouterType' /\ BudgetInv'
    BY <1>9, RouterIdle DEF LookAt
  <1>10. ASSUME NEW m \in Names, Candidate(m) PROVE RouterType' /\ BudgetInv'
    <2>1. UNCHANGED <<today, day, used, asked, launches, carried>> /\ asking' = Pass(0)
      BY <1>10 DEF Candidate, Consult
    <2>2. 0 \in 0..NProviders
      BY RouterAssumption
    <2>. QED BY <2>1, <2>2, PassType, AskingOnly
  <1>11. CASE UNCHANGED vars
    BY <1>11, RouterIdle DEF vars
  <1>. QED BY <1>1, <1>2, <1>3, <1>4, <1>5, <1>6, <1>7, <1>8, <1>9, <1>10, <1>11 DEF Next

\* However often the test button is pressed, providers fail, midnight passes or the program
\* restarts, the cycle spends no more than its budget, once per process and one for midnight.
THEOREM BudgetCorrect == Spec => []CycleWithinBudget
  <1>1. RouterType /\ BudgetInv => CycleWithinBudget
    <2>. SUFFICES ASSUME RouterType, BudgetInv, NEW p \in Providers
                  PROVE  asked[p] <= launches * Budget[p] + (IF p \in carried THEN 1 ELSE 0)
      BY DEF CycleWithinBudget
    <2>1. asked[p] <= Earlier(p) + Budget[p]
      BY DEF BudgetInv
    <2>. QED BY <2>1, EarlierNumber
  <1>. QED BY <1>1, RouterStart, RouterKeeps, PTL DEF Spec

-------------------------------------------------------------------------------
(* The end of a cycle: what CycleEnds rests on beside fairness. *)

\* The thread of the cycle, and the requests it waits for.
CycleStep == EndCycle \/ Judge \/ RouterStep \/ \E m \in Names : LookAt(m) \/ Candidate(m)

\* Steps that second_opinion still takes, with the verdict: three for each provider that is left.
AskingLeft ==
    IF asking.step = "idle" THEN 0
    ELSE IF asking.step = "done" THEN 1
    ELSE 3 * (NProviders - asking.p)
         + (IF asking.step = "check" THEN 4 ELSE IF asking.step = "send" THEN 3 ELSE 2)

\* Steps a market can take when all providers are asked about it
MarketSteps == 3 * NProviders + 2

StepsLeft == IF todo = None THEN 0 ELSE Cardinality(todo) * MarketSteps + AskingLeft + 1

\* A cycle never gets longer while it runs, and each of its steps brings it nearer to its end.
CycleAdvances ==
    [][ /\ todo # None => StepsLeft' <= StepsLeft
        /\ CycleStep => StepsLeft' < StepsLeft ]_vars

\* The markets of the dashboard, a position in each slot, and what the scan may add
MostMarkets == Cap["markets"] + Slots + MaxAuto

CycleBounded == StepsLeft <= MostMarkets * MarketSteps + 1

\* The cycle has a next step: it waits for the router or is between two markets.
CycleHasStep ==
    todo # None => \/ asking.step \in {"check", "send", "wait"}         \* RouterStep
                   \/ asking.step = "done"                              \* Judge
                   \/ market = None /\ asking.step = "idle" /\ todo # {} \* LookAt
                   \/ market = None /\ todo = {}                        \* EndCycle

\* A question belongs to a market of the cycle, and to a slot that is free until it is answered.
CycleInv ==
    /\ positions \in SUBSET Names /\ Cardinality(positions) <= Slots
    /\ asking.step # "idle" => Cardinality(positions) < Slots
    /\ todo \in (SUBSET Names) \cup {None}
    /\ asking.step = "idle" => market = None
    /\ asking.step # "idle" => market \in Names /\ todo # None

LEMMA MostIsNumber == MostMarkets \in Nat
  BY PanelAssumption, ListsAssumption DEF MostMarkets, ListNames

LEMMA LengthNumbers ==
  /\ NProviders \in Nat /\ MarketSteps \in Nat /\ MarketSteps >= 3 * NProviders + 2
  BY RouterAssumption DEF MarketSteps

\* One factor less, one product less.
LEMMA LessByOne ==
  ASSUME NEW n \in Nat, NEW k \in Nat, NEW w \in Nat, k <= n
  PROVE  /\ k * w \in Nat /\ n * w \in Nat /\ k * w <= n * w
         /\ n > 0 => (n - 1) * w = n * w - w
  <1>1. k * w \in Nat /\ n * w \in Nat /\ (n - k) * w \in Nat
    OBVIOUS
  <1>2. n * w = k * w + (n - k) * w
    OBVIOUS
  <1>3. n > 0 => (n - 1) * w = n * w - w
    OBVIOUS
  <1>. DEFINE a == k * w
              b == n * w
              c == (n - k) * w
  <1>4. a \in Nat /\ b \in Nat /\ c \in Nat /\ b = a + c
    BY <1>1, <1>2
  <1>. HIDE DEF a, b, c
  <1>5. a <= b
    BY <1>4
  <1>. QED BY <1>1, <1>3, <1>5 DEF a, b

LEMMA CycleStart == Init => CycleInv /\ CycleBounded
  <1>. SUFFICES ASSUME Init PROVE CycleInv /\ CycleBounded
    OBVIOUS
  <1>1. positions = {} /\ todo = None /\ market = None /\ asking.step = "idle"
    BY DEF Init, RouterInit, NotAsking
  <1>2. MostMarkets * MarketSteps \in Nat
    BY MostIsNumber, LengthNumbers, LessByOne
  <1>. DEFINE most == MostMarkets * MarketSteps
  <1>3. 0 <= most + 1
    <2>1. most \in Nat
      BY <1>2
    <2>. HIDE DEF most
    <2>. QED BY <2>1
  <1>4. Cardinality(positions) = 0 /\ Slots \in Nat
    BY <1>1, FS_EmptySet, PanelAssumption
  <1>. QED BY <1>1, <1>3, <1>4 DEF CycleInv, CycleBounded, StepsLeft

LEMMA SmallUnion ==
  ASSUME NEW S \in SUBSET Names, NEW T \in SUBSET Names, NEW s \in Nat, NEW t \in Nat,
         Cardinality(S) <= s, Cardinality(T) <= t
  PROVE  Cardinality(S \cup T) <= s + t
  <1>1. /\ IsFiniteSet(S) /\ IsFiniteSet(T)
        /\ Cardinality(S) \in Nat /\ Cardinality(T) \in Nat /\ Cardinality(S \cap T) \in Nat
    BY NamesFinite
  <1>2. Cardinality(S \cup T) = Cardinality(S) + Cardinality(T) - Cardinality(S \cap T)
    BY <1>1, FS_Union
  <1>. QED BY <1>1, <1>2

\* A scan adds at most max_auto markets.
LEMMA AutoIsSmall ==
  ASSUME NEW pinned, NEW auto \in AutoFillChoices(pinned), CycleInv
  PROVE  /\ {t.market : t \in auto} \in SUBSET Names
         /\ Cardinality({t.market : t \in auto}) <= MaxAuto
  <1>. DEFINE names == {t.market : t \in auto}
              f == [t \in auto |-> t.market]
              free == Slots - Cardinality(positions)
              want == IF MaxAuto < free + Buffer THEN MaxAuto ELSE free + Buffer
              rows == Scanned(Tickers, Blocklist)
              exclude == pinned \cup positions \cup Blocklist
  <1>1. /\ Slots \in Nat /\ MaxAuto \in Nat /\ Buffer \in Nat /\ IsFiniteSet(Tickers)
        /\ \A t \in Tickers : t.market \in Names
    BY PanelAssumption
  <1>2. auto = {} \/ (~(free <= 0) /\ auto \in AutoFills(rows, exclude, want))
    BY DEF AutoFillChoices
  <1>3. auto \subseteq Tickers
    BY <1>2 DEF AutoFills, Scanned
  <1>4. IsFiniteSet(auto) /\ Cardinality(auto) \in Nat
    BY <1>1, <1>3, FS_Subset, FS_CardinalityType
  <1>5. Cardinality(auto) <= MaxAuto
    <2>1. CASE auto = {}
      BY <1>1, <2>1, FS_EmptySet
    <2>2. CASE ~(free <= 0) /\ auto \in AutoFills(rows, exclude, want)
      <3>. DEFINE fit == {t \in rows : /\ t.move >= Required(t) /\ t.score >= ScoreNeeded
                                      /\ t.market \notin exclude}
                  n == IF Cardinality(fit) < want THEN Cardinality(fit) ELSE want
      <3>1. Cardinality(auto) = n
        BY <2>2 DEF AutoFills
      <3>2. Cardinality(positions) \in Nat
        BY NamesFinite DEF CycleInv
      <3>3. want \in Int /\ want <= MaxAuto
        BY <1>1, <3>2
      <3>4. IsFiniteSet(fit)
        BY <1>1, FS_Subset DEF Scanned
      <3>5. Cardinality(fit) \in Nat
        BY <3>4, FS_CardinalityType
      <3>. HIDE DEF fit, want, free
      <3>6. n <= want
        BY <3>3, <3>5
      <3>. QED BY <1>1, <1>4, <3>1, <3>3, <3>6
    <2>. QED BY <1>2, <2>1, <2>2
  <1>6. f \in Surjection(auto, names)
    BY DEF Surjection, Range
  <1>7. names \in SUBSET Names
    BY <1>1, <1>3
  <1>8. Cardinality(names) <= Cardinality(auto) /\ Cardinality(names) \in Nat
    BY <1>4, <1>6, <1>7, FS_Surjection, NamesFinite
  <1>. QED BY <1>1, <1>4, <1>5, <1>7, <1>8

\* What a cycle looks at are markets, and not too many.
LEMMA StartTodo ==
  ASSUME ListInv, CycleInv, StartCycle
  PROVE  todo' \in SUBSET Names /\ Cardinality(todo') <= MostMarkets
  <1>1. /\ Current("markets") \in SUBSET Names /\ Cap["markets"] \in Nat
        /\ Cardinality(Current("markets")) <= Cap["markets"]
    BY CapNumber DEF ListInv, Fits, ListNames
  <1>2. PICK auto \in AutoFillChoices(Current("markets")) :
          todo' = Current("markets") \cup positions \cup {t.market : t \in auto}
    BY DEF StartCycle
  <1>. DEFINE names == {t.market : t \in auto}
              pinned == Current("markets")
  <1>3. names \in SUBSET Names /\ Cardinality(names) <= MaxAuto
    BY <1>2, AutoIsSmall
  <1>4. Slots \in Nat /\ MaxAuto \in Nat
    BY PanelAssumption
  <1>5. positions \in SUBSET Names /\ Cardinality(positions) <= Slots
    BY DEF CycleInv
  <1>. HIDE DEF names, pinned
  <1>6. pinned \in SUBSET Names /\ Cardinality(pinned) <= Cap["markets"]
    BY <1>1 DEF pinned
  <1>7. pinned \cup positions \in SUBSET Names
        /\ Cardinality(pinned \cup positions) <= Cap["markets"] + Slots
    BY <1>1, <1>4, <1>5, <1>6, SmallUnion
  <1>8. Cap["markets"] + Slots \in Nat
    BY <1>1, <1>4
  <1>9. Cardinality((pinned \cup positions) \cup names) <= (Cap["markets"] + Slots) + MaxAuto
    BY <1>3, <1>4, <1>7, <1>8, SmallUnion
  <1>10. todo' = (pinned \cup positions) \cup names
    BY <1>2 DEF pinned, names
  <1>. QED BY <1>3, <1>7, <1>9, <1>10 DEF MostMarkets

LEMMA OneMorePosition ==
  ASSUME CycleInv, NEW m \in Names, Cardinality(positions) < Slots
  PROVE  Cardinality(positions \cup {m}) <= Slots
  <1>1. IsFiniteSet(positions) /\ Cardinality(positions) \in Nat /\ Slots \in Nat
    BY NamesFinite, PanelAssumption DEF CycleInv
  <1>2. \/ Cardinality(positions \cup {m}) = Cardinality(positions)
        \/ Cardinality(positions \cup {m}) = Cardinality(positions) + 1
    BY <1>1, FS_AddElement
  <1>. QED BY <1>1, <1>2

LEMMA OnePositionLess ==
  ASSUME CycleInv, NEW m
  PROVE  /\ positions \ {m} \in SUBSET Names
         /\ Cardinality(positions \ {m}) <= Slots
         /\ Cardinality(positions) < Slots => Cardinality(positions \ {m}) < Slots
  <1>1. /\ IsFiniteSet(positions) /\ Cardinality(positions) \in Nat /\ Slots \in Nat
        /\ Cardinality(positions) <= Slots /\ positions \ {m} \in SUBSET Names
    BY NamesFinite, PanelAssumption DEF CycleInv
  <1>2. /\ Cardinality(positions \ {m}) \in Nat
        /\ Cardinality(positions \ {m}) <= Cardinality(positions)
    BY <1>1, NamesFinite, FS_Subset
  <1>. QED BY <1>1, <1>2

LEMMA CycleInvKeeps ==
  ASSUME ListInv, RouterType, CycleInv, [Next]_vars
  PROVE  CycleInv'
  <1>1. CASE StartCycle
    <2>1. todo' \in SUBSET Names
      BY <1>1, StartTodo
    <2>2. UNCHANGED <<positions, market, asking>>
      BY <1>1 DEF StartCycle, routerVars
    <2>. QED BY <2>1, <2>2, ListsAssumption DEF CycleInv
  <1>2. CASE EndCycle
    <2>1. todo' = None /\ market = None /\ UNCHANGED <<positions, market, asking>>
      BY <1>2 DEF EndCycle, routerVars
    <2>. QED BY <2>1, ListsAssumption DEF CycleInv
  <1>3. CASE Judge
    <2>1. asking'.step = "idle" /\ market' = None /\ todo' = todo
      BY <1>3 DEF Judge, NotAsking
    <2>2. /\ market \in Names /\ Cardinality(positions) < Slots
          /\ positions' \in {positions, positions \cup {market}}
      BY <1>3 DEF Judge, CycleInv
    <2>3. positions' \in SUBSET Names /\ Cardinality(positions') <= Slots
      BY <2>2, OneMorePosition DEF CycleInv
    <2>. QED BY <2>1, <2>3 DEF CycleInv
  <1>4. CASE Guard
    <2>1. \E m \in positions : positions' = positions \ {m}
      BY <1>4 DEF Guard
    <2>2. UNCHANGED <<todo, market, asking>>
      BY <1>4 DEF Guard, routerVars
    <2>. QED BY <2>1, <2>2, OnePositionLess DEF CycleInv
  <1>5. CASE Restart
    BY <1>5 DEF Restart, CycleInv, RouterRestart, NotAsking
  <1>6. CASE EditStep
    BY <1>6 DEF EditStep, CycleInv, routerVars, cycleVars
  <1>7. CASE RouterStep
    <2>1. UNCHANGED <<positions, todo, market>> /\ asking.step \in {"check", "send", "wait"}
      BY <1>7 DEF RouterStep, cycleVars, Check, Send, Answer
    <2>2. asking'.step # "idle"
      <3>1. asking.p \in 0..NProviders
        BY DEF RouterType
      <3>2. Pass(asking.p).step # "idle"
        BY <3>1, PassType
      <3>3. asking \in [step : RouterSteps, p : 0..NProviders, answer : Answers]
        BY DEF RouterType
      <3>. QED BY <1>7, <3>2, <3>3 DEF RouterStep, Check, Send, Answer
    <2>. QED BY <2>1, <2>2 DEF CycleInv
  <1>8. CASE DashboardStep
    BY <1>8 DEF DashboardStep, CycleInv, cycleVars, Probe, Midnight
  <1>9. ASSUME NEW m \in Names, LookAt(m) PROVE CycleInv'
    <2>1. /\ positions' \in {positions, positions \ {m}} /\ todo' = todo \ {m} /\ todo # None
          /\ UNCHANGED <<market, asking>>
      BY <1>9 DEF LookAt, routerVars
    <2>. QED BY <2>1, OnePositionLess, ListsAssumption DEF CycleInv
  <1>10. ASSUME NEW m \in Names, Candidate(m) PROVE CycleInv'
    <2>1. asking' = Pass(0) /\ market' = m /\ todo' = todo \ {m} /\ positions' = positions /\ todo # None
          /\ Cardinality(positions) < Slots
      BY <1>10 DEF Candidate, Consult
    <2>2. Pass(0).step # "idle"
      BY RouterAssumption, PassType
    <2>. QED BY <2>1, <2>2, ListsAssumption DEF CycleInv
  <1>11. CASE UNCHANGED vars
    BY <1>11 DEF vars, routerVars, cycleVars, CycleInv
  <1>. QED BY <1>1, <1>2, <1>3, <1>4, <1>5, <1>6, <1>7, <1>8, <1>9, <1>10, <1>11 DEF Next

LEMMA AskingNumber ==
  ASSUME RouterType
  PROVE  /\ AskingLeft \in Nat
         /\ asking.step # "idle" => AskingLeft >= 1
  <1>1. asking.p \in 0..NProviders /\ NProviders \in Nat
    BY RouterAssumption DEF RouterType
  <1>. QED BY <1>1 DEF AskingLeft

\* On to the next provider: less is left than while the answer of this one was awaited.
LEMMA PassShortens ==
  ASSUME RouterType, NEW p \in 0..NProviders, asking' = Pass(p)
  PROVE  AskingLeft' <= 3 * (NProviders - p) + 1 /\ AskingLeft' \in Nat
  <1>1. NProviders \in Nat /\ asking \in [step : RouterSteps, p : 0..NProviders, answer : Answers]
    BY RouterAssumption DEF RouterType
  <1>2. CASE p < NProviders
    <2>1. asking'.step = "check" /\ asking'.p = p + 1
      BY <1>1, <1>2 DEF Pass
    <2>. QED BY <1>1, <1>2, <2>1 DEF AskingLeft
  <1>3. CASE ~(p < NProviders)
    <2>1. asking'.step = "done"
      BY <1>1, <1>3 DEF Pass
    <2>. QED BY <1>1, <2>1 DEF AskingLeft
  <1>. QED BY <1>2, <1>3

\* Every step of the router brings the answer nearer.
LEMMA RouterShortens ==
  ASSUME RouterType, RouterStep
  PROVE  AskingLeft' < AskingLeft /\ AskingLeft' \in Nat
  <1>1. /\ NProviders \in Nat
        /\ asking \in [step : RouterSteps, p : 0..NProviders, answer : Answers]
    BY RouterAssumption DEF RouterType
  <1>2. asking.p \in 0..NProviders
    BY <1>1
  <1>3. CASE Check
    <2>1. AskingLeft = 3 * (NProviders - asking.p) + 4
      BY <1>1, <1>3 DEF Check, AskingLeft
    <2>2. CASE asking' = [asking EXCEPT !.step = "send"]
      <3>1. asking'.step = "send" /\ asking'.p = asking.p
        BY <1>1, <2>2
      <3>. QED BY <1>1, <1>2, <2>1, <3>1 DEF AskingLeft
    <2>3. CASE asking' = Pass(asking.p)
      BY <1>1, <1>2, <2>1, <2>3, PassShortens
    <2>. QED BY <1>3, <2>2, <2>3 DEF Check
  <1>4. CASE Send
    <2>1. AskingLeft = 3 * (NProviders - asking.p) + 3
      BY <1>1, <1>4 DEF Send, AskingLeft
    <2>2. asking'.step = "wait" /\ asking'.p = asking.p
      BY <1>1, <1>4 DEF Send
    <2>. QED BY <1>1, <1>2, <2>1, <2>2 DEF AskingLeft
  <1>5. CASE Answer
    <2>1. AskingLeft = 3 * (NProviders - asking.p) + 2
      BY <1>1, <1>5 DEF Answer, AskingLeft
    <2>2. CASE asking' = Pass(asking.p)
      BY <1>1, <1>2, <2>1, <2>2, PassShortens
    <2>3. CASE \E a \in {"agree", "veto", "raised"} : asking' = [asking EXCEPT !.step = "done", !.answer = a]
      <3>1. asking'.step = "done"
        BY <1>1, <2>3
      <3>. QED BY <1>1, <1>2, <2>1, <3>1 DEF AskingLeft
    <2>. QED BY <1>5, <2>2, <2>3 DEF Answer
  <1>. QED BY <1>3, <1>4, <1>5 DEF RouterStep

LEMMA LeftIsNumber ==
  ASSUME RouterType, CycleInv
  PROVE  /\ StepsLeft \in Nat
         /\ todo # None => /\ Cardinality(todo) \in Nat
                           /\ Cardinality(todo) * MarketSteps \in Nat
                           /\ StepsLeft = Cardinality(todo) * MarketSteps + AskingLeft + 1
  <1>1. CASE todo = None
    BY <1>1 DEF StepsLeft
  <1>2. CASE todo # None
    <2>. DEFINE n == Cardinality(todo)
                a == n * MarketSteps
    <2>1. n \in Nat
      BY <1>2, NamesFinite DEF CycleInv
    <2>2. a \in Nat
      BY <2>1, LengthNumbers, LessByOne
    <2>3. StepsLeft = a + AskingLeft + 1
      BY <1>2 DEF StepsLeft
    <2>. HIDE DEF a
    <2>4. StepsLeft \in Nat
      BY <2>2, <2>3, AskingNumber
    <2>. QED BY <1>2, <2>1, <2>2, <2>3, <2>4 DEF a
  <1>. QED BY <1>1, <1>2

LEMMA SumsOrdered ==
  ASSUME NEW a \in Nat, NEW p \in Nat, NEW q \in Nat
  PROVE  (q <= p => a + q + 1 <= a + p + 1) /\ (q < p => a + q + 1 < a + p + 1)
  OBVIOUS

\* A step that leaves the list of the cycle alone is as long as what it leaves to ask.
LEMMA SameTodo ==
  ASSUME RouterType, CycleInv, RouterType', CycleInv', todo' = todo
  PROVE  /\ AskingLeft' <= AskingLeft => StepsLeft' <= StepsLeft
         /\ todo # None /\ AskingLeft' < AskingLeft => StepsLeft' < StepsLeft
  <1>1. CASE todo = None
    BY <1>1 DEF StepsLeft
  <1>2. CASE todo # None
    <2>. DEFINE a == Cardinality(todo) * MarketSteps
    <2>1. StepsLeft = a + AskingLeft + 1 /\ a \in Nat /\ AskingLeft \in Nat
      BY <1>2, LeftIsNumber, AskingNumber
    <2>2. StepsLeft' = a + AskingLeft' + 1
      BY <1>2 DEF StepsLeft, MarketSteps
    <2>3. AskingLeft' \in Nat
      BY RouterAssumption DEF RouterType, AskingLeft
    <2>. HIDE DEF a
    <2>4. /\ AskingLeft' <= AskingLeft => a + AskingLeft' + 1 <= a + AskingLeft + 1
          /\ AskingLeft' < AskingLeft => a + AskingLeft' + 1 < a + AskingLeft + 1
      BY <2>1, <2>3, SumsOrdered
    <2>. QED BY <2>1, <2>2, <2>4
  <1>. QED BY <1>1, <1>2

\* A market that is taken from the list takes its steps along.
LEMMA OneMarketLess ==
  ASSUME RouterType, CycleInv, NEW m \in todo, todo # None, todo' = todo \ {m}
  PROVE  AskingLeft' \in Nat /\ AskingLeft' < AskingLeft + MarketSteps => StepsLeft' < StepsLeft
  <1>. DEFINE n == Cardinality(todo)
              a == n * MarketSteps
              b == (n - 1) * MarketSteps
  <1>1. todo \in SUBSET Names /\ todo \ {m} \in SUBSET Names
    BY DEF CycleInv
  <1>2. n \in Nat /\ Cardinality(todo \ {m}) = n - 1 /\ Cardinality(todo \ {m}) \in Nat
    BY <1>1, NamesFinite, FS_RemoveElement
  <1>3. a \in Nat /\ b = a - MarketSteps
    BY <1>2, LengthNumbers, LessByOne
  <1>4. StepsLeft = a + AskingLeft + 1 /\ AskingLeft \in Nat
    BY LeftIsNumber, AskingNumber
  <1>5. StepsLeft' = b + AskingLeft' + 1
    BY <1>1, <1>2, ListsAssumption DEF StepsLeft, MarketSteps
  <1>6. MarketSteps \in Nat
    BY LengthNumbers
  <1>. HIDE DEF n, a, b
  <1>7. AskingLeft' \in Nat /\ AskingLeft' < AskingLeft + MarketSteps
          => b + AskingLeft' + 1 < a + AskingLeft + 1
    <2>. DEFINE q == AskingLeft'
    <2>. HIDE DEF q
    <2>1. q \in Nat /\ q < AskingLeft + MarketSteps => b + q + 1 < a + AskingLeft + 1
      BY <1>3, <1>4, <1>6
    <2>. QED BY <2>1 DEF q
  <1>. QED BY <1>4, <1>5, <1>7

LEMMA CycleShortens ==
  ASSUME RouterType, CycleInv, RouterType', CycleInv', [Next]_vars
  PROVE  /\ todo # None => StepsLeft' <= StepsLeft
         /\ CycleStep => StepsLeft' < StepsLeft
         /\ StepsLeft' \in Nat
  <1>1. ASSUME NEW m \in Names, LookAt(m) PROVE StepsLeft' < StepsLeft
    <2>1. m \in todo /\ todo # None /\ todo' = todo \ {m} /\ asking' = asking
      BY <1>1 DEF LookAt, routerVars
    <2>2. AskingLeft' = AskingLeft
      BY <2>1 DEF AskingLeft
    <2>3. AskingLeft < AskingLeft + MarketSteps
      BY AskingNumber, LengthNumbers, RouterAssumption DEF MarketSteps
    <2>. QED BY <2>1, <2>2, <2>3, AskingNumber, OneMarketLess
  <1>2. ASSUME NEW m \in Names, Candidate(m) PROVE StepsLeft' < StepsLeft
    <2>1. /\ m \in todo /\ todo # None /\ todo' = todo \ {m}
          /\ asking' = Pass(0) /\ asking.step = "idle"
      BY <1>2 DEF Candidate, Consult
    <2>2. AskingLeft' <= 3 * (NProviders - 0) + 1 /\ AskingLeft' \in Nat /\ AskingLeft = 0
      BY <2>1, PassShortens, RouterAssumption DEF AskingLeft
    <2>3. AskingLeft' < AskingLeft + MarketSteps
      <3>. DEFINE q == AskingLeft'
      <3>. HIDE DEF q
      <3>1. q <= 3 * (NProviders - 0) + 1 /\ q \in Nat => q < 0 + MarketSteps
        BY RouterAssumption DEF MarketSteps
      <3>. QED BY <2>2, <3>1 DEF q
    <2>. QED BY <2>1, <2>2, <2>3, OneMarketLess
  <1>3. ASSUME EndCycle PROVE StepsLeft' < StepsLeft
    <2>1. todo' = None /\ todo # None
      BY <1>3, ListsAssumption DEF EndCycle
    <2>2. StepsLeft' = 0
      BY <2>1 DEF StepsLeft
    <2>. DEFINE a == Cardinality(todo) * MarketSteps
    <2>3. StepsLeft = a + AskingLeft + 1 /\ a \in Nat /\ AskingLeft \in Nat
      BY <2>1, LeftIsNumber, AskingNumber
    <2>. HIDE DEF a
    <2>4. StepsLeft > 0
      BY <2>3
    <2>. QED BY <2>2, <2>4
  <1>4. ASSUME Judge PROVE StepsLeft' < StepsLeft
    <2>1. todo' = todo /\ asking.step = "done" /\ asking' = NotAsking /\ todo # None
      BY <1>4 DEF Judge, CycleInv
    <2>2. AskingLeft = 1 /\ AskingLeft' = 0
      BY <2>1 DEF AskingLeft, NotAsking
    <2>. QED BY <2>1, <2>2, SameTodo
  <1>5. ASSUME RouterStep PROVE StepsLeft' < StepsLeft
    <2>1. todo' = todo /\ todo # None
      BY <1>5 DEF RouterStep, cycleVars, Check, Send, Answer, CycleInv
    <2>. QED BY <1>5, <2>1, RouterShortens, SameTodo
  <1>6. CycleStep => StepsLeft' < StepsLeft
    BY <1>1, <1>2, <1>3, <1>4, <1>5 DEF CycleStep
  <1>7. StepsLeft \in Nat /\ StepsLeft' \in Nat
    <2>1. StepsLeft \in Nat
      BY LeftIsNumber
    <2>2. ASSUME todo' = None PROVE StepsLeft' \in Nat
      BY <2>2 DEF StepsLeft
    <2>3. ASSUME todo' # None PROVE StepsLeft' \in Nat
      <3>. DEFINE a == Cardinality(todo') * MarketSteps
                  q == AskingLeft'
      <3>1. a \in Nat
        BY <2>3, NamesFinite, LengthNumbers, LessByOne DEF CycleInv
      <3>2. q \in Nat
        BY RouterAssumption DEF RouterType, AskingLeft
      <3>3. StepsLeft' = a + q + 1
        BY <2>3 DEF StepsLeft, MarketSteps
      <3>. HIDE DEF a, q
      <3>4. a + q + 1 \in Nat
        BY <3>1, <3>2
      <3>. QED BY <3>3, <3>4
    <2>. QED BY <2>1, <2>2, <2>3
  <1>8. todo # None => StepsLeft' <= StepsLeft
    <2>. SUFFICES ASSUME todo # None PROVE StepsLeft' <= StepsLeft
      OBVIOUS
    <2>1. CASE CycleStep
      <3>. DEFINE p == StepsLeft
                  q == StepsLeft'
      <3>1. p \in Nat /\ q \in Nat /\ q < p
        BY <1>6, <1>7, <2>1
      <3>. HIDE DEF p, q
      <3>2. q <= p
        BY <3>1
      <3>. QED BY <3>2 DEF p, q
    <2>2. CASE Restart
      <3>1. todo' = None
        BY <2>2 DEF Restart
      <3>2. StepsLeft' = 0
        BY <3>1 DEF StepsLeft
      <3>. QED BY <1>7, <3>2
    <2>3. CASE Guard \/ EditStep \/ DashboardStep \/ UNCHANGED vars
      <3>1. todo' = todo /\ asking' = asking
        BY <2>3 DEF Guard, EditStep, DashboardStep, vars, routerVars, cycleVars, Probe, Midnight
      <3>2. AskingLeft' = AskingLeft
        BY <3>1 DEF AskingLeft
      <3>3. AskingLeft' <= AskingLeft
        BY <3>2, AskingNumber
      <3>. QED BY <3>1, <3>3, SameTodo
    <2>4. ~StartCycle
      BY DEF StartCycle
    <2>. QED BY <2>1, <2>2, <2>3, <2>4 DEF Next, CycleStep
  <1>. QED BY <1>6, <1>7, <1>8

LEMMA CycleStaysBounded ==
  ASSUME ListInv, RouterType, CycleInv, RouterType', CycleInv', [Next]_vars, CycleBounded
  PROVE  CycleBounded'
  <1>. DEFINE n == MostMarkets
              most == n * MarketSteps + 1
              p == StepsLeft
              q == StepsLeft'
  <1>1. n \in Nat /\ n * MarketSteps \in Nat /\ most \in Nat
    <2>1. n \in Nat
      BY MostIsNumber
    <2>. HIDE DEF n
    <2>2. n * MarketSteps \in Nat
      BY <2>1, LengthNumbers, LessByOne
    <2>. QED BY <2>1, <2>2
  <1>2. p \in Nat /\ q \in Nat /\ p <= most
    BY LeftIsNumber, CycleShortens DEF CycleBounded
  <1>3. q <= most
    <2>1. CASE todo # None
      <3>1. q <= p
        BY <2>1, CycleShortens
      <3>. HIDE DEF most, p, q
      <3>. QED BY <1>1, <1>2, <3>1
    <2>2. CASE StartCycle
      <3>. DEFINE k == Cardinality(todo')
      <3>1. todo' \in SUBSET Names /\ k <= n /\ todo = None /\ UNCHANGED asking
        BY <2>2, StartTodo DEF StartCycle, routerVars
      <3>2. k \in Nat /\ k <= n
        BY <3>1, NamesFinite
      <3>3. k * MarketSteps \in Nat /\ k * MarketSteps <= n * MarketSteps
        <4>. HIDE DEF n, k
        <4>. QED BY <1>1, <3>2, LengthNumbers, LessByOne
      <3>4. asking'.step = "idle"
        BY <3>1 DEF CycleInv
      <3>5. AskingLeft' = 0
        BY <3>4 DEF AskingLeft
      <3>6. q = k * MarketSteps + 0 + 1
        BY <3>1, <3>5, ListsAssumption DEF StepsLeft, MarketSteps
      <3>. DEFINE a == k * MarketSteps
                  b == n * MarketSteps
      <3>7. a \in Nat /\ b \in Nat /\ a <= b /\ q = a + 0 + 1 /\ most = b + 1
        BY <1>1, <3>3, <3>6
      <3>. HIDE DEF a, b, q, most
      <3>. QED BY <3>7
    <2>3. CASE todo = None /\ ~StartCycle
      <3>1. todo' = None
        BY <2>3, ListsAssumption
        DEF Next, EndCycle, Judge, Guard, Restart, EditStep, RouterStep, DashboardStep, LookAt,
            Candidate, vars, cycleVars
      <3>2. q = 0
        BY <3>1 DEF StepsLeft
      <3>. HIDE DEF most, q
      <3>. QED BY <1>1, <3>2
    <2>. QED BY <2>1, <2>2, <2>3
  <1>. QED BY <1>3, LengthNumbers DEF CycleBounded, MarketSteps

LEMMA CycleKeeps ==
  ListInv /\ RouterType /\ BudgetInv /\ CycleInv /\ CycleBounded /\ LoneInv /\ [Next]_vars
    => (ListInv /\ RouterType /\ BudgetInv /\ CycleInv /\ CycleBounded /\ LoneInv)'
  BY ListsStep, RouterKeeps, CycleInvKeeps, CycleStaysBounded

LEMMA CycleInvariant ==
  Spec => [](ListInv /\ RouterType /\ BudgetInv /\ CycleInv /\ CycleBounded /\ LoneInv)
  <1>1. Init => ListInv /\ RouterType /\ BudgetInv /\ CycleInv /\ CycleBounded /\ LoneInv
    BY ListsStart, RouterStart, CycleStart
  <1>. QED BY <1>1, CycleKeeps, PTL DEF Spec

\* No cycle is longer than the settings make it: the markets of the dashboard, one for each
\* position and what the scan may add, with three steps for each provider at each of them, however
\* the lists are edited and the answers fail meanwhile.
THEOREM CycleLength == Spec => []CycleBounded
  BY CycleInvariant, PTL

\* And nothing ever makes a running cycle longer, while each step of its thread makes it shorter.
THEOREM CycleGoesOn == Spec => CycleAdvances
  <1>1. /\ (ListInv /\ RouterType /\ CycleInv) /\ (RouterType /\ CycleInv)' /\ [Next]_vars
        => [ /\ todo # None => StepsLeft' <= StepsLeft
             /\ CycleStep => StepsLeft' < StepsLeft ]_vars
    BY CycleShortens
  <1>. QED BY <1>1, CycleInvariant, PTL DEF Spec, CycleAdvances

\* It never waits for a step that no thread will take.
THEOREM CycleNotStuck == Spec => []CycleHasStep
  <1>1. RouterType /\ CycleInv => CycleHasStep
    BY DEF RouterType, RouterSteps, CycleInv, CycleHasStep
  <1>. QED BY <1>1, CycleInvariant, PTL
===============================================================================
