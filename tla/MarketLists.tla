------------------------------ MODULE MarketLists -----------------------------
(***************************************************************************)
(* The trading markets and the watchlist (lists.py).  The dashboard edits  *)
(* them from several threads; an edit is four transactions: two reads and, *)
(* when it is not refused, two writes.                                     *)
(***************************************************************************)
EXTENDS Integers, FiniteSets

CONSTANTS
    Names,              \* markets in the notation modify accepts
    Configured,         \* the two lists of the configuration
    Blocklist,
    Cap,                \* MAX_MARKETS, MAX_WATCHLIST
    Editors,            \* threads of the web server
    None

ListNames == {"markets", "watchlist"}
Lists     == [ListNames -> SUBSET Names]

\* An edit under way: what it read, then what it is going to write.
Edit == [step : {"decide", "storeMarkets", "storeWatchlist"}, list : ListNames, market : Names,
         action : {"add", "remove"}, lists : Lists]

ASSUME ListsAssumption ==
    /\ IsFiniteSet(Names)
    /\ Configured \in Lists /\ Blocklist \subseteq Names
    /\ Configured["markets"] \cap Configured["watchlist"] = {}
    /\ Cap \in [ListNames -> Nat \ {0}]
    /\ Configured["markets"] # {}
    /\ \A l \in ListNames : Cardinality(Configured[l]) <= Cap[l]
    /\ None \notin Names /\ \A S \in SUBSET Names : S # None
    /\ \A d \in Edit : d # None

VARIABLES
    stored,             \* override_markets and override_watchlist, None: no row
    edits,              \* per thread the edit under way
    overlapped,         \* history: two edits ran at once, or one was cut off
    last                \* history: the last edit that was not refused

listVars == <<stored, edits, overlapped, last>>

\* get_lists
Current(l) == IF stored[l] = None THEN Configured[l] ELSE stored[l]

ListsInit ==
    /\ stored = [l \in ListNames |-> None]
    /\ edits = [e \in Editors |-> None]
    /\ overlapped = FALSE /\ last = None

RefusedLate(list, market, action, lists) ==          \* mutant: one market too many, or too few
    \/ action = "remove" /\ market \notin lists[list]
    \/ action = "add" /\ (market \in lists[list] \/ Cardinality(lists[list]) > Cap[list])

Refused(list, market, action, lists) ==
    \/ /\ action = "remove"
       /\ \/ market \notin lists[list]
          \/ list = "markets" /\ Cardinality(lists[list]) <= 1
    \/ /\ action = "add"
       /\ \/ market \in lists[list] \/ market \in lists["markets"]
          \/ Cardinality(lists[list]) >= Cap[list]

EditedCopied(list, market, action, lists) ==         \* mutant: added to one, kept in the other
    IF action = "remove" THEN [lists EXCEPT ![list] = @ \ {market}]
    ELSE [lists EXCEPT ![list] = @ \cup {market}]

\* Adding a market takes it out of the other list.
Edited(list, market, action, lists) ==
    IF action = "remove" THEN [lists EXCEPT ![list] = @ \ {market}]
    ELSE [l \in ListNames |-> IF l = list THEN lists[l] \cup {market} ELSE lists[l] \ {market}]

-------------------------------------------------------------------------------
(* modify *)

\* The checks without the database, and the first read.
Post(e) ==
    /\ edits[e] = None
    /\ \E list \in ListNames, market \in Names, action \in {"add", "remove"} :
          /\ ~(action = "add" /\ market \in Blocklist)
          /\ edits' = [edits EXCEPT ![e] =
                [step |-> "decide", list |-> list, market |-> market, action |-> action,
                 lists |-> [l \in ListNames |-> IF l = "markets" THEN Current(l) ELSE {}]]]
    /\ overlapped' = (overlapped \/ \E f \in Editors : edits[f] # None)
    /\ UNCHANGED <<stored, last>>

\* The second read, and the answer.
Decide(e) ==
    /\ edits[e] # None /\ edits[e].step = "decide"
    /\ LET d     == edits[e]
           lists == [d.lists EXCEPT !["watchlist"] = Current("watchlist")]
           after == [d EXCEPT !.step = "storeMarkets",
                              !.lists = Edited(d.list, d.market, d.action, lists)]
       IN  edits' = [edits EXCEPT ![e] =
              IF Refused(d.list, d.market, d.action, lists) THEN None ELSE after]
    /\ UNCHANGED <<stored, overlapped, last>>

StoreMarkets(e) ==
    /\ edits[e] # None /\ edits[e].step = "storeMarkets"
    /\ stored' = [stored EXCEPT !["markets"] = edits[e].lists["markets"]]
    /\ edits' = [edits EXCEPT ![e].step = "storeWatchlist"]
    /\ UNCHANGED <<overlapped, last>>

StoreWatchlist(e) ==
    /\ edits[e] # None /\ edits[e].step = "storeWatchlist"
    /\ stored' = [stored EXCEPT !["watchlist"] = edits[e].lists["watchlist"]]
    /\ last' = [list |-> edits[e].list, market |-> edits[e].market, action |-> edits[e].action]
    /\ edits' = [edits EXCEPT ![e] = None]
    /\ UNCHANGED overlapped

\* A restart keeps the rows and cuts off the edits.
ListsRestart ==
    /\ edits' = [e \in Editors |-> None]
    /\ overlapped' = (overlapped \/ \E e \in Editors : edits[e] # None)
    /\ UNCHANGED <<stored, last>>

-------------------------------------------------------------------------------
(* Properties *)

\* However the edits of several browsers and a restart mix, there is a market to trade in and no
\* list is longer than its cap: each write is a whole list that one reading allowed.
ListsWithinCaps ==
    /\ Current("markets") # {}
    /\ \A l \in ListNames : Cardinality(Current(l)) <= Cap[l]

\* As long as no edit ran into another or was cut off, no market is in both lists and the last
\* edit is in place.  With an overlap neither holds: each edit writes back what it read.
LoneEditsAreExact ==
    ~overlapped /\ (\A e \in Editors : edits[e] = None) =>
        /\ Current("markets") \cap Current("watchlist") = {}
        /\ last # None => (last.market \in Current(last.list)) = (last.action = "add")
===============================================================================
