-------------------------- MODULE LiveMarketAccount --------------------------
(***************************************************************************)
(* LiveMarket implements CoinAccount: the totals of the account are sums   *)
(* over the orders of the market.                                          *)
(***************************************************************************)
EXTENDS LiveMarket, Functions

\* What each order of these purposes has of it; the other orders have nothing.
FilledBy(purposes) ==
    [o \in Oid |-> IF order[o].purpose \in purposes THEN xfilled[o] ELSE 0]
BookedBy(purposes) ==
    [o \in Oid |-> IF order[o].purpose \in purposes THEN order[o].booked ELSE 0]

Filled(purposes) == SumFunction(FilledBy(purposes))
Booked(purposes) == SumFunction(BookedBy(purposes))

Buying  == {"entry"}
Selling == {"exit", "stop"}

\* What the open exits and stops can still sell on top of what they sold already
ToSellBy ==
    [o \in Oid |-> IF order[o].purpose \in Selling /\ Active(o)
                   THEN order[o].amount - xfilled[o] ELSE 0]
StillToSell == SumFunction(ToSellBy)

\* The sell trades are the booked sales and the dust.
Account == INSTANCE CoinAccount WITH
    MaxCoins <- MaxOrders * EntryAmount,
    bought <- Filled(Buying), sold <- Filled(Selling),
    boughtBooked <- Booked(Buying), soldBooked <- Booked(Selling),
    dust <- trades.sell - Booked(Selling),
    pos <- pos

\* Every step of the broker, the exchange and the crashes is a step of the account
\* or changes nothing there: fills are booked once, sales only ever come out of
\* the position, and nothing is written off that could still be sold.
ImplementsAccount == Account!Spec

\* Even if everything that is open or on its way is filled completely, the bot has
\* sold no more than it bought: the coins of the user are never reserved or sold.
CommittedSalesCovered ==
    Filled(Selling) + StillToSell <= Filled(Buying)
===============================================================================
