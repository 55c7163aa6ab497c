----------------------------- MODULE CoinAccount -----------------------------
(***************************************************************************)
(* What the live broker promises about the coins of one market, without    *)
(* orders, calls or crashes: the exchange buys and sells for the bot, the  *)
(* administration follows with a delay, and of the coins on the account    *)
(* only those that the bot bought and did not sell yet are ever sold.      *)
(***************************************************************************)
EXTENDS Naturals

CONSTANTS
    MinAmount,    \* below this the rest of a position is dust
    MaxCoins      \* bound: coins that are bought in total

VARIABLES
    bought, sold,               \* filled on the exchange, in total
    boughtBooked, soldBooked,   \* the part of it that is booked
    dust,                       \* written off, still on the exchange
    pos                         \* amount of the position

vars == <<bought, sold, boughtBooked, soldBooked, dust, pos>>

Init ==
    /\ bought = 0 /\ sold = 0 /\ boughtBooked = 0 /\ soldBooked = 0
    /\ dust = 0 /\ pos = 0

\* The exchange fills a part of an entry.
FillBuy ==
    /\ bought' \in (bought + 1) .. MaxCoins
    /\ UNCHANGED <<sold, boughtBooked, soldBooked, dust, pos>>

\* The exchange fills a part of an exit or a stop, never beyond the booked position.
FillSell ==
    /\ sold' \in (sold + 1) .. (soldBooked + pos)
    /\ UNCHANGED <<bought, boughtBooked, soldBooked, dust, pos>>

\* Filled coins of an entry are booked.
BookBuy ==
    /\ boughtBooked' \in (boughtBooked + 1) .. bought
    /\ pos' = pos + (boughtBooked' - boughtBooked)
    /\ UNCHANGED <<bought, sold, soldBooked, dust>>

\* Sold coins are booked, all of them against the position.
BookSell ==
    /\ soldBooked' \in (soldBooked + 1) .. sold
    /\ pos' = pos - (soldBooked' - soldBooked)
    /\ UNCHANGED <<bought, sold, boughtBooked, dust>>

\* All that was sold is booked and the rest, below the minimum, is dust: it goes in
\* the same step, and only if nothing of it can have been sold.
BookSellAndDust ==
    LET rest == pos - (sold - soldBooked) IN
    /\ 0 < rest /\ rest < MinAmount
    /\ soldBooked' = sold
    /\ dust' = dust + rest
    /\ pos' = 0
    /\ UNCHANGED <<bought, sold, boughtBooked>>

Next == FillBuy \/ FillSell \/ BookBuy \/ BookSell \/ BookSellAndDust

Spec == Init /\ [][Next]_vars

-------------------------------------------------------------------------------
TypeOK ==
    /\ bought \in Nat /\ sold \in Nat /\ boughtBooked \in Nat /\ soldBooked \in Nat
    /\ dust \in Nat /\ pos \in Nat

\* No fill is booked twice and none gets lost: what was bought and booked is sold
\* and booked, written off or still in the position (_book_entry, _book_exit).
Conservation ==
    pos + dust + soldBooked = boughtBooked

\* The user's coins are never sold: what was sold on the exchange had been bought
\* there by the bot, and the dust is still there (header of live.py).
OnlyOwnCoinsSold ==
    sold + dust <= bought

\* The inductive invariant: what the exchange sold and nobody booked yet still
\* fits in the position.
Inv ==
    /\ TypeOK
    /\ Conservation
    /\ boughtBooked <= bought
    /\ soldBooked <= sold
    /\ sold <= soldBooked + pos
===============================================================================
