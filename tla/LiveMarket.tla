------------------------------ MODULE LiveMarket ------------------------------
(***************************************************************************)
(* The order path of one market of the live broker (live.py) against an    *)
(* exchange that answers late, partially or not at all.                    *)
(*                                                                         *)
(* Every public method of LiveBroker runs inside the lock of its market    *)
(* (MARKET_LOCKS), so at most one of them is active; what it interleaves   *)
(* with is the exchange (requests that land late, fills, a stop that       *)
(* fires), the clock (the age of an order) and a crash of the process.     *)
(* One action is one call to the exchange together with the commit of its  *)
(* answer, or one commit to the database: a crash can fall between any     *)
(* two of them and leaves the database and the exchange as they are.       *)
(*                                                                         *)
(* Amounts are small natural numbers of the base coin, an order id is its  *)
(* row number in the outbox.  The account also holds coins of the user     *)
(* himself, so the exchange never refuses a sale for lack of balance.      *)
(***************************************************************************)
EXTENDS Naturals, FiniteSets

CONSTANTS
    EntryAmount,   \* base amount of an entry order
    MinAmount,     \* market minimum: a smaller amount cannot be ordered (dust)
    MaxOrders,     \* bound: rows the outbox can hold
    MaxFaults,     \* bound: failed calls, lost requests and adverse answers
    MaxCrashes     \* bound: crashes of the process in mid-operation

ASSUME AmountAssumption == EntryAmount \in Nat /\ MinAmount \in Nat \ {0}
ASSUME BoundAssumption  == MaxOrders \in Nat /\ MaxFaults \in Nat /\ MaxCrashes \in Nat

VARIABLES
    order,      \* database: the outbox, OrderRow per order id
    pos,        \* database: amount of the PositionRow, 0 when there is no row
    link,       \* database: stop_order_cid of the PositionRow, NoOrder when empty
    trades,     \* database: total amounts of the buy and sell TradeRows
    xstate,     \* exchange: what became of the order
    xfilled,    \* exchange: amount of the order that was filled
    age,        \* clock: 0 young, 1 past entry_timeout_s, 2 past ghost_age_s
    ctl,        \* process: the operation that holds the market lock
    faults,     \* number of faults so far
    crashes     \* number of crashes so far

db       == <<order, pos, link, trades>>
exchange == <<xstate, xfilled>>
rows     == <<order, age>>
env      == <<age, crashes>>
vars     == <<order, pos, link, trades, xstate, xfilled, age, ctl, faults, crashes>>

Oid     == 1..MaxOrders
NoOrder == 0

Purposes == {"entry", "exit", "stop"}
Statuses == {"pending", "unknown", "open", "final", "rejected"}
FINAL_STATUSES == {"final", "rejected"}

NoRow == [purpose |-> "none", status |-> "none", amount |-> 0, filled |-> 0, booked |-> 0]
Row   == [purpose : Purposes \cup {"none"}, status : Statuses \cup {"none"},
          amount : Nat, filled : Nat, booked : Nat]

Ops    == {"none", "buy", "sell", "protect", "reconcile"}
Phases == {"body", "settle", "sweep"}
Labels == {"idle", "settle", "finish", "finish_missing", "finish_cancel", "finish_poll",
           "finish_book", "retire", "retire_state", "retire_missing", "retire_poll",
           "retire_book", "retire_unlink", "place", "place_link", "place_unlink",
           "send", "answer", "lookup", "buy_check", "buy_poll", "buy_cancel",
           "buy_poll_canceled", "buy_book", "sell_price", "sell_poll", "sell_book",
           "sell_finally", "protect_state", "protect_missing", "protect_book",
           "protect_unlink", "protect_stop", "sweep", "sweep_get", "sweep_missing",
           "sweep_book"}

Idle == [op |-> "none", phase |-> "body", pc |-> "idle", cur |-> NoOrder, todo |-> {}]

-------------------------------------------------------------------------------
(* What the database says *)

Rows == {o \in Oid : order[o].purpose # "none"}

Unfinished(o) == order[o].status \notin FINAL_STATUSES \/ order[o].filled > order[o].booked

\* _unsettled: entries and exits that are not final or not fully booked
Unsettled == {o \in Rows : order[o].purpose \in {"entry", "exit"} /\ Unfinished(o)}

\* the question that is asked again before anything is sent
AlwaysSettled == TRUE                                \* mutant
AllSettled == Unsettled = {}

\* the stops _sweep_orphan_stops goes after
OrphanStops == {o \in Rows : order[o].purpose = "stop" /\ Unfinished(o) /\ o # link}

HasPosition == pos > 0
HasRoom     == \E o \in Oid : o \notin Rows
NextOid     == CHOOSE o \in Oid : o \notin Rows     \* a fresh clientOrderId
First(S)    == CHOOSE o \in S : TRUE                 \* the queries have no ORDER BY

-------------------------------------------------------------------------------
(* What the exchange answers *)

\* get_order finds an order, a finished one too; otherwise error 240.  Of a finished order only
\* a cancel gets 240, as at the fake exchange of the tests.
Known(o)  == xstate[o] \in {"open", "done"}
Active(o) == xstate[o] \in {"inflight", "open"}    \* it can still be filled

\* Nothing is decided on the row but what the answer says; a smaller fill than
\* the one already seen is ignored.
UpdatedUnmapped(o) ==                                \* mutant
    [order[o] EXCEPT !.status = xstate[o], !.filled = xfilled[o]]
UpdatedAsFull(o) ==                                  \* mutant
    [order[o] EXCEPT !.status = IF xstate[o] = "open" THEN "open" ELSE "final",
                     !.filled = IF xstate[o] = "open" THEN xfilled[o] ELSE order[o].amount]
Updated(o) ==
    [order[o] EXCEPT !.status = IF xstate[o] = "open" THEN "open" ELSE "final",
                     !.filled = IF xfilled[o] >= @ THEN xfilled[o] ELSE @]

\* The age of an order is kept until the exchange has reported it final: the
\* exchange knows it then, and only the age of a missing order is looked at.
Record(o, row) ==
    /\ order' = [order EXCEPT ![o] = row]
    /\ age' = [age EXCEPT ![o] = IF row.status = "final" THEN 0 ELSE @]

UpdateOrder(o)  == Record(o, Updated(o))
Mark(o, status) == Record(o, [order[o] EXCEPT !.status = status])

Fault   == faults < MaxFaults /\ faults' = faults + 1
NoFault == UNCHANGED faults

-------------------------------------------------------------------------------
(* Control: where the operation goes next *)

At(l)         == ctl.pc = l
Goto(l)       == ctl' = [ctl EXCEPT !.pc = l]
GotoFor(l, o) == ctl' = [ctl EXCEPT !.pc = l, !.cur = o]
End           == ctl' = Idle

\* _settle as the first thing an operation does
BeginSettle(op) ==
    ctl' = [op |-> op, phase |-> "settle", pc |-> "settle", cur |-> NoOrder, todo |-> Unsettled]

\* _protect after its _settle: nothing left to guard, a stop to look at, or none
ProtectBody ==
    IF ~HasPosition THEN End
    ELSE ctl' = [Idle EXCEPT !.op = "protect", !.cur = link,
                             !.pc = IF link # NoOrder THEN "protect_state" ELSE "protect_stop"]

\* OrderStateUnknownError: only _protect catches it, and only around _settle.
RaiseUnknown == IF ctl.op = "protect" /\ ctl.phase = "settle" THEN ProtectBody ELSE End

\* Any other exception reaches the caller of the operation.
RaiseOther == End

\* _place_stop_safe is the last thing an operation does, except inside _settle.
EndPlace  == IF ctl.phase = "settle" THEN Goto("settle") ELSE End
EndRetire == Goto(IF ctl.phase = "settle" THEN "place" ELSE "sell_price")

-------------------------------------------------------------------------------
(* Database steps that several operations share *)

\* _new_order: the row is in the outbox before anything is sent.  Beyond the
\* bound of the outbox the commit fails.
NewOrder(purpose, amount) ==
    order' = [order EXCEPT ![NextOid] = [purpose |-> purpose, status |-> "pending",
                                         amount |-> amount, filled |-> 0, booked |-> 0]]

BookedRow(o) == [order EXCEPT ![o].booked = order[o].filled]
Unbooked(o)  == order[o].filled - order[o].booked

\* _book_entry: the unbooked fills open the position or add to it.
BookEntry(o) ==
    /\ order' = BookedRow(o)
    /\ pos' = pos + Unbooked(o)
    /\ trades' = [trades EXCEPT !.buy = @ + Unbooked(o)]
    /\ UNCHANGED link

\* What an order leaves of the position goes too when it is dust, but only if
\* the order is final: a stop that still runs can sell the rest itself.
GoneWhileOpen(o, rest) == rest < MinAmount           \* mutant
Gone(o, rest) == rest = 0 \/ (order[o].status \in FINAL_STATUSES /\ rest < MinAmount)

\* _book_exit
BookExit(o) ==
    LET sold == IF Unbooked(o) <= pos THEN Unbooked(o) ELSE pos
        rest == pos - sold
        gone == Gone(o, rest)
    IN  /\ order' = BookedRow(o)
        /\ IF Unbooked(o) = 0 \/ pos = 0
           THEN UNCHANGED <<pos, link, trades>>
           ELSE /\ pos' = IF gone THEN 0 ELSE rest
                /\ link' = IF gone THEN NoOrder ELSE link
                /\ trades' = [trades EXCEPT !.sell = @ + (IF gone THEN pos ELSE sold)]

\* _write_off_if_dust
IsDust == HasPosition /\ link = NoOrder /\ pos < MinAmount
WriteOffDust ==
    /\ pos' = 0
    /\ trades' = [trades EXCEPT !.sell = @ + pos]
    /\ UNCHANGED <<order, link>>

ClearLink(o) ==
    /\ link' = IF link = o THEN NoOrder ELSE link
    /\ UNCHANGED <<order, pos, trades>>

-------------------------------------------------------------------------------
Init ==
    /\ order = [o \in Oid |-> NoRow]
    /\ pos = 0 /\ link = NoOrder
    /\ trades = [buy |-> 0, sell |-> 0]
    /\ xstate = [o \in Oid |-> "none"]
    /\ xfilled = [o \in Oid |-> 0]
    /\ age = [o \in Oid |-> 0]
    /\ ctl = Idle
    /\ faults = 0 /\ crashes = 0

\* What a crash of the older code left behind, which linked a stop after sending
\* it: a position and a stop that does not hang on to it.
FilledEntry(amount) == [purpose |-> "entry", status |-> "final",
                        amount |-> amount, filled |-> amount, booked |-> amount]

LegacyInit ==
    /\ order = [o \in Oid |->
          CASE o = 1 -> FilledEntry(EntryAmount)
            [] o = 2 -> [NoRow EXCEPT !.purpose = "stop", !.status = "pending",
                                      !.amount = EntryAmount]
            [] OTHER -> NoRow]
    /\ pos = EntryAmount /\ link = NoOrder
    /\ trades = [buy |-> EntryAmount, sell |-> 0]
    /\ xstate = [o \in Oid |-> CASE o = 1 -> "done" [] o = 2 -> "open" [] OTHER -> "none"]
    /\ xfilled = [o \in Oid |-> IF o = 1 THEN EntryAmount ELSE 0]
    /\ age = [o \in Oid |-> 0]
    /\ ctl = Idle
    /\ faults = 0 /\ crashes = MaxCrashes

-------------------------------------------------------------------------------
(* The exchange, the clock and the machine *)

\* A request that was sent arrives; nothing arrives after the ghost age.
Land(o) ==
    /\ xstate[o] = "inflight" /\ age[o] < 2
    /\ xstate' = [xstate EXCEPT ![o] = "open"]
    /\ UNCHANGED <<db, xfilled, age, ctl, faults, crashes>>

\* A request that was sent is lost.
Lose(o) ==
    /\ xstate[o] = "inflight" /\ Fault
    /\ xstate' = [xstate EXCEPT ![o] = "none"]
    /\ UNCHANGED <<db, xfilled, age, ctl, crashes>>

\* An open order is filled further, and is done when it is full.
Fill(o, k) ==
    /\ xstate[o] = "open" /\ xfilled[o] + k <= order[o].amount
    /\ xfilled' = [xfilled EXCEPT ![o] = @ + k]
    /\ xstate' = [xstate EXCEPT ![o] = IF xfilled[o] + k = order[o].amount THEN "done" ELSE @]
    /\ UNCHANGED <<db, age, ctl, faults, crashes>>

\* The exchange ends an order that is not full: postOnly refused, slippage
\* protection, expiry, or the user cancels it in his own app.
Close(o) ==
    /\ xstate[o] = "open"
    /\ xstate' = [xstate EXCEPT ![o] = "done"]
    /\ UNCHANGED <<db, xfilled, age, ctl, faults, crashes>>

\* Time passes as far as the code looks at it: the ghost age of an order that may
\* be missing (a refused stop is, if a crash left it linked), the entry timeout of
\* an open entry.  A request that is about to be sent or on its way is so for less
\* than the ghost age.
Tick(o) ==
    /\ \/ /\ order[o].status \in {"pending", "unknown"} \/ (order[o].status = "rejected" /\ link = o)
          /\ age[o] < 2
          /\ age[o] = 1 => /\ xstate[o] # "inflight"
                           /\ ~(ctl.cur = o /\ ctl.pc \in {"place_link", "send"})
       \/ order[o].status = "open" /\ order[o].purpose = "entry" /\ age[o] = 0
    /\ age' = [age EXCEPT ![o] = @ + 1]
    /\ UNCHANGED <<db, exchange, ctl, faults, crashes>>

\* The process dies in the middle of an operation and starts again.
Crash ==
    /\ ~At("idle") /\ crashes < MaxCrashes
    /\ crashes' = crashes + 1
    /\ End
    /\ UNCHANGED <<db, exchange, age, faults>>

-------------------------------------------------------------------------------
(* Calls to the exchange that several operations share *)

\* _poll: ask until the order is final or the time is up.
Poll(l, Final, TimeUp, Error) ==
    /\ At(l)
    /\ \/ /\ xstate[ctl.cur] = "done"
          /\ UpdateOrder(ctl.cur) /\ Final /\ NoFault
       \/ /\ xstate[ctl.cur] = "open"
          /\ UpdateOrder(ctl.cur) /\ (TimeUp \/ UNCHANGED ctl) /\ NoFault
       \/ Fault /\ Error /\ UNCHANGED rows
    /\ UNCHANGED <<pos, link, trades, exchange, crashes>>

\* mutant of Query: the age of a missing order is not looked at
QueryAgeless(l, Found, Missing, Error) ==
    /\ At(l)
    /\ \/ Known(ctl.cur) /\ UpdateOrder(ctl.cur) /\ Found /\ NoFault
       \/ ~Known(ctl.cur) /\ Missing /\ UNCHANGED rows /\ NoFault
       \/ Fault /\ Error /\ UNCHANGED rows
    /\ UNCHANGED <<pos, link, trades, exchange, crashes>>

\* A get_order of which the caller needs the answer: found, error 240 (worth
\* confirming once the order is past the ghost age), or another failure.
Query(l, Found, Missing, Error) ==
    /\ At(l)
    /\ \/ Known(ctl.cur) /\ UpdateOrder(ctl.cur) /\ Found /\ NoFault
       \/ ~Known(ctl.cur) /\ age[ctl.cur] = 2 /\ Missing /\ UNCHANGED rows /\ NoFault
       \/ ~Known(ctl.cur) /\ age[ctl.cur] < 2 /\ Error /\ UNCHANGED rows /\ NoFault
       \/ Fault /\ Error /\ UNCHANGED rows
    /\ UNCHANGED <<pos, link, trades, exchange, crashes>>

\* _confirm_missing, after its age check: again error 240 and not among the
\* open orders.
ConfirmMissing(l, Missing, Otherwise) ==
    /\ At(l)
    /\ \/ /\ ~Known(ctl.cur)
          /\ Mark(ctl.cur, "rejected")
          /\ Missing /\ NoFault
       \/ Known(ctl.cur) /\ Otherwise /\ UNCHANGED rows /\ NoFault
       \/ Fault /\ Otherwise /\ UNCHANGED rows
    /\ UNCHANGED <<pos, link, trades, exchange, crashes>>

\* cancel_order with every failure caught: the caller asks for the state next.
Canceled(o) == [xstate EXCEPT ![o] = IF @ = "open" THEN "done" ELSE @]

CancelOrder(o) ==
    /\ \/ xstate' = Canceled(o) /\ NoFault
       \/ Fault /\ UNCHANGED xstate
    /\ UNCHANGED <<db, xfilled, env>>

\* _submit: the order is sent ...
Send ==
    /\ At("send")
    /\ xstate' = [xstate EXCEPT ![ctl.cur] = "inflight"]
    /\ Goto("answer")
    /\ UNCHANGED <<db, xfilled, env, faults>>

\* ... and the caller goes on with the answer,
Accepted ==
    LET final == xstate[ctl.cur] = "done"
    IN  CASE order[ctl.cur].purpose = "entry" -> Goto(IF final THEN "buy_book" ELSE "buy_poll")
          [] order[ctl.cur].purpose = "exit"  -> Goto(IF final THEN "sell_book" ELSE "sell_poll")
          [] order[ctl.cur].purpose = "stop"  -> EndPlace

\* with OrderRejectedError,
Refused ==
    CASE order[ctl.cur].purpose = "entry" -> RaiseOther
      [] order[ctl.cur].purpose = "exit"  -> Goto("sell_finally")
      [] order[ctl.cur].purpose = "stop"  -> Goto("place_unlink")

\* or with OrderStateUnknownError.
Unanswered ==
    CASE order[ctl.cur].purpose = "entry" -> RaiseUnknown
      [] order[ctl.cur].purpose = "exit"  -> Goto("sell_finally")
      [] order[ctl.cur].purpose = "stop"  -> EndPlace

\* The answer arrives, or a definitive refusal, or a failure that proves nothing.
Answer ==
    /\ At("answer")
    /\ \/ /\ Known(ctl.cur)
          /\ UpdateOrder(ctl.cur) /\ Accepted
          /\ NoFault /\ UNCHANGED xstate
       \/ /\ xstate[ctl.cur] = "inflight" /\ Fault
          /\ xstate' = [xstate EXCEPT ![ctl.cur] = "none"]
          /\ Mark(ctl.cur, "rejected")
          /\ Refused
       \/ /\ IF xstate[ctl.cur] = "none" THEN NoFault ELSE Fault
          /\ Goto("lookup")
          /\ UNCHANGED <<rows, xstate>>
    /\ UNCHANGED <<pos, link, trades, xfilled, crashes>>

\* _lookup_after_error
Lookup ==
    /\ At("lookup")
    /\ \/ /\ Known(ctl.cur)
          /\ UpdateOrder(ctl.cur) /\ Accepted /\ NoFault
       \/ /\ IF Known(ctl.cur) THEN Fault ELSE NoFault
          /\ Mark(ctl.cur, "unknown")
          /\ Unanswered
    /\ UNCHANGED <<pos, link, trades, exchange, crashes>>

-------------------------------------------------------------------------------
(* _settle and _finish_order *)

SettleNext ==
    /\ At("settle")
    /\ \/ /\ ctl.todo # {}
          /\ ctl' = [ctl EXCEPT !.pc = "finish", !.cur = First(ctl.todo),
                                !.todo = @ \ {First(@)}]
       \/ ctl.todo = {} /\ ~AllSettled /\ RaiseUnknown
       \/ /\ ctl.todo = {} /\ AllSettled
          /\ \/ ctl.op = "buy" /\ ctl' = [ctl EXCEPT !.phase = "body", !.pc = "buy_check"]
             \/ ctl.op = "sell" /\ ~HasPosition /\ End
             \/ /\ ctl.op = "sell" /\ HasPosition
                /\ ctl' = [ctl EXCEPT !.phase = "body", !.pc = "retire"]
             \/ ctl.op = "protect" /\ ProtectBody
             \/ /\ ctl.op = "reconcile"
                /\ ctl' = [ctl EXCEPT !.phase = "sweep", !.pc = "sweep", !.todo = OrphanStops]
    /\ UNCHANGED <<db, exchange, env, faults>>

FinishGetWaits ==                                    \* mutant
    Query("finish", Goto("finish_book"), Goto("finish_missing"), Goto("settle"))
FinishGet ==
    Query("finish",
          Goto(IF /\ order[ctl.cur].purpose = "entry"
                  /\ xstate[ctl.cur] = "open"
                  /\ age[ctl.cur] >= 1
               THEN "finish_cancel" ELSE "finish_book"),
          Goto("finish_missing"),
          Goto("settle"))

FinishMissing == ConfirmMissing("finish_missing", Goto("settle"), Goto("settle"))

\* Only BitvavoApiError is caught here: a call that times out, with or without
\* effect, leaves _settle altogether.
FinishCancel ==
    /\ At("finish_cancel")
    /\ \/ CancelOrder(ctl.cur) /\ Goto("finish_poll")
       \/ /\ Fault /\ RaiseOther
          /\ xstate' \in {xstate, Canceled(ctl.cur)}
          /\ UNCHANGED <<db, xfilled, env>>

FinishPoll == Poll("finish_poll", Goto("finish_book"), Goto("finish_book"), Goto("finish_book"))

\* A late entry gets one new stop for the whole position; a late exit is booked.
FinishBook ==
    /\ At("finish_book")
    /\ IF order[ctl.cur].purpose = "entry"
       THEN BookEntry(ctl.cur) /\ Goto(IF Unbooked(ctl.cur) > 0 THEN "retire" ELSE "settle")
       ELSE BookExit(ctl.cur) /\ Goto("settle")
    /\ UNCHANGED <<exchange, env, faults>>

-------------------------------------------------------------------------------
(* _retire_stop and _place_stop *)

RetireForgotten ==                                   \* mutant
    At("retire") /\ EndRetire /\ UNCHANGED <<db, exchange, env, faults>>
RetireCancel ==
    /\ At("retire")
    /\ \/ link = NoOrder /\ EndRetire /\ UNCHANGED <<db, exchange, env, faults>>
       \/ link # NoOrder /\ CancelOrder(link) /\ GotoFor("retire_state", link)

RetireStateUnbooked ==                               \* mutant
    Query("retire_state",
          Goto(IF xstate[ctl.cur] = "done" THEN "retire_unlink" ELSE "retire_poll"),
          Goto("retire_missing"),
          RaiseUnknown)
RetireState ==
    Query("retire_state",
          Goto(IF xstate[ctl.cur] = "done" THEN "retire_book" ELSE "retire_poll"),
          Goto("retire_missing"),
          RaiseUnknown)

RetireMissing == ConfirmMissing("retire_missing", Goto("retire_unlink"), RaiseUnknown)

RetirePoll == Poll("retire_poll", Goto("retire_book"), RaiseUnknown, RaiseUnknown)

RetireBook ==
    /\ At("retire_book")
    /\ BookExit(ctl.cur) /\ Goto("retire_unlink")
    /\ UNCHANGED <<exchange, env, faults>>

RetireUnlink ==
    /\ At("retire_unlink")
    /\ ClearLink(ctl.cur) /\ EndRetire
    /\ UNCHANGED <<exchange, env, faults>>

\* No stop for a position that is gone, already linked or below the minimum, or
\* with the price at the trigger already.
PlaceStop ==
    /\ At("place")
    /\ \/ /\ ~HasPosition \/ link # NoOrder \/ pos < MinAmount \/ ~HasRoom
          /\ EndPlace /\ UNCHANGED <<db, faults>>
       \/ /\ HasPosition /\ link = NoOrder /\ pos >= MinAmount /\ HasRoom
          /\ \/ Fault /\ EndPlace /\ UNCHANGED db
             \/ /\ NewOrder("stop", pos) /\ GotoFor("place_link", NextOid)
                /\ UNCHANGED <<pos, link, trades, faults>>
    /\ UNCHANGED <<exchange, env>>

\* _link_stop, before the stop is sent
LinkStop ==
    /\ At("place_link")
    /\ link' = IF HasPosition THEN ctl.cur ELSE link
    /\ Goto("send")
    /\ UNCHANGED <<order, pos, trades, exchange, env, faults>>

PlaceUnlink ==
    /\ At("place_unlink")
    /\ ClearLink(ctl.cur) /\ EndPlace
    /\ UNCHANGED <<exchange, env, faults>>

-------------------------------------------------------------------------------
(* buy *)

Buy == At("idle") /\ BeginSettle("buy") /\ UNCHANGED <<db, exchange, env, faults>>

BuyCheck ==
    /\ At("buy_check")
    /\ \/ /\ HasPosition \/ EntryAmount < MinAmount \/ ~HasRoom
          /\ RaiseOther /\ UNCHANGED <<order, faults>>
       \/ Fault /\ RaiseOther /\ UNCHANGED order
       \/ /\ ~HasPosition /\ EntryAmount >= MinAmount /\ HasRoom
          /\ NewOrder("entry", EntryAmount) /\ GotoFor("send", NextOid)
          /\ NoFault
    /\ UNCHANGED <<pos, link, trades, exchange, env>>

BuyPoll == Poll("buy_poll", Goto("buy_book"), Goto("buy_cancel"), Goto("buy_book"))

BuyCancel == At("buy_cancel") /\ CancelOrder(ctl.cur) /\ Goto("buy_poll_canceled")

BuyPollCanceled ==
    Poll("buy_poll_canceled", Goto("buy_book"), Goto("buy_book"), Goto("buy_book"))

\* the finally of _buy
BuyBook ==
    /\ At("buy_book")
    /\ BookEntry(ctl.cur)
    /\ IF Unbooked(ctl.cur) > 0 THEN Goto("place") ELSE End
    /\ UNCHANGED <<exchange, env, faults>>

-------------------------------------------------------------------------------
(* sell *)

Sell == At("idle") /\ HasPosition /\ BeginSettle("sell") /\ UNCHANGED <<db, exchange, env, faults>>

\* The stop is gone: write off dust or put the exit in the outbox.
SellPrice ==
    /\ At("sell_price")
    /\ \/ ~HasPosition /\ End /\ UNCHANGED <<db, faults>>
       \/ HasPosition /\ Fault /\ Goto("sell_finally") /\ UNCHANGED db
       \/ IsDust /\ WriteOffDust /\ End /\ NoFault
       \/ /\ HasPosition /\ ~IsDust /\ ~HasRoom
          /\ Goto("sell_finally") /\ UNCHANGED <<db, faults>>
       \/ /\ HasPosition /\ ~IsDust /\ HasRoom
          /\ NewOrder("exit", pos) /\ GotoFor("send", NextOid)
          /\ UNCHANGED <<pos, link, trades, faults>>
    /\ UNCHANGED <<exchange, env>>

SellPoll == Poll("sell_poll", Goto("sell_book"), Goto("sell_book"), Goto("sell_finally"))

SellBook ==
    /\ At("sell_book")
    /\ BookExit(ctl.cur) /\ Goto("sell_finally")
    /\ UNCHANGED <<exchange, env, faults>>

SellFinallyAlways ==                                 \* mutant
    /\ At("sell_finally")
    /\ IF HasPosition THEN Goto("place") ELSE End
    /\ UNCHANGED <<db, exchange, env, faults>>

\* What stays open gets a stop again, but only if it is certain what was sold.
SellFinally ==
    /\ At("sell_finally")
    /\ IF HasPosition /\ AllSettled THEN Goto("place") ELSE End
    /\ UNCHANGED <<db, exchange, env, faults>>

-------------------------------------------------------------------------------
(* ensure_protection and reconcile *)

Protect ==
    At("idle") /\ HasPosition /\ BeginSettle("protect") /\ UNCHANGED <<db, exchange, env, faults>>

ProtectState ==
    Query("protect_state", Goto("protect_book"), Goto("protect_missing"), RaiseUnknown)

ProtectMissing == ConfirmMissing("protect_missing", Goto("protect_unlink"), RaiseUnknown)

ProtectBookReplaces ==                               \* mutant
    /\ At("protect_book")
    /\ BookExit(ctl.cur)
    /\ IF pos' = 0 THEN End ELSE Goto("protect_unlink")
    /\ UNCHANGED <<exchange, env, faults>>

\* A stop that is still active stays; one that ended is unlinked and replaced.
ProtectBook ==
    /\ At("protect_book")
    /\ BookExit(ctl.cur)
    /\ IF pos' = 0 \/ order[ctl.cur].status = "open" THEN End ELSE Goto("protect_unlink")
    /\ UNCHANGED <<exchange, env, faults>>

ProtectUnlinkKeeps ==                                \* mutant
    /\ At("protect_unlink")
    /\ Goto("protect_stop")
    /\ UNCHANGED <<db, exchange, env, faults>>
ProtectUnlink ==
    /\ At("protect_unlink")
    /\ ClearLink(ctl.cur) /\ Goto("protect_stop")
    /\ UNCHANGED <<exchange, env, faults>>

ProtectStop ==
    /\ At("protect_stop")
    /\ \/ ~AllSettled /\ End /\ UNCHANGED <<db, faults>>
       \/ AllSettled /\ Fault /\ RaiseOther /\ UNCHANGED db
       \/ AllSettled /\ IsDust /\ WriteOffDust /\ End /\ NoFault
       \/ AllSettled /\ ~IsDust /\ Goto("place") /\ UNCHANGED <<db, faults>>
    /\ UNCHANGED <<exchange, env>>

Reconcile ==
    /\ At("idle")
    /\ HasPosition \/ \E o \in Rows : Unfinished(o)
    /\ BeginSettle("reconcile")
    /\ UNCHANGED <<db, exchange, env, faults>>

SweepUncanceled ==                                   \* mutant
    /\ At("sweep")
    /\ \/ /\ ctl.todo # {}
          /\ ctl' = [ctl EXCEPT !.pc = "sweep_get", !.cur = First(ctl.todo),
                                !.todo = @ \ {First(@)}]
       \/ /\ ctl.todo = {}
          /\ IF HasPosition THEN BeginSettle("protect") ELSE End
    /\ UNCHANGED <<db, exchange, env, faults>>

\* _sweep_orphan_stops: cancel, ask for the state, book; then _protect.
Sweep ==
    /\ At("sweep")
    /\ \/ /\ ctl.todo # {}
          /\ CancelOrder(First(ctl.todo))
          /\ ctl' = [ctl EXCEPT !.pc = "sweep_get", !.cur = First(ctl.todo),
                                !.todo = @ \ {First(@)}]
       \/ /\ ctl.todo = {}
          /\ IF HasPosition THEN BeginSettle("protect") ELSE End
          /\ UNCHANGED <<db, exchange, env, faults>>

SweepGet ==
    Query("sweep_get",
          IF xstate[ctl.cur] = "done" THEN Goto("sweep_book") ELSE RaiseUnknown,
          Goto("sweep_missing"),
          RaiseOther)

SweepMissing == ConfirmMissing("sweep_missing", Goto("sweep"), RaiseUnknown)

SweepBook ==
    /\ At("sweep_book")
    /\ BookExit(ctl.cur) /\ Goto("sweep")
    /\ UNCHANGED <<exchange, env, faults>>

-------------------------------------------------------------------------------
Settling == SettleNext \/ FinishGet \/ FinishMissing \/ FinishCancel \/ FinishPoll \/ FinishBook

Stopping ==
    \/ RetireCancel \/ RetireState \/ RetireMissing \/ RetirePoll \/ RetireBook \/ RetireUnlink
    \/ PlaceStop \/ LinkStop \/ PlaceUnlink

Trading ==
    \/ Send \/ Answer \/ Lookup
    \/ BuyCheck \/ BuyPoll \/ BuyCancel \/ BuyPollCanceled \/ BuyBook
    \/ SellPrice \/ SellPoll \/ SellBook \/ SellFinally

Guarding ==
    \/ ProtectState \/ ProtectMissing \/ ProtectBook \/ ProtectUnlink \/ ProtectStop
    \/ Sweep \/ SweepGet \/ SweepMissing \/ SweepBook

\* the operation that runs takes its next step
Step == Settling \/ Stopping \/ Trading \/ Guarding

Environment ==
    \E o \in Oid :
        \/ Land(o) \/ Lose(o) \/ Close(o) \/ Tick(o)
        \/ \E k \in 1..order[o].amount : Fill(o, k)

Next == Buy \/ Sell \/ Protect \/ Reconcile \/ Step \/ Environment \/ Crash

Spec == Init /\ [][Next]_vars

\* The guard runs every minute and the reconciliation every hour, each in a thread
\* of its own, and an operation holds the lock for a bounded time: whenever their
\* turn keeps coming, they get it.  The exchange answers and ends market orders,
\* and the clock runs.
Fairness ==
    /\ WF_vars(Step)
    /\ SF_vars(Protect) /\ SF_vars(Reconcile)
    /\ \A o \in Oid :
        /\ WF_vars(Land(o) \/ Lose(o))
        /\ WF_vars(Tick(o))
        /\ WF_vars(order[o].purpose = "exit" /\ (Close(o) \/ \E k \in 1..EntryAmount : Fill(o, k)))

FairSpec == (Init \/ LegacyInit) /\ [][Next]_vars /\ Fairness

-------------------------------------------------------------------------------
(* Properties *)

\* Every variable has its type; the program counter is one of the labels above.
TypeOK ==
    /\ order \in [Oid -> Row]
    /\ pos \in Nat
    /\ link \in Oid \cup {NoOrder}
    /\ trades \in [buy : Nat, sell : Nat]
    /\ xstate \in [Oid -> {"none", "inflight", "open", "done"}]
    /\ xfilled \in [Oid -> Nat]
    /\ age \in [Oid -> 0..2]
    /\ ctl \in [op : Ops, phase : Phases, pc : Labels, cur : Oid \cup {NoOrder}, todo : SUBSET Oid]
    /\ faults \in Nat /\ crashes \in Nat

\* The outbox never runs ahead of the exchange: what is booked was seen, what was
\* seen was filled, and no order is filled beyond its amount, across every crash,
\* repeated booking and late answer (_update_order, _book_entry, _book_exit).
BooksFollowExchange ==
    \A o \in Oid : /\ order[o].booked <= order[o].filled
                   /\ order[o].filled <= xfilled[o]
                   /\ xfilled[o] <= order[o].amount

\* Invariant 1 of live.py: an order that the administration calls rejected does
\* not exist on the exchange and can no longer arrive there, so that no fill is
\* ever written off as an order that was never placed (_confirm_missing, _submit).
RejectedMeansAbsent ==
    \A o \in Oid : order[o].status = "rejected" => xstate[o] = "none"

\* Invariant 3 of live.py: a stop that can still sell is the linked stop of an
\* open position, whatever was lost, and therefore the only one; a crash leaves
\* no stop behind that fires for nobody (_place_stop, _retire_stop, _protect).
LiveStopIsLinked ==
    \A o \in Oid : order[o].purpose = "stop" /\ Active(o) => link = o /\ HasPosition

\* Invariant 2 of live.py, seen from the database: a market never has two entries
\* or exits whose fate is open at the same time (_settle before every order).
AtMostOneUnsettled ==
    \A o, p \in Unsettled : o = p

\* Invariant 2 of live.py, seen from the exchange: an order is sent only when no
\* other order of the market can still be filled, known to the administration or
\* not.  The one exception the code makes is the stop for the part of an entry
\* that is booked while the entry itself is still open.
SentIntoQuietMarket ==
    [][\A o, p \in Oid :
         xstate[o] = "none" /\ xstate'[o] = "inflight" /\ o # p /\ Active(p)
            => order[o].purpose = "stop" /\ order[p].purpose = "entry"]_vars

\* The coins of the user are safe: an exit or a stop that can still sell is never
\* larger than the position the administration knows, plus what it has sold
\* without being booked yet.
NeverOversized ==
    \A o \in Oid : order[o].purpose \in {"exit", "stop"} /\ Active(o)
        => order[o].amount - order[o].booked <= pos

\* Every entry or exit whose fate is open is in the end final and booked, after
\* any crash and any failed call (_settle from _protect and reconcile).
EveryOrderSettles ==
    \A o \in Oid : (o \in Unsettled) ~> (o \notin Unsettled)

\* A position that is large enough for a stop gets one that is open on the
\* exchange, or is sold, or the model has no room for another order
\* (ensure_protection).
PositionGetsStop ==
    (pos >= MinAmount) ~> \/ pos < MinAmount
                          \/ link # NoOrder /\ xstate[link] = "open"
                          \/ ~HasRoom

\* A stop that hangs on to no position, whatever left it there, is in the end
\* canceled and what it sold is booked (_sweep_orphan_stops).
OrphansAreSwept ==
    \A o \in Oid : (o \in OrphanStops) ~> (o \notin OrphanStops /\ (Active(o) => o = link))
===============================================================================
