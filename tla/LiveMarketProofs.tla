-------------------------- MODULE LiveMarketProofs --------------------------
EXTENDS LiveMarketAccount, SumTheorems, TLAPS

OnOrder == Labels \ {"idle", "settle", "retire", "place", "buy_check", "sell_price",
                     "sell_finally", "protect_stop", "sweep"}
Missings == {"finish_missing", "retire_missing", "protect_missing", "sweep_missing"}

TypeData ==
    /\ order \in [Oid -> Row]
    /\ pos \in Nat
    /\ link \in Oid \cup {NoOrder}
    /\ trades \in [buy : Nat, sell : Nat]
    /\ xstate \in [Oid -> {"none", "inflight", "open", "done"}]
    /\ xfilled \in [Oid -> Nat]
    /\ age \in [Oid -> 0..2]
    /\ faults \in Nat /\ crashes \in Nat

TypeCtl ==
    ctl \in [op : Ops, phase : Phases, pc : Labels, cur : Oid \cup {NoOrder}, todo : SUBSET Oid]

FreshInv ==
    \A o \in Oid : order[o].purpose = "none" =>
        order[o] = NoRow /\ xstate[o] = "none" /\ xfilled[o] = 0 /\ age[o] = 0

AgeInv == \A o \in Oid : xstate[o] = "inflight" => age[o] < 2

LinkInv == link # NoOrder => link \in Rows

DataInv == TypeData /\ BooksFollowExchange /\ RejectedMeansAbsent /\ FreshInv /\ AgeInv /\ LinkInv

CtlInv ==
    /\ TypeCtl
    /\ ctl.todo \subseteq Rows
    /\ ctl.pc \in OnOrder => ctl.cur \in Rows
    /\ ctl.pc \in {"place_link", "send"} =>
          order[ctl.cur].status = "pending" /\ xstate[ctl.cur] = "none" /\ age[ctl.cur] < 2
    /\ ctl.pc \in Missings => age[ctl.cur] = 2

IInv == DataInv /\ CtlInv

Sending == {"place_link", "send"}
Plain   == Labels \ (Missings \cup Sending)

-----------------------------------------------------------------------------
LEMMA FaultNat == ASSUME TypeData, Fault \/ NoFault PROVE faults' \in Nat
  BY DEF TypeData, Fault, NoFault

LEMMA DataSame ==
    ASSUME DataInv, UNCHANGED <<db, exchange, age>>, faults' \in Nat, crashes' \in Nat
    PROVE  DataInv' /\ Rows' = Rows
<1> USE DEF DataInv, db, exchange
<1>1. TypeData'            BY DEF TypeData
<1>2. BooksFollowExchange' BY DEF BooksFollowExchange
<1>3. RejectedMeansAbsent' BY DEF RejectedMeansAbsent
<1>4. FreshInv'            BY DEF FreshInv
<1>5. AgeInv'              BY DEF AgeInv
<1>6. Rows' = Rows         BY DEF Rows
<1>7. LinkInv'             BY <1>6 DEF LinkInv
<1> QED BY <1>1, <1>2, <1>3, <1>4, <1>5, <1>6, <1>7

\* A control step to a label that needs no more than an order to work on.
LEMMA GotoInv ==
    ASSUME CtlInv, Rows \subseteq Rows', NEW l \in Plain, Goto(l),
           l \in OnOrder => ctl.cur \in Rows
    PROVE  CtlInv'
  BY DEF CtlInv, TypeCtl, Goto, Plain, Missings, Sending, Labels

LEMMA StayInv ==
    ASSUME CtlInv, Rows \subseteq Rows', ctl.pc \in Plain, UNCHANGED ctl
    PROVE  CtlInv'
  BY DEF CtlInv, TypeCtl, Plain, Missings, Sending

LEMMA EndInv == ASSUME End PROVE CtlInv'
  BY DEF CtlInv, TypeCtl, End, Idle, Ops, Phases, Labels, OnOrder, Missings, NoOrder

LEMMA ProtectBodyInv ==
    ASSUME DataInv, Rows \subseteq Rows', ProtectBody PROVE CtlInv'
<1>1. CASE ~HasPosition
    BY <1>1, EndInv DEF ProtectBody
<1>2. CASE HasPosition
  <2>1. link \in Oid \cup {NoOrder}
    BY DEF DataInv, TypeData
  <2> QED
    BY <1>2, <2>1 DEF ProtectBody, CtlInv, TypeCtl, Idle, Ops, Phases, Labels, OnOrder,
                     Missings, NoOrder, DataInv, LinkInv
<1> QED BY <1>1, <1>2

LEMMA RaiseInv ==
    ASSUME DataInv, Rows \subseteq Rows', RaiseUnknown \/ RaiseOther PROVE CtlInv'
  BY EndInv, ProtectBodyInv DEF RaiseUnknown, RaiseOther

LEMMA EndPlaceInv ==
    ASSUME CtlInv, Rows \subseteq Rows', EndPlace \/ EndRetire PROVE CtlInv'
<1> USE DEF Plain, Labels, Missings, Sending, OnOrder
<1>1. CASE EndPlace
    BY <1>1, EndInv, GotoInv DEF EndPlace
<1>2. CASE EndRetire
    BY <1>2, GotoInv DEF EndRetire
<1> QED BY <1>1, <1>2

LEMMA UpdateData ==
    ASSUME DataInv, NEW o \in Oid, Known(o), UpdateOrder(o),
           UNCHANGED <<pos, link, trades, exchange, crashes>>, faults' \in Nat
    PROVE  DataInv' /\ Rows' = Rows /\ \A p \in Oid \ {o} : order'[p] = order[p] /\ age'[p] = age[p]
<1> USE DEF Known, UpdateOrder, Record, Updated, exchange, DataInv
<1>0. Updated(o) \in Row
    BY DEF TypeData, Row, Statuses
<1>1. TypeData'
  <2>1. order' \in [Oid -> Row]
    BY <1>0, Zenon DEF TypeData
  <2>2. age' \in [Oid -> 0..2]
    BY DEF TypeData
  <2> QED BY <2>1, <2>2 DEF TypeData
<1>2. BooksFollowExchange' BY DEF TypeData, BooksFollowExchange, Row
<1>3. RejectedMeansAbsent' BY DEF TypeData, RejectedMeansAbsent, Row
<1>4. FreshInv' BY DEF TypeData, FreshInv, Row
<1>5. AgeInv' BY DEF TypeData, AgeInv, Row
<1>6. Rows' = Rows BY DEF TypeData, Row, Rows
<1>7. LinkInv' BY <1>6 DEF LinkInv
<1>8. \A p \in Oid \ {o} : order'[p] = order[p] /\ age'[p] = age[p]
    BY DEF TypeData, Row
<1> QED BY <1>1, <1>2, <1>3, <1>4, <1>5, <1>6, <1>7, <1>8

LEMMA MarkData ==
    ASSUME DataInv, NEW o \in Rows, NEW status \in {"rejected", "unknown"}, Mark(o, status),
           UNCHANGED <<pos, link, trades, xfilled, crashes>>, faults' \in Nat,
           UNCHANGED xstate \/ (xstate[o] = "inflight" /\ xstate' = [xstate EXCEPT ![o] = "none"]),
           status = "rejected" => xstate'[o] = "none"
    PROVE  DataInv' /\ Rows' = Rows
<1> USE DEF Mark, Record, DataInv, Rows
<1>0. [order[o] EXCEPT !.status = status] \in Row
    BY DEF TypeData, Row, Statuses
<1>1. TypeData'
  <2>1. order' \in [Oid -> Row]
    BY <1>0, Zenon DEF TypeData
  <2>2. age' \in [Oid -> 0..2]
    BY DEF TypeData
  <2>3. xstate' \in [Oid -> {"none", "inflight", "open", "done"}]
    BY DEF TypeData
  <2> QED BY <2>1, <2>2, <2>3 DEF TypeData
<1>2. BooksFollowExchange' BY DEF TypeData, BooksFollowExchange, Row
<1>3. RejectedMeansAbsent' BY DEF TypeData, RejectedMeansAbsent, Row
<1>4. FreshInv' BY DEF TypeData, FreshInv, Row
<1>5. AgeInv' BY DEF TypeData, AgeInv, Row
<1>6. Rows' = Rows BY DEF TypeData, Row
<1>7. LinkInv' BY <1>6 DEF LinkInv
<1> QED BY <1>1, <1>2, <1>3, <1>4, <1>5, <1>6, <1>7

LEMMA NewOrderData ==
    ASSUME DataInv, HasRoom, NEW purpose \in Purposes, NEW amount \in Nat,
           NewOrder(purpose, amount),
           UNCHANGED <<pos, link, trades, exchange, age, crashes>>, faults' \in Nat
    PROVE  /\ DataInv' /\ Rows \subseteq Rows'
           /\ NextOid \in Rows' /\ order'[NextOid].status = "pending"
           /\ xstate'[NextOid] = "none" /\ age'[NextOid] < 2
<1> USE DEF NewOrder, DataInv, exchange
<1>0. NextOid \in Oid /\ NextOid \notin Rows
    BY DEF NextOid, HasRoom
<1>a. DEFINE n == NextOid
<1> HIDE DEF n
<1>b. n \in Oid /\ order[n].purpose = "none" /\ n = NextOid
    BY <1>0 DEF Rows, n
<1>c. DEFINE row == [purpose |-> purpose, status |-> "pending", amount |-> amount,
                     filled |-> 0, booked |-> 0]
<1>d. row \in Row
    BY DEF Row, Statuses
<1>e. order' = [order EXCEPT ![n] = row]
    BY <1>b
<1>f. row.purpose # "none" /\ row.status = "pending" /\ row.filled = 0 /\ row.booked = 0
      /\ row.amount \in Nat
    BY DEF Purposes
<1> HIDE DEF row, NewOrder
<1>1. TypeData'
  <2>1. order' \in [Oid -> Row]
    BY <1>d, <1>e DEF TypeData
  <2> QED BY <2>1 DEF TypeData
<1>2. order'[n] = row /\ \A p \in Oid \ {n} : order'[p] = order[p]
    BY <1>b, <1>e DEF TypeData
<1>3. xstate[n] = "none" /\ xfilled[n] = 0 /\ age[n] = 0
    BY <1>b DEF FreshInv
<1>4. BooksFollowExchange' BY <1>2, <1>3, <1>f DEF BooksFollowExchange
<1>5. RejectedMeansAbsent' BY <1>2, <1>3, <1>f DEF RejectedMeansAbsent
<1>6. FreshInv' BY <1>2, <1>3, <1>f DEF FreshInv
<1>7. AgeInv' BY DEF AgeInv
<1>8. Rows \subseteq Rows' /\ n \in Rows' BY <1>2, <1>b, <1>f DEF Rows
<1>9. LinkInv' BY <1>8 DEF LinkInv
<1> QED BY <1>1, <1>2, <1>3, <1>4, <1>5, <1>6, <1>7, <1>8, <1>9, <1>b, <1>f

LEMMA CancelData ==
    ASSUME DataInv, NEW o \in Oid, xstate' \in {xstate, Canceled(o)}, Fault \/ NoFault,
           UNCHANGED <<db, xfilled, env>>
    PROVE  DataInv' /\ Rows' = Rows
<1> USE DEF Canceled, DataInv, db, env
<1>0. faults' \in Nat BY FaultNat
<1>1. TypeData' BY <1>0 DEF TypeData
<1>2. BooksFollowExchange' BY DEF BooksFollowExchange
<1>3. RejectedMeansAbsent' BY DEF TypeData, RejectedMeansAbsent
<1>4. FreshInv' BY DEF TypeData, FreshInv
<1>5. AgeInv' BY DEF TypeData, AgeInv
<1>6. Rows' = Rows BY DEF Rows
<1>7. LinkInv' BY <1>6 DEF LinkInv
<1> QED BY <1>1, <1>2, <1>3, <1>4, <1>5, <1>6, <1>7

\* What the booking steps have in common: the row is booked, and the position and
\* the trades keep their types.
LEMMA BookData ==
    ASSUME DataInv, NEW o \in Oid, order' = BookedRow(o),
           pos' \in Nat, trades' \in [buy : Nat, sell : Nat], link' \in {link, NoOrder},
           UNCHANGED <<exchange, age, crashes, faults>>
    PROVE  DataInv' /\ Rows' = Rows
<1> USE DEF DataInv, BookedRow, exchange
<1>0. [order[o] EXCEPT !.booked = order[o].filled] \in Row
    BY DEF TypeData, Row
<1>1. TypeData'
  <2>1. order' \in [Oid -> Row]
    BY <1>0, Zenon DEF TypeData
  <2> QED BY <2>1 DEF TypeData, NoOrder
<1>2. BooksFollowExchange' BY DEF TypeData, BooksFollowExchange, Row
<1>3. RejectedMeansAbsent' BY DEF TypeData, RejectedMeansAbsent, Row
<1>4. FreshInv' BY DEF TypeData, FreshInv, Row, NoRow
<1>5. AgeInv' BY DEF TypeData, AgeInv, Row
<1>6. Rows' = Rows BY DEF TypeData, Row, Rows
<1>7. LinkInv' BY <1>6 DEF LinkInv
<1> QED BY <1>1, <1>2, <1>3, <1>4, <1>5, <1>6, <1>7

LEMMA UnbookedNat ==
    ASSUME DataInv, NEW o \in Oid PROVE Unbooked(o) \in Nat
  BY DEF DataInv, TypeData, BooksFollowExchange, Unbooked, Row

LEMMA BookEntryData ==
    ASSUME DataInv, NEW o \in Oid, BookEntry(o), UNCHANGED <<exchange, env, faults>>
    PROVE  DataInv' /\ Rows' = Rows
<1>1. pos' \in Nat /\ trades' \in [buy : Nat, sell : Nat]
    BY UnbookedNat DEF BookEntry, DataInv, TypeData
<1> QED BY <1>1, BookData DEF BookEntry, env

LEMMA BookExitData ==
    ASSUME DataInv, NEW o \in Oid, BookExit(o), UNCHANGED <<exchange, env, faults>>
    PROVE  DataInv' /\ Rows' = Rows
<1>1. pos' \in Nat /\ trades' \in [buy : Nat, sell : Nat]
    BY UnbookedNat DEF BookExit, DataInv, TypeData
<1>2. link' \in {link, NoOrder} /\ order' = BookedRow(o)
    BY DEF BookExit
<1> QED BY <1>1, <1>2, BookData DEF env

\* Steps that change no more of the database than the position.
LEMMA PositionData ==
    ASSUME DataInv, UNCHANGED <<order, exchange, age, crashes>>, faults' \in Nat,
           pos' \in Nat, trades' \in [buy : Nat, sell : Nat], link' \in Rows \cup {NoOrder}
    PROVE  DataInv' /\ Rows' = Rows
<1> USE DEF DataInv, exchange
<1>1. TypeData' BY DEF TypeData, NoOrder, Rows
<1>2. BooksFollowExchange' BY DEF BooksFollowExchange
<1>3. RejectedMeansAbsent' BY DEF RejectedMeansAbsent
<1>4. FreshInv' BY DEF FreshInv
<1>5. AgeInv' BY DEF AgeInv
<1>6. Rows' = Rows BY DEF Rows
<1>7. LinkInv' BY <1>6 DEF LinkInv
<1> QED BY <1>1, <1>2, <1>3, <1>4, <1>5, <1>6, <1>7

-----------------------------------------------------------------------------
\* What a call to the exchange leaves behind, whatever the caller does with it:
\* the row follows the answer, or nothing changes.
Answered ==
    /\ \/ Known(ctl.cur) /\ UpdateOrder(ctl.cur) /\ NoFault
       \/ UNCHANGED rows /\ (Fault \/ NoFault)
    /\ UNCHANGED <<pos, link, trades, exchange, crashes>>

LEMMA AnsweredData ==
    ASSUME DataInv, ctl.cur \in Rows, Answered PROVE DataInv' /\ Rows' = Rows
<1>1. ctl.cur \in Oid BY DEF Rows
<1>2. CASE Known(ctl.cur) /\ UpdateOrder(ctl.cur) /\ NoFault
    BY <1>1, <1>2, UpdateData, FaultNat DEF Answered, DataInv
<1>3. CASE UNCHANGED rows /\ (Fault \/ NoFault)
    BY <1>3, DataSame, FaultNat DEF Answered, DataInv, rows, db, exchange, TypeData
<1> QED BY <1>2, <1>3 DEF Answered

LEMMA PollInv ==
    ASSUME IInv,
           FinishPoll \/ RetirePoll \/ BuyPoll \/ BuyPollCanceled \/ SellPoll
    PROVE  IInv'
<1> USE DEF IInv, Poll, At
<1>1. ctl.pc \in Plain \cap OnOrder
    BY DEF FinishPoll, RetirePoll, BuyPoll, BuyPollCanceled, SellPoll, Plain, OnOrder,
           Labels, Missings, Sending
<1>2. ctl.cur \in Rows /\ ctl.cur \in Oid
    BY <1>1 DEF CtlInv, Rows
<1>3. Answered
    BY DEF FinishPoll, RetirePoll, BuyPoll, BuyPollCanceled, SellPoll, Answered, Known
<1>4. DataInv' /\ Rows' = Rows
    BY <1>2, <1>3, AnsweredData
<1>5. \/ \E l \in {"finish_book", "retire_book", "buy_book", "buy_cancel", "sell_book",
                   "sell_finally"} : Goto(l)
      \/ UNCHANGED ctl
      \/ RaiseUnknown
    BY DEF FinishPoll, RetirePoll, BuyPoll, BuyPollCanceled, SellPoll
<1> HIDE DEF Poll
<1>6. CASE \E l \in {"finish_book", "retire_book", "buy_book", "buy_cancel", "sell_book",
                     "sell_finally"} : Goto(l)
    BY <1>2, <1>4, <1>6, GotoInv DEF Plain, Labels, Missings, Sending
<1>7. CASE UNCHANGED ctl
    BY <1>1, <1>4, <1>7, StayInv
<1>8. CASE RaiseUnknown
    BY <1>4, <1>8, RaiseInv
<1> QED BY <1>4, <1>5, <1>6, <1>7, <1>8

LEMMA QueryInv ==
    ASSUME IInv,
           FinishGet \/ RetireState \/ ProtectState \/ SweepGet
    PROVE  IInv'
<1> USE DEF IInv, Query, At
<1>1. ctl.pc \in Plain \cap OnOrder
    BY DEF FinishGet, RetireState, ProtectState, SweepGet, Plain, OnOrder, Labels, Missings,
           Sending
<1>2. ctl.cur \in Rows /\ ctl.cur \in Oid
    BY <1>1 DEF CtlInv, Rows
<1>3. Answered
    BY DEF FinishGet, RetireState, ProtectState, SweepGet, Answered
<1>4. DataInv' /\ Rows' = Rows
    BY <1>2, <1>3, AnsweredData
<1>5. \/ \E l \in {"finish_cancel", "finish_book", "settle", "retire_book", "retire_poll",
                   "protect_book", "sweep_book"} : Goto(l)
      \/ RaiseUnknown \/ RaiseOther
      \/ \E l \in Missings : Goto(l) /\ age[ctl.cur] = 2 /\ UNCHANGED age
    BY DEF FinishGet, RetireState, ProtectState, SweepGet, Missings, rows
<1> HIDE DEF Query
<1>6. CASE \E l \in {"finish_cancel", "finish_book", "settle", "retire_book", "retire_poll",
                     "protect_book", "sweep_book"} : Goto(l)
    BY <1>2, <1>4, <1>6, GotoInv DEF Plain, Labels, Missings, Sending
<1>7. CASE RaiseUnknown \/ RaiseOther
    BY <1>4, <1>7, RaiseInv
<1>8. CASE \E l \in Missings : Goto(l) /\ age[ctl.cur] = 2 /\ UNCHANGED age
    BY <1>2, <1>4, <1>8 DEF Goto, CtlInv, TypeCtl, Missings, Labels, OnOrder
<1> QED BY <1>4, <1>5, <1>6, <1>7, <1>8

\* An order may be called rejected here: past the ghost age it is not on its way,
\* and the exchange does not know it.
LEMMA ConfirmInv ==
    ASSUME IInv,
           FinishMissing \/ RetireMissing \/ ProtectMissing \/ SweepMissing
    PROVE  IInv'
<1> USE DEF IInv, ConfirmMissing, At
<1>1. ctl.pc \in Missings \cap OnOrder
    BY DEF FinishMissing, RetireMissing, ProtectMissing, SweepMissing, Missings, OnOrder, Labels
<1>2. ctl.cur \in Rows /\ ctl.cur \in Oid /\ age[ctl.cur] = 2
    BY <1>1 DEF CtlInv, Rows
<1>3. \/ ~Known(ctl.cur) /\ Mark(ctl.cur, "rejected") /\ NoFault
      \/ UNCHANGED rows /\ (Fault \/ NoFault)
    BY DEF FinishMissing, RetireMissing, ProtectMissing, SweepMissing
<1>4. UNCHANGED <<pos, link, trades, exchange, crashes>>
    BY DEF FinishMissing, RetireMissing, ProtectMissing, SweepMissing
<1>5. DataInv' /\ Rows' = Rows
  <2>1. CASE ~Known(ctl.cur) /\ Mark(ctl.cur, "rejected") /\ NoFault
    <3>1. xstate[ctl.cur] = "none"
      BY <1>2, <2>1 DEF DataInv, TypeData, AgeInv, Known
    <3> QED BY <1>2, <1>4, <2>1, <3>1, MarkData, FaultNat DEF DataInv, exchange
  <2>2. CASE UNCHANGED rows /\ (Fault \/ NoFault)
    BY <1>2, <1>4, <2>2, AnsweredData DEF Answered
  <2> QED BY <1>3, <2>1, <2>2
<1>6. \/ \E l \in {"settle", "retire_unlink", "protect_unlink", "sweep"} : Goto(l)
      \/ RaiseUnknown
    BY DEF FinishMissing, RetireMissing, ProtectMissing, SweepMissing
<1> HIDE DEF ConfirmMissing
<1>7. CASE \E l \in {"settle", "retire_unlink", "protect_unlink", "sweep"} : Goto(l)
    BY <1>2, <1>5, <1>7, GotoInv DEF Plain, Labels, Missings, Sending
<1>8. CASE RaiseUnknown
    BY <1>5, <1>8, RaiseInv
<1> QED BY <1>5, <1>6, <1>7, <1>8

-----------------------------------------------------------------------------
LEMMA SendInv == ASSUME IInv, Send PROVE IInv'
<1> USE DEF IInv, Send, At, Goto
<1>1. ctl.cur \in Rows /\ ctl.cur \in Oid /\ ctl.pc = "send"
    BY DEF CtlInv, Rows, OnOrder, Labels
<1>2. order[ctl.cur].status = "pending" /\ age[ctl.cur] < 2
    BY <1>1 DEF CtlInv
<1>3. DataInv'
  <2> USE DEF DataInv, db, env
  <2>1. TypeData'            BY DEF TypeData
  <2>2. BooksFollowExchange' BY DEF BooksFollowExchange
  <2>3. RejectedMeansAbsent' BY <1>2 DEF TypeData, RejectedMeansAbsent
  <2>4. FreshInv'            BY <1>1 DEF TypeData, FreshInv, Rows
  <2>5. AgeInv'              BY <1>2 DEF TypeData, AgeInv
  <2>6. LinkInv'             BY DEF LinkInv, Rows
  <2> QED BY <2>1, <2>2, <2>3, <2>4, <2>5, <2>6
<1>4. Rows' = Rows
    BY DEF Rows, db
<1>5. CtlInv'
    BY <1>1, <1>4, GotoInv DEF Plain, Labels, Missings, Sending
<1> QED BY <1>3, <1>5

\* Where the operation can go after the answer to an order.
LEMMA AfterSubmitInv ==
    ASSUME IInv, DataInv', Rows' = Rows, ctl.cur \in Rows, Accepted \/ Refused \/ Unanswered
    PROVE  CtlInv'
<1>1. order[ctl.cur].purpose \in {"entry", "exit", "stop"}
    BY DEF IInv, DataInv, TypeData, Row, Rows, Purposes
<1>2. \/ \E l \in {"buy_book", "buy_poll", "sell_book", "sell_poll", "sell_finally",
                   "place_unlink"} : Goto(l)
      \/ RaiseUnknown \/ RaiseOther \/ EndPlace
    BY <1>1 DEF Accepted, Refused, Unanswered
<1>3. CASE \E l \in {"buy_book", "buy_poll", "sell_book", "sell_poll", "sell_finally",
                     "place_unlink"} : Goto(l)
    BY <1>3, GotoInv DEF IInv, Plain, Labels, Missings, Sending
<1>4. CASE RaiseUnknown \/ RaiseOther \/ EndPlace
    BY <1>4, RaiseInv, EndPlaceInv DEF IInv
<1> QED BY <1>2, <1>3, <1>4

LEMMA AnswerInv == ASSUME IInv, Answer PROVE IInv'
<1> USE DEF IInv
<1>1. ctl.cur \in Rows /\ ctl.cur \in Oid /\ ctl.pc \in Plain
    BY DEF Answer, At, CtlInv, Rows, OnOrder, Labels, Plain, Missings, Sending
<1>2. CASE Known(ctl.cur) /\ UpdateOrder(ctl.cur) /\ Accepted /\ NoFault /\ UNCHANGED xstate
  <2>1. Answered
    BY <1>2 DEF Answer, Answered, exchange
  <2> QED BY <1>1, <1>2, <2>1, AnsweredData, AfterSubmitInv
<1>3. CASE /\ xstate[ctl.cur] = "inflight" /\ Fault
           /\ xstate' = [xstate EXCEPT ![ctl.cur] = "none"]
           /\ Mark(ctl.cur, "rejected") /\ Refused
  <2>1. xstate'[ctl.cur] = "none"
    BY <1>1, <1>3 DEF DataInv, TypeData
  <2>2. DataInv' /\ Rows' = Rows
    BY <1>1, <1>3, <2>1, MarkData, FaultNat DEF Answer, DataInv
  <2> QED BY <1>1, <1>3, <2>2, AfterSubmitInv
<1>4. CASE (Fault \/ NoFault) /\ Goto("lookup") /\ UNCHANGED <<rows, xstate>>
  <2>1. Answered
    BY <1>4 DEF Answer, Answered, exchange
  <2> QED BY <1>1, <1>4, <2>1, AnsweredData, GotoInv DEF Plain, Labels, Missings, Sending
<1> QED BY <1>2, <1>3, <1>4 DEF Answer

LEMMA LookupInv == ASSUME IInv, Lookup PROVE IInv'
<1> USE DEF IInv
<1>1. ctl.cur \in Rows /\ ctl.cur \in Oid
    BY DEF Lookup, At, CtlInv, Rows, OnOrder, Labels
<1>2. CASE Known(ctl.cur) /\ UpdateOrder(ctl.cur) /\ Accepted /\ NoFault
  <2>1. Answered
    BY <1>2 DEF Lookup, Answered
  <2> QED BY <1>1, <1>2, <2>1, AnsweredData, AfterSubmitInv
<1>3. CASE (Fault \/ NoFault) /\ Mark(ctl.cur, "unknown") /\ Unanswered
  <2>1. DataInv' /\ Rows' = Rows
    BY <1>1, <1>3, MarkData, FaultNat DEF Lookup, DataInv, exchange
  <2> QED BY <1>1, <1>3, <2>1, AfterSubmitInv
<1> QED BY <1>2, <1>3 DEF Lookup

-----------------------------------------------------------------------------
\* _settle takes orders of the outbox one by one.
LEMMA SettleNextInv == ASSUME IInv, SettleNext PROVE IInv'
<1> USE DEF IInv
<1>1. DataInv' /\ Rows' = Rows
    BY DataSame DEF SettleNext, db, env, DataInv, TypeData
<1>2. CASE /\ ctl.todo # {}
           /\ ctl' = [ctl EXCEPT !.pc = "finish", !.cur = First(ctl.todo),
                                 !.todo = @ \ {First(@)}]
  <2>1. First(ctl.todo) \in ctl.todo
    BY <1>2 DEF First
  <2> QED BY <1>1, <1>2, <2>1 DEF CtlInv, TypeCtl, Labels, Missings, Rows
<1>3. CASE RaiseUnknown
    BY <1>1, <1>3, RaiseInv
<1>4. CASE ctl' = [ctl EXCEPT !.phase = "body", !.pc = "buy_check"]
    BY <1>1, <1>4 DEF CtlInv, TypeCtl, Labels, Missings, OnOrder, Phases
<1>5. CASE End \/ ctl' = [ctl EXCEPT !.phase = "body", !.pc = "retire"]
    BY <1>1, <1>5, EndInv DEF CtlInv, TypeCtl, Labels, Missings, OnOrder, Phases
<1>6. CASE ProtectBody
    BY <1>1, <1>6, ProtectBodyInv
<1>7. CASE ctl' = [ctl EXCEPT !.phase = "sweep", !.pc = "sweep", !.todo = OrphanStops]
    BY <1>1, <1>7 DEF CtlInv, TypeCtl, Labels, Missings, OnOrder, Phases, OrphanStops, Rows
<1> QED BY <1>1, <1>2, <1>3, <1>4, <1>5, <1>6, <1>7 DEF SettleNext

LEMMA FinishCancelInv == ASSUME IInv, FinishCancel PROVE IInv'
<1> USE DEF IInv
<1>1. ctl.cur \in Rows /\ ctl.cur \in Oid
    BY DEF FinishCancel, At, CtlInv, Rows, OnOrder, Labels
<1>2. DataInv' /\ Rows' = Rows
    BY <1>1, CancelData DEF FinishCancel, CancelOrder
<1>3. Goto("finish_poll") \/ RaiseOther
    BY DEF FinishCancel
<1> QED
    BY <1>1, <1>2, <1>3, GotoInv, RaiseInv DEF Plain, Labels, Missings, Sending

LEMMA FinishBookInv == ASSUME IInv, FinishBook PROVE IInv'
<1> USE DEF IInv
<1>1. ctl.cur \in Rows /\ ctl.cur \in Oid
    BY DEF FinishBook, At, CtlInv, Rows, OnOrder, Labels
<1>2. DataInv' /\ Rows' = Rows
    BY <1>1, BookEntryData, BookExitData DEF FinishBook
<1>3. Goto("retire") \/ Goto("settle")
    BY DEF FinishBook
<1> QED
    BY <1>1, <1>2, <1>3, GotoInv DEF Plain, Labels, Missings, Sending

-----------------------------------------------------------------------------
\* Steps that book the order at hand and go on.
LEMMA BookStepInv ==
    ASSUME IInv, RetireBook \/ BuyBook \/ SellBook \/ ProtectBook \/ SweepBook PROVE IInv'
<1> USE DEF IInv
<1>1. ctl.cur \in Rows /\ ctl.cur \in Oid
    BY DEF RetireBook, BuyBook, SellBook, ProtectBook, SweepBook, At, CtlInv, Rows, OnOrder,
           Labels
<1>2. DataInv' /\ Rows' = Rows
    BY <1>1, BookEntryData, BookExitData
    DEF RetireBook, BuyBook, SellBook, ProtectBook, SweepBook
<1>3. \/ \E l \in {"retire_unlink", "place", "sell_finally", "protect_unlink", "sweep"} : Goto(l)
      \/ End
    BY DEF RetireBook, BuyBook, SellBook, ProtectBook, SweepBook
<1> QED
    BY <1>1, <1>2, <1>3, GotoInv, EndInv DEF Plain, Labels, Missings, Sending

\* Steps that clear the link and go on.
LEMMA UnlinkInv ==
    ASSUME IInv, RetireUnlink \/ PlaceUnlink \/ ProtectUnlink PROVE IInv'
<1> USE DEF IInv
<1>1. ClearLink(ctl.cur) /\ UNCHANGED <<exchange, env, faults>>
    BY DEF RetireUnlink, PlaceUnlink, ProtectUnlink
<1>2. link' \in Rows \cup {NoOrder}
    BY <1>1 DEF ClearLink, DataInv, LinkInv
<1>3. DataInv' /\ Rows' = Rows
    BY <1>1, <1>2, PositionData DEF ClearLink, DataInv, TypeData, env
<1>4. EndRetire \/ EndPlace \/ Goto("protect_stop")
    BY DEF RetireUnlink, PlaceUnlink, ProtectUnlink
<1>5. CASE EndRetire \/ EndPlace
    BY <1>3, <1>5, EndPlaceInv
<1>6. CASE Goto("protect_stop")
    BY <1>3, <1>6, GotoInv DEF Plain, Labels, Missings, Sending, OnOrder
<1> QED BY <1>3, <1>4, <1>5, <1>6

LEMMA RetireCancelInv == ASSUME IInv, RetireCancel PROVE IInv'
<1> USE DEF IInv
<1>1. CASE link = NoOrder /\ EndRetire /\ UNCHANGED <<db, exchange, env, faults>>
    BY <1>1, DataSame, EndPlaceInv DEF env, DataInv, TypeData
<1>2. CASE link # NoOrder /\ CancelOrder(link) /\ GotoFor("retire_state", link)
  <2>1. link \in Rows /\ link \in Oid
    BY <1>2 DEF DataInv, LinkInv, Rows
  <2>2. DataInv' /\ Rows' = Rows
    BY <1>2, <2>1, CancelData DEF CancelOrder
  <2> QED
    BY <1>2, <2>1, <2>2 DEF GotoFor, CtlInv, TypeCtl, Labels, Missings
<1> QED BY <1>1, <1>2 DEF RetireCancel

\* A step that puts a new order in the outbox works on it next.
LEMMA NewOrderInv ==
    ASSUME IInv, HasRoom, NEW purpose \in Purposes, NEW amount \in Nat, NEW l \in Sending,
           NewOrder(purpose, amount), GotoFor(l, NextOid),
           UNCHANGED <<pos, link, trades, exchange, age, crashes, faults>>
    PROVE  IInv'
<1>1. /\ DataInv' /\ Rows \subseteq Rows'
      /\ NextOid \in Rows' /\ order'[NextOid].status = "pending"
      /\ xstate'[NextOid] = "none" /\ age'[NextOid] < 2
    BY NewOrderData DEF IInv, DataInv, TypeData
<1>2. NextOid \in Oid
    BY DEF NextOid, HasRoom
<1>3. CtlInv'
    BY <1>1, <1>2 DEF IInv, CtlInv, TypeCtl, GotoFor, Sending, Labels, Missings
<1> QED BY <1>1, <1>3 DEF IInv

LEMMA PlaceStopInv == ASSUME IInv, PlaceStop PROVE IInv'
<1> USE DEF IInv
<1>1. CASE EndPlace /\ UNCHANGED <<db, exchange, env>> /\ (Fault \/ NoFault)
    BY <1>1, DataSame, FaultNat, EndPlaceInv DEF env, DataInv, TypeData
<1>2. CASE /\ HasRoom /\ NewOrder("stop", pos) /\ GotoFor("place_link", NextOid)
           /\ UNCHANGED <<pos, link, trades, faults, exchange, env>>
    BY <1>2, NewOrderInv DEF env, Sending, Purposes, DataInv, TypeData
<1> QED BY <1>1, <1>2 DEF PlaceStop, NoFault

LEMMA LinkStopInv == ASSUME IInv, LinkStop PROVE IInv'
<1> USE DEF IInv
<1>1. ctl.cur \in Rows /\ ctl.cur \in Oid /\ ctl.pc = "place_link"
    BY DEF LinkStop, At, CtlInv, Rows, OnOrder, Labels
<1>2. link' \in Rows \cup {NoOrder}
    BY <1>1 DEF LinkStop, DataInv, LinkInv
<1>3. DataInv' /\ Rows' = Rows
    BY <1>2, PositionData DEF LinkStop, DataInv, TypeData, env
<1>4. CtlInv'
    BY <1>1, <1>3 DEF LinkStop, Goto, CtlInv, TypeCtl, Labels, Missings, env, exchange
<1> QED BY <1>3, <1>4

-----------------------------------------------------------------------------
LEMMA BuyCheckInv == ASSUME IInv, BuyCheck PROVE IInv'
<1> USE DEF IInv
<1>1. CASE RaiseOther /\ UNCHANGED <<order, pos, link, trades, exchange, env>> /\ (Fault \/ NoFault)
    BY <1>1, DataSame, FaultNat, RaiseInv DEF env, DataInv, TypeData, db
<1>2. CASE /\ HasRoom /\ NewOrder("entry", EntryAmount) /\ GotoFor("send", NextOid) /\ NoFault
           /\ UNCHANGED <<pos, link, trades, exchange, env>>
    BY <1>2, NewOrderInv, AmountAssumption DEF env, Sending, Purposes, NoFault
<1> QED BY <1>1, <1>2 DEF BuyCheck, NoFault

LEMMA BuyCancelInv == ASSUME IInv, BuyCancel PROVE IInv'
<1> USE DEF IInv
<1>1. ctl.cur \in Rows /\ ctl.cur \in Oid
    BY DEF BuyCancel, At, CtlInv, Rows, OnOrder, Labels
<1>2. DataInv' /\ Rows' = Rows
    BY <1>1, CancelData DEF BuyCancel, CancelOrder
<1> QED
    BY <1>1, <1>2, GotoInv DEF BuyCancel, Plain, Labels, Missings, Sending

LEMMA DustData ==
    ASSUME DataInv, WriteOffDust, UNCHANGED <<exchange, env, faults>>
    PROVE  DataInv' /\ Rows' = Rows
<1>1. pos' \in Nat /\ trades' \in [buy : Nat, sell : Nat] /\ link' \in Rows \cup {NoOrder}
    BY DEF WriteOffDust, DataInv, TypeData, LinkInv
<1> QED BY <1>1, PositionData DEF WriteOffDust, DataInv, TypeData, env

\* Steps that end, go on or write off dust, and may fail.
LEMMA SellPriceInv == ASSUME IInv, SellPrice PROVE IInv'
<1> USE DEF IInv
<1>1. CASE (End \/ Goto("sell_finally")) /\ UNCHANGED <<db, exchange, env>> /\ (Fault \/ NoFault)
    BY <1>1, DataSame, FaultNat, EndInv, GotoInv
    DEF env, DataInv, TypeData, Plain, Labels, Missings, Sending, OnOrder
<1>2. CASE WriteOffDust /\ End /\ NoFault /\ UNCHANGED <<exchange, env>>
    BY <1>2, DustData, EndInv DEF NoFault
<1>3. CASE /\ HasRoom /\ NewOrder("exit", pos) /\ GotoFor("send", NextOid)
           /\ UNCHANGED <<pos, link, trades, faults, exchange, env>>
    BY <1>3, NewOrderInv DEF env, Sending, Purposes, DataInv, TypeData
<1> QED BY <1>1, <1>2, <1>3 DEF SellPrice, NoFault

LEMMA ProtectStopInv == ASSUME IInv, ProtectStop PROVE IInv'
<1> USE DEF IInv
<1>1. CASE (End \/ RaiseOther \/ Goto("place")) /\ UNCHANGED <<db, exchange, env>> /\ (Fault \/ NoFault)
    BY <1>1, DataSame, FaultNat, EndInv, GotoInv
    DEF env, DataInv, TypeData, Plain, Labels, Missings, Sending, OnOrder, RaiseOther
<1>2. CASE WriteOffDust /\ End /\ NoFault /\ UNCHANGED <<exchange, env>>
    BY <1>2, DustData, EndInv DEF NoFault
<1> QED BY <1>1, <1>2 DEF ProtectStop, NoFault

LEMMA SellFinallyInv == ASSUME IInv, SellFinally PROVE IInv'
<1> USE DEF IInv
<1>1. DataInv' /\ Rows' = Rows
    BY DataSame DEF SellFinally, env, db, DataInv, TypeData
<1>2. Goto("place") \/ End
    BY DEF SellFinally
<1> QED
    BY <1>1, <1>2, GotoInv, EndInv DEF Plain, Labels, Missings, Sending, OnOrder

\* The start of an operation, from the idle state or from reconcile.
LEMMA BeginInv ==
    ASSUME IInv, NEW op \in Ops, BeginSettle(op), UNCHANGED <<db, exchange, env, faults>>
    PROVE  IInv'
<1> USE DEF IInv
<1>1. DataInv' /\ Rows' = Rows
    BY DataSame DEF env, DataInv, TypeData
<1>2. CtlInv'
    BY <1>1 DEF BeginSettle, CtlInv, TypeCtl, Labels, Missings, OnOrder, Phases, Unsettled, Rows
<1> QED BY <1>1, <1>2

LEMMA StartInv == ASSUME IInv, Buy \/ Sell \/ Protect \/ Reconcile PROVE IInv'
  BY BeginInv DEF Buy, Sell, Protect, Reconcile, Ops

LEMMA SweepInv == ASSUME IInv, Sweep PROVE IInv'
<1> USE DEF IInv
<1>1. CASE /\ ctl.todo # {} /\ CancelOrder(First(ctl.todo))
           /\ ctl' = [ctl EXCEPT !.pc = "sweep_get", !.cur = First(ctl.todo),
                                 !.todo = @ \ {First(@)}]
  <2>1. First(ctl.todo) \in ctl.todo
    BY <1>1 DEF First
  <2>2. First(ctl.todo) \in Oid /\ First(ctl.todo) \in Rows
    BY <2>1 DEF CtlInv, Rows
  <2>3. DataInv' /\ Rows' = Rows
    BY <1>1, <2>2, CancelData DEF CancelOrder
  <2> QED
    BY <1>1, <2>2, <2>3 DEF CtlInv, TypeCtl, Labels, Missings
<1>2. CASE BeginSettle("protect") /\ UNCHANGED <<db, exchange, env, faults>>
    BY <1>2, BeginInv DEF Ops
<1>3. CASE End /\ UNCHANGED <<db, exchange, env, faults>>
    BY <1>3, DataSame, EndInv DEF env, DataInv, TypeData
<1> QED BY <1>1, <1>2, <1>3 DEF Sweep

-----------------------------------------------------------------------------
\* The exchange, the clock and a crash leave the operation what it needs: an order
\* that is about to be sent is not on the exchange, and one that is past its ghost
\* age stays so.
LEMMA EnvironmentInv ==
    ASSUME IInv, NEW o \in Oid,
           \/ Land(o) \/ Lose(o) \/ Close(o) \/ Tick(o)
           \/ \E k \in 1..order[o].amount : Fill(o, k)
    PROVE  IInv'
<1> USE DEF IInv, DataInv, db, exchange
<1>0. faults' \in Nat /\ crashes' \in Nat
    BY FaultNat DEF TypeData, Land, Lose, Close, Tick, Fill, NoFault
<1>1. TypeData'
    BY <1>0 DEF TypeData, Land, Lose, Close, Tick, Fill, Row
<1>2. BooksFollowExchange'
    BY DEF TypeData, Land, Lose, Close, Tick, Fill, Row, BooksFollowExchange
<1>3. RejectedMeansAbsent'
    BY DEF TypeData, Land, Lose, Close, Tick, Fill, RejectedMeansAbsent
<1>4. FreshInv'
    BY DEF TypeData, Land, Lose, Close, Tick, Fill, FreshInv, NoRow
<1>5. AgeInv'
    BY DEF TypeData, Land, Lose, Close, Tick, Fill, AgeInv
<1>6. Rows' = Rows /\ UNCHANGED <<order, link, ctl>>
    BY DEF Land, Lose, Close, Tick, Fill, Rows
<1>7. LinkInv' BY <1>6 DEF LinkInv
<1>8. CtlInv'
  <2>1. ASSUME ctl.pc \in Sending PROVE xstate'[ctl.cur] = "none" /\ age'[ctl.cur] < 2
    <3>1. /\ ctl.cur \in Oid /\ order[ctl.cur].status = "pending"
          /\ xstate[ctl.cur] = "none" /\ age[ctl.cur] \in {0, 1}
      BY <2>1 DEF CtlInv, TypeData, Sending, OnOrder, Labels, Rows
    <3>2. CASE Tick(o)
      BY <2>1, <3>1, <3>2 DEF Tick, TypeData, Sending
    <3>3. CASE Land(o) \/ Lose(o) \/ Close(o) \/ \E k \in 1..order[o].amount : Fill(o, k)
      BY <3>1, <3>3 DEF Land, Lose, Close, Fill, TypeData
    <3> QED BY <3>2, <3>3
  <2>2. ctl.pc \in Missings => age'[ctl.cur] = 2
    BY DEF CtlInv, TypeData, Land, Lose, Close, Tick, Fill, OnOrder, Missings, Rows, Labels
  <2> QED BY <1>6, <2>1, <2>2 DEF CtlInv, TypeCtl, Sending
<1> QED BY <1>1, <1>2, <1>3, <1>4, <1>5, <1>7, <1>8

LEMMA CrashInv == ASSUME IInv, Crash PROVE IInv'
<1> USE DEF IInv
<1>1. crashes' \in Nat
    BY DEF Crash, DataInv, TypeData
<1> QED BY <1>1, DataSame, EndInv DEF Crash, DataInv, TypeData

-----------------------------------------------------------------------------
LEMMA InitInv == Init => IInv
<1> SUFFICES ASSUME Init PROVE IInv
    OBVIOUS
<1> USE DEF Init, IInv, DataInv
<1>1. TypeData             BY DEF TypeData, Row, NoRow, NoOrder
<1>2. BooksFollowExchange  BY DEF BooksFollowExchange, NoRow
<1>3. RejectedMeansAbsent  BY DEF RejectedMeansAbsent
<1>4. FreshInv             BY DEF FreshInv
<1>5. AgeInv               BY DEF AgeInv
<1>6. LinkInv              BY DEF LinkInv
<1>7. CtlInv               BY DEF CtlInv, TypeCtl, Idle, Ops, Phases, Labels, OnOrder, Missings, NoOrder
<1> QED BY <1>1, <1>2, <1>3, <1>4, <1>5, <1>6, <1>7

LEMMA StepInv == IInv /\ [Next]_vars => IInv'
<1> SUFFICES ASSUME IInv, [Next]_vars PROVE IInv'
    OBVIOUS
<1>1. CASE Settling
    BY <1>1, SettleNextInv, QueryInv, ConfirmInv, FinishCancelInv, PollInv, FinishBookInv
    DEF Settling
<1>2. CASE Stopping
    BY <1>2, RetireCancelInv, QueryInv, ConfirmInv, PollInv, BookStepInv, UnlinkInv,
       PlaceStopInv, LinkStopInv DEF Stopping
<1>3. CASE Trading
    BY <1>3, SendInv, AnswerInv, LookupInv, BuyCheckInv, PollInv, BuyCancelInv, BookStepInv,
       SellPriceInv, SellFinallyInv DEF Trading
<1>4. CASE Guarding
    BY <1>4, QueryInv, ConfirmInv, BookStepInv, UnlinkInv, ProtectStopInv, SweepInv DEF Guarding
<1>5. CASE Buy \/ Sell \/ Protect \/ Reconcile
    BY <1>5, StartInv
<1>6. CASE Environment
    BY <1>6, EnvironmentInv DEF Environment
<1>7. CASE Crash
    BY <1>7, CrashInv
<1>8. CASE UNCHANGED vars
  <2>1. DataInv' /\ Rows' = Rows
    BY <1>8, DataSame DEF IInv, DataInv, TypeData, vars, db, exchange
  <2>2. CtlInv'
    BY <1>8, <2>1 DEF IInv, CtlInv, TypeCtl, vars
  <2> QED BY <2>1, <2>2 DEF IInv
<1> QED
    BY <1>1, <1>2, <1>3, <1>4, <1>5, <1>6, <1>7, <1>8 DEF Next, Step

THEOREM Invariant == Spec => []IInv
  BY InitInv, StepInv, PTL DEF Spec

\* The types of LiveMarket, for outboxes, amounts and numbers of faults of any size.
THEOREM TypeCorrect == Spec => []TypeOK
<1>1. IInv => TypeOK
    BY DEF IInv, DataInv, CtlInv, TypeData, TypeCtl, TypeOK
<1>2. QED BY <1>1, Invariant, PTL

\* However many calls fail and however often the process dies, nothing is booked
\* that was not seen, and nothing seen that was not filled (_update_order,
\* _book_entry, _book_exit).
THEOREM BooksCorrect == Spec => []BooksFollowExchange
<1>1. IInv => BooksFollowExchange
    BY DEF IInv, DataInv
<1>2. QED BY <1>1, Invariant, PTL

\* Invariant 1 of live.py: _confirm_missing and _submit never declare an order
\* missing that exists or can still arrive.
THEOREM RejectionSound == Spec => []RejectedMeansAbsent
<1>1. IInv => RejectedMeansAbsent
    BY DEF IInv, DataInv
<1>2. QED BY <1>1, Invariant, PTL

-----------------------------------------------------------------------------
(* One order at a time: invariants 2 and 3 of live.py *)

\* Nothing can be filled any more, and what was filled is booked.
Over(o) == ~Active(o) /\ xfilled[o] = order[o].booked

\* No exit has an open fate.
NoExit == \A o \in Unsettled : order[o].purpose = "entry"

\* The row agrees with the exchange about what is final, and an open order is not full.
ExchangeInv ==
    \A o \in Oid :
        /\ order[o].status = "final" => xstate[o] = "done" /\ order[o].filled = xfilled[o]
        /\ xstate[o] \in {"none", "inflight"} => xfilled[o] = 0
        /\ xstate[o] = "open" => xfilled[o] < order[o].amount
        /\ order[o].purpose # "none" => order[o].amount > 0

\* Only the linked stop can still sell, and no more than the position has.
StopInv ==
    /\ \A o \in Oid : order[o].purpose = "stop" /\ o # link => Over(o)
    /\ link # NoOrder => /\ order[link].purpose = "stop" /\ pos > 0
                         /\ order[link].amount <= pos + order[link].booked

\* While an exit is open no stop is, and it does not sell more than the position has.
ExitInv ==
    \A o \in Unsettled : order[o].purpose = "exit" =>
        link = NoOrder /\ order[o].amount <= pos + order[o].booked

OneInv == ExchangeInv /\ AtMostOneUnsettled /\ StopInv /\ ExitInv

FinishLabels == {"finish", "finish_missing", "finish_cancel", "finish_poll", "finish_book"}
RetireLabels == {"retire", "retire_state", "retire_missing", "retire_poll", "retire_book",
                 "retire_unlink"}
BuyLabels    == {"buy_poll", "buy_cancel", "buy_poll_canceled", "buy_book"}
StopLabels   == (RetireLabels \ {"retire"})
                \cup {"place_link", "place_unlink", "protect_state", "protect_missing",
                      "protect_book", "protect_unlink", "sweep_get", "sweep_missing",
                      "sweep_book"}
SweepLabels  == {"sweep", "sweep_get", "sweep_missing", "sweep_book"}
SentLabels   == {"send", "answer", "lookup"}

\* What kind of order the operation works on.
KindInv ==
    /\ ctl.phase = "settle" => \A o \in ctl.todo : order[o].purpose \in {"entry", "exit"}
    /\ ctl.phase = "sweep" => \A o \in ctl.todo : order[o].purpose = "stop"
    /\ ctl.pc \in FinishLabels => order[ctl.cur].purpose \in {"entry", "exit"}
    /\ ctl.pc \in BuyLabels => order[ctl.cur].purpose = "entry"
    /\ ctl.pc \in {"sell_poll", "sell_book"} => order[ctl.cur].purpose = "exit"
    /\ ctl.pc \in StopLabels => order[ctl.cur].purpose = "stop"
    /\ ctl.pc \in SentLabels => order[ctl.cur].status = "pending"
    /\ ctl.pc = "retire_book" => order[ctl.cur].status = "final"
    /\ ctl.pc = "protect_book" => order[ctl.cur].status \in {"open", "final"}

\* Where the operation may rely on what it asked before.
QuietInv ==
    /\ ctl.pc \in FinishLabels \cup {"settle"} => ctl.phase = "settle"
    /\ ctl.pc \in SweepLabels => ctl.phase = "sweep"
    /\ ctl.pc \in {"buy_check", "sell_price"} => AllSettled
    /\ ctl.pc \in RetireLabels => ctl.phase = "settle" \/ AllSettled
    /\ ctl.pc \in RetireLabels \cup BuyLabels \cup {"place", "place_link"} => NoExit
    /\ ctl.pc \in SentLabels /\ order[ctl.cur].purpose = "entry" => NoExit

\* Where the link stands.
LinkedInv ==
    /\ ctl.pc \in {"sell_price", "place_link"} => link = NoOrder
    /\ ctl.pc \in RetireLabels \ {"retire"} => link \in {ctl.cur, NoOrder}
    /\ ctl.pc \in {"retire_unlink", "protect_unlink", "place_unlink"} => Over(ctl.cur)
    /\ ctl.pc = "place_link" => pos > 0 /\ order[ctl.cur].amount <= pos
    /\ ctl.pc = "send" => /\ order[ctl.cur].purpose = "stop" => link = ctl.cur
                          /\ order[ctl.cur].purpose = "entry" => pos = 0

CallInv == KindInv /\ QuietInv /\ LinkedInv

\* What a step may not do to the orders it is not about: give one an open fate, change what it
\* is for, or bring one back that was over.
Calm ==
    /\ Unsettled' \subseteq Unsettled
    /\ \A o \in Oid : order[o].purpose # "none" => order'[o].purpose = order[o].purpose
    /\ \A o \in Oid : Over(o) => Over(o)'

\* What the exchange may do on its own, and what a cancel does.
ExchangeMoves ==
    \A o \in Oid :
        /\ xstate[o] \in {"none", "done"} => xstate'[o] = xstate[o] /\ xfilled'[o] = xfilled[o]
        /\ xstate[o] = "inflight" =>
              xstate'[o] \in {"none", "inflight", "open"} /\ xfilled'[o] = xfilled[o]
        /\ xstate[o] = "open" => /\ xstate'[o] \in {"open", "done"}
                                 /\ xstate'[o] = "open" => xfilled'[o] < order[o].amount

LEMMA CalmSettled ==
    ASSUME IInv, Calm
    PROVE  (AllSettled => AllSettled') /\ (NoExit => NoExit')
<1>1. AllSettled => AllSettled'
    BY DEF Calm, AllSettled
<1>2. ASSUME NoExit, NEW o \in Unsettled' PROVE order'[o].purpose = "entry"
  <2>1. o \in Unsettled /\ o \in Oid /\ order[o].purpose = "entry"
    BY <1>2 DEF Calm, NoExit, Unsettled, Rows
  <2> QED BY <2>1 DEF Calm
<1> QED BY <1>1, <1>2 DEF NoExit

LEMMA CalmOne ==
    ASSUME AtMostOneUnsettled, Calm PROVE AtMostOneUnsettled'
  BY DEF AtMostOneUnsettled, Calm

LEMMA ExchangeStep ==
    ASSUME IInv, OneInv, UNCHANGED <<order, pos, link>>, ExchangeMoves
    PROVE  OneInv' /\ Calm
<1> USE DEF IInv, DataInv, OneInv
<1>1. Unsettled' = Unsettled
    BY DEF Unsettled, Rows, Unfinished
<1>2. ASSUME NEW o \in Oid, Over(o) PROVE Over(o)'
    BY <1>2 DEF Over, Active, ExchangeMoves, TypeData
<1>3. Calm
    BY <1>1, <1>2 DEF Calm
<1>4. ExchangeInv'
  <2> SUFFICES ASSUME NEW o \in Oid
               PROVE  /\ order[o].status = "final" => xstate'[o] = "done" /\ order[o].filled = xfilled'[o]
                      /\ xstate'[o] \in {"none", "inflight"} => xfilled'[o] = 0
                      /\ xstate'[o] = "open" => xfilled'[o] < order[o].amount
                      /\ order[o].purpose # "none" => order[o].amount > 0
    BY DEF ExchangeInv
  <2>1. order[o].purpose = "none" => xstate[o] = "none"
    BY DEF FreshInv
  <2> QED BY <2>1 DEF ExchangeInv, ExchangeMoves, TypeData
<1>5. StopInv'
    BY <1>2 DEF StopInv
<1>6. ExitInv'
    BY <1>1 DEF ExitInv
<1> QED BY <1>1, <1>3, <1>4, <1>5, <1>6, CalmOne

\* An order that has an answer is not without a row at the exchange.
LEMMA SettledFacts ==
    ASSUME IInv, OneInv, NEW o \in Rows
    PROVE  /\ order[o].status = "rejected" => order[o].filled = 0 /\ order[o].booked = 0
           /\ order[o].purpose \in {"entry", "exit"} /\ o \notin Unsettled => Over(o)
           /\ order[o].purpose \in {"entry", "exit"} /\ o \notin Unsettled =>
                 order[o].filled = order[o].booked /\ order[o].filled = xfilled[o]
<1> USE DEF IInv, DataInv, OneInv
<1>1. o \in Oid /\ order[o] \in Row /\ xfilled[o] \in Nat
    BY DEF Rows, TypeData
<1>2. order[o].booked \in Nat /\ order[o].filled \in Nat
    BY <1>1 DEF Row
<1>3. order[o].status = "rejected" => xstate[o] = "none" /\ xfilled[o] = 0
    BY <1>1 DEF RejectedMeansAbsent, ExchangeInv
<1>4. order[o].booked <= order[o].filled /\ order[o].filled <= xfilled[o]
    BY <1>1 DEF BooksFollowExchange
<1>5. order[o].purpose \in {"entry", "exit"} /\ o \notin Unsettled =>
          order[o].status \in {"final", "rejected"} /\ order[o].filled = order[o].booked
    BY <1>1, <1>2, <1>4 DEF Unsettled, Unfinished, FINAL_STATUSES
<1>6. order[o].status = "final" => xstate[o] = "done" /\ order[o].filled = xfilled[o]
    BY <1>1 DEF ExchangeInv
<1> QED BY <1>1, <1>2, <1>3, <1>4, <1>5, <1>6 DEF Over, Active

LEMMA UpdateStep ==
    ASSUME IInv, OneInv, NEW o \in Rows, Known(o), UpdateOrder(o), UNCHANGED <<pos, link, exchange>>
    PROVE  /\ OneInv' /\ Calm
           /\ order'[o].status = (IF xstate[o] = "open" THEN "open" ELSE "final")
<1> USE DEF IInv, DataInv, OneInv, exchange
<1>1. o \in Oid /\ order[o] \in Row /\ xfilled[o] \in Nat /\ order \in [Oid -> Row]
    BY DEF Rows, TypeData
<1>2. /\ order' = [order EXCEPT ![o] = Updated(o)]
      /\ order[o].filled \in Nat /\ order[o].booked \in Nat /\ order[o].amount \in Nat
      /\ order[o].booked <= order[o].filled /\ order[o].filled <= xfilled[o]
    BY <1>1 DEF UpdateOrder, Record, BooksFollowExchange, Row
<1>3. /\ order'[o].status = (IF xstate[o] = "open" THEN "open" ELSE "final")
      /\ order'[o].filled = xfilled[o]
      /\ order'[o].purpose = order[o].purpose /\ order'[o].amount = order[o].amount
      /\ order'[o].booked = order[o].booked
    BY <1>1, <1>2 DEF Updated, Row
<1>4. \A p \in Oid : p # o => order'[p] = order[p]
    BY <1>1, <1>2
<1>5. Unsettled' \subseteq Unsettled
  <2>1. ASSUME NEW p \in Unsettled' PROVE p \in Unsettled
    <3>1. CASE p # o
      BY <1>4, <2>1, <3>1 DEF Unsettled, Unfinished, Rows
    <3>2. CASE p = o
      <4> SUFFICES ASSUME o \notin Unsettled PROVE FALSE
        BY <3>2
      <4>1. order[o].purpose \in {"entry", "exit"}
        BY <1>3, <2>1, <3>2 DEF Unsettled
      <4>2. ~Active(o) /\ order[o].filled = order[o].booked /\ order[o].filled = xfilled[o]
        BY <4>1, SettledFacts DEF Over
      <4>3. order'[o].status = "final" /\ order'[o].filled = order'[o].booked
        BY <1>3, <4>2 DEF Active
      <4> QED BY <1>2, <1>3, <2>1, <3>2, <4>2, <4>3 DEF Unsettled, Unfinished, FINAL_STATUSES
    <3> QED BY <3>1, <3>2
  <2> QED BY <2>1
<1>6. Calm
    BY <1>1, <1>3, <1>4, <1>5 DEF Calm, Over, Active
<1>7. ExchangeInv'
    BY <1>1, <1>3, <1>4 DEF ExchangeInv, Known
<1>8. StopInv'
    BY <1>1, <1>3, <1>4 DEF StopInv, Over, Active, NoOrder, TypeData
<1>9. ExitInv'
    BY <1>1, <1>3, <1>4, <1>5 DEF ExitInv, Unsettled, Rows
<1> QED BY <1>3, <1>6, <1>7, <1>8, <1>9, CalmOne

LEMMA MarkStep ==
    ASSUME IInv, OneInv, NEW o \in Rows, NEW status \in {"rejected", "unknown"}, Mark(o, status),
           UNCHANGED <<pos, link, xfilled>>,
           UNCHANGED xstate \/ (xstate[o] = "inflight" /\ xstate' = [xstate EXCEPT ![o] = "none"]),
           status = "unknown" => order[o].status = "pending"
    PROVE  OneInv' /\ Calm
<1> USE DEF IInv, DataInv, OneInv
<1>1. o \in Oid /\ order[o] \in Row /\ order \in [Oid -> Row]
      /\ xstate \in [Oid -> {"none", "inflight", "open", "done"}]
    BY DEF Rows, TypeData
<1>2. order' = [order EXCEPT ![o] = [order[o] EXCEPT !.status = status]]
    BY DEF Mark, Record
<1>3. /\ order'[o].status = status
      /\ order'[o].filled = order[o].filled /\ order'[o].booked = order[o].booked
      /\ order'[o].purpose = order[o].purpose /\ order'[o].amount = order[o].amount
    BY <1>1, <1>2 DEF Row
<1>4. \A p \in Oid : p # o => order'[p] = order[p] /\ xstate'[p] = xstate[p]
    BY <1>1, <1>2
<1>5. xstate'[o] = xstate[o] \/ (xstate[o] = "inflight" /\ xstate'[o] = "none")
    BY <1>1
<1>6. Unsettled' \subseteq Unsettled
    BY <1>1, <1>3, <1>4 DEF Unsettled, Unfinished, Rows, FINAL_STATUSES
<1>7. Calm
    BY <1>1, <1>3, <1>4, <1>5, <1>6 DEF Calm, Over, Active
<1>8. ExchangeInv'
    BY <1>1, <1>3, <1>4, <1>5 DEF ExchangeInv
<1>9. StopInv'
    BY <1>1, <1>3, <1>4, <1>5 DEF StopInv, Over, Active, NoOrder, TypeData
<1>10. ExitInv'
    BY <1>1, <1>3, <1>4, <1>6 DEF ExitInv, Unsettled, Rows
<1> QED BY <1>7, <1>8, <1>9, <1>10, CalmOne

\* Booking an order settles it as far as it was seen.
LEMMA BookedCalm ==
    ASSUME IInv, OneInv, NEW o \in Rows, order' = BookedRow(o), UNCHANGED exchange
    PROVE  /\ Calm /\ ExchangeInv'
           /\ order'[o] = [order[o] EXCEPT !.booked = order[o].filled]
           /\ \A p \in Oid : p # o => order'[p] = order[p]
           /\ order'[o].filled = order[o].filled /\ order'[o].booked = order[o].filled
           /\ order'[o].status = order[o].status /\ order'[o].purpose = order[o].purpose
           /\ order'[o].amount = order[o].amount
<1> USE DEF IInv, DataInv, OneInv, exchange
<1>1. o \in Oid /\ order[o] \in Row /\ order \in [Oid -> Row]
    BY DEF Rows, TypeData
<1>2. order' = [order EXCEPT ![o] = [order[o] EXCEPT !.booked = order[o].filled]]
    BY DEF BookedRow
<1>3. /\ order'[o] = [order[o] EXCEPT !.booked = order[o].filled]
      /\ \A p \in Oid : p # o => order'[p] = order[p]
    BY <1>1, <1>2
<1>4. /\ order'[o].filled = order[o].filled /\ order'[o].booked = order[o].filled
      /\ order'[o].status = order[o].status /\ order'[o].purpose = order[o].purpose
      /\ order'[o].amount = order[o].amount
    BY <1>1, <1>3 DEF Row
<1>5. order[o].booked <= order[o].filled /\ order[o].filled <= xfilled[o]
      /\ order[o].filled \in Nat /\ order[o].booked \in Nat /\ xfilled[o] \in Nat
    BY <1>1 DEF BooksFollowExchange, TypeData, Row
<1>a. \A p \in Oid : p # o => order'[p] = order[p]
    BY <1>3
<1>6. Unsettled' \subseteq Unsettled
  <2> SUFFICES ASSUME NEW p \in Unsettled' PROVE p \in Unsettled
    OBVIOUS
  <2>1. CASE p # o
    BY <1>a, <2>1 DEF Unsettled, Unfinished, Rows
  <2>2. CASE p = o
    BY <1>1, <1>4, <1>5, <2>2 DEF Unsettled, Unfinished, Rows
  <2> QED BY <2>1, <2>2
<1>b. ASSUME NEW p \in Oid, Over(p) PROVE Over(p)'
  <2>1. CASE p # o
    BY <1>a, <1>b, <2>1 DEF Over, Active
  <2>2. CASE p = o
    BY <1>4, <1>5, <1>b, <2>2 DEF Over, Active
  <2> QED BY <2>1, <2>2
<1>7. Calm
    BY <1>a, <1>4, <1>6, <1>b DEF Calm
<1>8. ExchangeInv'
  <2> SUFFICES ASSUME NEW p \in Oid
               PROVE  /\ order'[p].status = "final" => xstate[p] = "done" /\ order'[p].filled = xfilled[p]
                      /\ xstate[p] \in {"none", "inflight"} => xfilled[p] = 0
                      /\ xstate[p] = "open" => xfilled[p] < order'[p].amount
                      /\ order'[p].purpose # "none" => order'[p].amount > 0
    BY DEF ExchangeInv
  <2>1. CASE p # o
    BY <1>a, <2>1 DEF ExchangeInv
  <2>2. CASE p = o
    BY <1>1, <1>4, <2>2 DEF ExchangeInv
  <2> QED BY <2>1, <2>2
<1> QED BY <1>3, <1>4, <1>7, <1>8

LEMMA BookEntryStep ==
    ASSUME IInv, OneInv, NEW o \in Rows, order[o].purpose = "entry", BookEntry(o),
           UNCHANGED exchange
    PROVE  OneInv' /\ Calm
<1> USE DEF IInv, DataInv, OneInv, exchange
<1>1. /\ Calm /\ ExchangeInv'
      /\ \A p \in Oid : p # o => order'[p] = order[p]
      /\ order'[o].purpose = "entry"
    BY BookedCalm DEF BookEntry
<1>2. Unbooked(o) \in Nat /\ pos \in Nat /\ o \in Oid
    BY DEF BooksFollowExchange, TypeData, Row, Rows, Unbooked
<1>3. pos' = pos + Unbooked(o) /\ UNCHANGED link
    BY DEF BookEntry
<1> HIDE DEF Unbooked
<1>4. pos' \in Nat /\ pos' >= pos
    BY <1>2, <1>3
<1>5. \A p \in Oid : order[p] \in Row /\ order[p].booked \in Nat /\ order[p].amount \in Nat
    BY DEF TypeData, Row
<1>6. StopInv'
  <2>1. \A p \in Oid : order[p].purpose = "stop" /\ p # link => Over(p)'
    BY <1>1 DEF StopInv, Calm
  <2>2. \A p \in Oid : order'[p].purpose = "stop" => order[p].purpose = "stop" /\ p # o
    BY <1>1, <1>2
  <2>3. link # NoOrder => link \in Oid /\ order'[link] = order[link]
    BY <1>1 DEF StopInv, TypeData
  <2> QED BY <1>2, <1>3, <1>4, <1>5, <2>1, <2>2, <2>3 DEF StopInv
<1>7. ExitInv'
  <2> SUFFICES ASSUME NEW p \in Unsettled', order'[p].purpose = "exit"
               PROVE  link' = NoOrder /\ order'[p].amount <= pos' + order'[p].booked
    BY DEF ExitInv
  <2>1. p \in Unsettled /\ p \in Oid /\ p # o /\ order'[p] = order[p]
    BY <1>1 DEF Calm, Unsettled, Rows
  <2> QED BY <1>2, <1>3, <1>4, <1>5, <2>1 DEF ExitInv
<1> QED BY <1>1, <1>6, <1>7, CalmOne

\* A sale that is booked: it fits in the position, and what it leaves behind is over.
LEMMA BookExitStep ==
    ASSUME IInv, OneInv, NEW o \in Rows, order[o].purpose \in {"exit", "stop"}, BookExit(o),
           UNCHANGED exchange
    PROVE  OneInv' /\ Calm /\ link' \in {link, NoOrder}
<1> USE DEF IInv, DataInv, OneInv, exchange
<1>1. order' = BookedRow(o)
    BY DEF BookExit
<1>2. /\ Calm /\ ExchangeInv'
      /\ \A p \in Oid : p # o => order'[p] = order[p]
      /\ order'[o].filled = order[o].filled /\ order'[o].booked = order[o].filled
      /\ order'[o].status = order[o].status /\ order'[o].purpose = order[o].purpose
      /\ order'[o].amount = order[o].amount
    BY <1>1, BookedCalm
<1>3. /\ o \in Oid /\ pos \in Nat /\ order[o].filled \in Nat /\ order[o].booked \in Nat
      /\ order[o].amount \in Nat /\ xfilled[o] \in Nat
      /\ order[o].booked <= order[o].filled /\ order[o].filled <= xfilled[o]
      /\ xfilled[o] <= order[o].amount
    BY DEF BooksFollowExchange, TypeData, Row, Rows
<1>4. Unbooked(o) = order[o].filled - order[o].booked /\ Unbooked(o) \in Nat
    BY <1>3 DEF Unbooked
<1>5. \A p \in Oid : order[p] \in Row /\ order[p].booked \in Nat /\ order[p].amount \in Nat
    BY DEF TypeData, Row
\* Either there is nothing to book, or the order still counts on the position.
<1>6. Unbooked(o) # 0 =>
          /\ order[o].amount <= pos + order[o].booked
          /\ order[o].purpose = "stop" => link = o
          /\ order[o].purpose = "exit" => link = NoOrder /\ o \in Unsettled
  <2>1. CASE order[o].purpose = "stop"
    <3>1. o # link => xfilled[o] = order[o].booked
      BY <1>3, <2>1 DEF StopInv, Over
    <3>2. link = o => o # NoOrder /\ order[o].amount <= pos + order[o].booked
      BY <1>3 DEF StopInv, NoOrder, Oid
    <3> QED BY <1>3, <1>4, <2>1, <3>1, <3>2
  <2>2. CASE order[o].purpose = "exit"
    <3>1. o \notin Unsettled => order[o].filled = order[o].booked
      BY <2>2, SettledFacts
    <3>2. o \in Unsettled => link = NoOrder /\ order[o].amount <= pos + order[o].booked
      BY <2>2 DEF ExitInv
    <3> QED BY <1>3, <1>4, <2>2, <3>1, <3>2
  <2> QED BY <2>1, <2>2
\* What is left is zero when the order was filled to its amount, and dust when it ended.
<1>7. CASE Unbooked(o) = 0 \/ pos = 0
  <2>1. UNCHANGED <<pos, link>>
    BY <1>7 DEF BookExit
  <2>2. Unbooked(o) = 0
    BY <1>3, <1>4, <1>6, <1>7
  <2>3. \A p \in Oid : order'[p].booked = order[p].booked /\ order'[p].amount = order[p].amount
                       /\ order'[p].purpose = order[p].purpose
    BY <1>2, <1>3, <1>4, <2>2
  <2>4. StopInv'
    BY <1>2, <2>1, <2>3 DEF StopInv, Calm, TypeData, NoOrder
  <2>5. ExitInv'
    <3> SUFFICES ASSUME NEW p \in Unsettled', order'[p].purpose = "exit"
                 PROVE  link' = NoOrder /\ order'[p].amount <= pos' + order'[p].booked
      BY DEF ExitInv
    <3>1. p \in Unsettled /\ p \in Oid
      BY <1>2 DEF Calm, Unsettled, Rows
    <3> QED BY <2>1, <2>3, <3>1 DEF ExitInv
  <2> QED BY <1>2, <2>1, <2>4, <2>5, CalmOne
<1>8. CASE Unbooked(o) # 0 /\ pos # 0
  <2>. DEFINE rest == pos - Unbooked(o)
  <2>1. Unbooked(o) <= pos /\ rest \in Nat
    BY <1>3, <1>4, <1>6, <1>8
  <2>2. /\ pos' = IF Gone(o, rest) THEN 0 ELSE rest
        /\ link' = IF Gone(o, rest) THEN NoOrder ELSE link
    BY <1>8, <2>1 DEF BookExit
  <2>3. rest + order'[o].booked = pos + order[o].booked
    BY <1>2, <1>3, <1>4
  \* The position goes only when the order cannot be filled any more.
  <2>4. Gone(o, rest) => ~Active(o) /\ xfilled[o] = order[o].filled
    <3>1. CASE rest = 0
      <4>1. order[o].filled >= order[o].amount
        BY <1>2, <1>3, <1>6, <1>8, <2>3, <3>1
      <4>2. xfilled[o] = order[o].amount /\ order[o].filled = xfilled[o]
        BY <1>3, <4>1
      <4>3. order[o].amount > 0
        BY <1>3 DEF ExchangeInv
      <4> QED BY <1>3, <4>2, <4>3 DEF Active, ExchangeInv
    <3>2. CASE order[o].status \in FINAL_STATUSES
      <4>1. order[o].status # "rejected"
        BY <1>3, <1>4, <1>8, SettledFacts
      <4> QED BY <1>3, <3>2, <4>1 DEF FINAL_STATUSES, ExchangeInv, Active
    <3> QED BY <3>1, <3>2 DEF Gone
  <2>5. Gone(o, rest) => Over(o)'
    BY <1>2, <2>4 DEF Over, Active
  <2>6. StopInv'
    <3>1. ASSUME NEW p \in Oid, order'[p].purpose = "stop", p # link' PROVE Over(p)'
      <4>1. CASE p # o
        <5>1. order[p].purpose = "stop" /\ p # link
          BY <1>2, <1>6, <1>8, <2>2, <3>1, <4>1 DEF NoOrder
        <5> QED BY <1>2, <5>1 DEF StopInv, Calm
      <4>2. CASE p = o
        BY <1>2, <1>6, <1>8, <2>2, <2>5, <3>1, <4>2
      <4> QED BY <4>1, <4>2
    <3>2. ASSUME link' # NoOrder
          PROVE  /\ order'[link'].purpose = "stop" /\ pos' > 0
                 /\ order'[link'].amount <= pos' + order'[link'].booked
      <4>1. ~Gone(o, rest) /\ link' = link /\ pos' = rest
        BY <2>2, <3>2
      <4>2. link = o /\ order[o].purpose = "stop" /\ rest # 0
        BY <1>6, <1>8, <3>2, <4>1 DEF Gone
      <4> QED BY <1>2, <1>3, <1>6, <1>8, <2>1, <2>3, <4>1, <4>2
    <3> QED BY <3>1, <3>2 DEF StopInv
  <2>7. ExitInv'
    <3> SUFFICES ASSUME NEW p \in Unsettled', order'[p].purpose = "exit"
                 PROVE  link' = NoOrder /\ order'[p].amount <= pos' + order'[p].booked
      BY DEF ExitInv
    <3>1. p \in Unsettled /\ p \in Oid
      BY <1>2 DEF Calm, Unsettled, Rows
    <3>2. order[p].purpose = "exit" /\ link = NoOrder
      BY <1>2, <3>1 DEF ExitInv
    <3>3. order[o].purpose = "exit" /\ o \in Unsettled
      BY <1>3, <1>6, <1>8, <3>2 DEF NoOrder, Oid
    <3>4. p = o
      BY <3>1, <3>3 DEF AtMostOneUnsettled
    <3>5. ~Gone(o, rest) => order'[o].amount <= pos' + order'[o].booked
      BY <1>2, <1>3, <1>6, <1>8, <2>2, <2>3
    <3>6. Gone(o, rest) => order'[o].amount <= pos' + order'[o].booked
      <4>1. CASE rest = 0
        BY <1>2, <1>3, <1>6, <1>8, <2>2, <2>3, <4>1
      <4>2. CASE order[o].status \in FINAL_STATUSES
        BY <1>2, <1>3, <3>4, <4>2 DEF Unsettled, Unfinished
      <4> QED BY <4>1, <4>2 DEF Gone
    <3> QED BY <2>2, <3>2, <3>4, <3>5, <3>6
  <2> QED BY <1>2, <2>2, <2>6, <2>7, CalmOne
<1> QED BY <1>7, <1>8

\* A new order is the only one with an open fate, and a new stop has none.
LEMMA NewStep ==
    ASSUME IInv, OneInv, HasRoom, NEW purpose \in Purposes, NEW amount \in Nat \ {0},
           NewOrder(purpose, amount), UNCHANGED <<pos, link, exchange>>,
           purpose # "stop" => AllSettled,
           purpose = "exit" => link = NoOrder /\ amount <= pos
    PROVE  /\ OneInv' /\ NextOid \in Oid
           /\ order'[NextOid].purpose = purpose /\ order'[NextOid].amount = amount
           /\ order'[NextOid].status = "pending"
           /\ \A o \in Rows : order'[o].purpose = order[o].purpose
           /\ purpose = "stop" => Unsettled' \subseteq Unsettled
           /\ purpose # "stop" => Unsettled' \subseteq {NextOid}
<1> USE DEF IInv, DataInv, OneInv, exchange
<1>. DEFINE n == NextOid
            row == [purpose |-> purpose, status |-> "pending", amount |-> amount,
                    filled |-> 0, booked |-> 0]
<1>1. n \in Oid /\ n \notin Rows /\ order[n].purpose = "none" /\ xstate[n] = "none" /\ xfilled[n] = 0
    BY DEF NextOid, HasRoom, Rows, FreshInv
<1>2. order' = [order EXCEPT ![n] = row]
    BY DEF NewOrder
<1> HIDE DEF n
<1>3. order'[n] = row /\ \A p \in Oid : p # n => order'[p] = order[p]
    BY <1>1, <1>2 DEF TypeData
<1>4. /\ order'[n].purpose = purpose /\ order'[n].amount = amount /\ order'[n].status = "pending"
      /\ order'[n].filled = 0 /\ order'[n].booked = 0
    BY <1>3
<1> HIDE DEF row
<1>a. \A p \in Oid : p # n => order'[p] = order[p]
    BY <1>3
<1>5. \A o \in Rows : order'[o] = order[o]
    BY <1>1, <1>a DEF Rows
<1>6. Unsettled' \subseteq Unsettled \cup (IF purpose = "stop" THEN {} ELSE {n})
  <2> SUFFICES ASSUME NEW p \in Unsettled', p # n \/ purpose = "stop" PROVE p \in Unsettled
    OBVIOUS
  <2>1. p # n
    BY <1>4 DEF Unsettled
  <2> QED BY <1>a, <2>1 DEF Unsettled, Unfinished, Rows
<1>7. AtMostOneUnsettled'
    BY <1>6 DEF AtMostOneUnsettled, AllSettled
<1>8. ExchangeInv'
  <2> SUFFICES ASSUME NEW p \in Oid
               PROVE  /\ order'[p].status = "final" => xstate[p] = "done" /\ order'[p].filled = xfilled[p]
                      /\ xstate[p] \in {"none", "inflight"} => xfilled[p] = 0
                      /\ xstate[p] = "open" => xfilled[p] < order'[p].amount
                      /\ order'[p].purpose # "none" => order'[p].amount > 0
    BY DEF ExchangeInv
  <2>1. CASE p # n
    BY <1>a, <2>1 DEF ExchangeInv
  <2>2. CASE p = n
    BY <1>1, <1>4, <2>2
  <2> QED BY <2>1, <2>2
<1>9. StopInv'
  <2>1. xstate'[n] = "none" /\ xfilled'[n] = order'[n].booked
    BY <1>1, <1>4
  <2>2. link # NoOrder => link \in Rows /\ link \in Oid /\ order'[link] = order[link]
    BY <1>5 DEF LinkInv, Rows
  <2>3. ASSUME NEW p \in Oid, order'[p].purpose = "stop", p # link PROVE Over(p)'
    BY <1>a, <2>1, <2>3 DEF StopInv, Over, Active
  <2> QED BY <2>2, <2>3 DEF StopInv
<1>10. ExitInv'
  <2> SUFFICES ASSUME NEW p \in Unsettled', order'[p].purpose = "exit"
               PROVE  link' = NoOrder /\ order'[p].amount <= pos' + order'[p].booked
    BY DEF ExitInv
  <2>1. CASE p = n
    BY <1>4, <2>1 DEF TypeData
  <2>2. CASE p # n
    <3>1. p \in Oid /\ p \in Unsettled /\ order'[p] = order[p]
      BY <1>6, <1>a, <2>2 DEF Unsettled, Rows
    <3> QED BY <3>1 DEF ExitInv
  <2> QED BY <2>1, <2>2
<1>11. purpose # "stop" => Unsettled' \subseteq {n}
    BY <1>6 DEF AllSettled
<1> QED BY <1>1, <1>4, <1>5, <1>6, <1>7, <1>8, <1>9, <1>10, <1>11 DEF n

\* Steps that leave the orders alone and change the position or its link.
LEMMA SameOrders ==
    ASSUME UNCHANGED <<order, exchange>>
    PROVE  Unsettled' = Unsettled /\ (ExchangeInv => ExchangeInv') /\ Calm
<1> USE DEF exchange
<1>1. Unsettled' = Unsettled
    BY DEF Unsettled, Rows, Unfinished
<1>2. ExchangeInv => ExchangeInv'
    BY DEF ExchangeInv
<1> QED BY <1>1, <1>2 DEF Calm, Over, Active

LEMMA LinkStep ==
    ASSUME IInv, OneInv, NEW o \in Oid, order[o].purpose = "stop", link = NoOrder, NoExit,
           pos > 0, order[o].amount <= pos, link' = o, UNCHANGED <<order, pos, exchange>>
    PROVE  OneInv'
<1> USE DEF IInv, DataInv, OneInv, exchange
<1>1. Unsettled' = Unsettled /\ ExchangeInv' /\ Calm
    BY SameOrders
<1>2. order[o].amount \in Nat /\ order[o].booked \in Nat /\ pos \in Nat
    BY DEF TypeData, Row
<1>3. StopInv'
    BY <1>1, <1>2 DEF StopInv, Over, Active, NoOrder, Oid
<1>4. ExitInv'
    BY <1>1 DEF ExitInv, NoExit
<1> QED BY <1>1, <1>3, <1>4, CalmOne

LEMMA UnlinkStep ==
    ASSUME IInv, OneInv, NEW o \in Oid, Over(o), ClearLink(o), UNCHANGED exchange
    PROVE  OneInv' /\ Calm /\ link' \in {link, NoOrder} /\ link' # o
<1> USE DEF IInv, DataInv, OneInv, exchange, ClearLink
<1>1. Unsettled' = Unsettled /\ ExchangeInv' /\ Calm
    BY SameOrders
<1>2. StopInv'
    BY DEF StopInv, Over, Active
<1>3. ExitInv'
    BY <1>1 DEF ExitInv
<1> QED BY <1>1, <1>2, <1>3, CalmOne DEF NoOrder, Oid

LEMMA DustStep ==
    ASSUME IInv, OneInv, AllSettled, IsDust, WriteOffDust, UNCHANGED exchange
    PROVE  OneInv' /\ Calm
<1> USE DEF IInv, DataInv, OneInv, exchange, WriteOffDust
<1>1. Unsettled' = Unsettled /\ ExchangeInv' /\ Calm
    BY SameOrders
<1>2. StopInv'
    BY DEF StopInv, Over, Active, IsDust
<1>3. ExitInv'
    BY <1>1 DEF ExitInv, AllSettled
<1> QED BY <1>1, <1>2, <1>3, CalmOne

\* An order that is sent can be filled from here on.
LEMMA SendStep ==
    ASSUME IInv, OneInv, CallInv, Send
    PROVE  OneInv' /\ Unsettled' = Unsettled
<1> USE DEF IInv, DataInv, OneInv, db
<1>1. /\ ctl.pc = "send" /\ ctl.cur \in Oid /\ xstate[ctl.cur] = "none"
      /\ order[ctl.cur].status = "pending" /\ order[ctl.cur].purpose # "none"
    BY DEF Send, At, CtlInv, OnOrder, Labels, Rows
<1>2. Unsettled' = Unsettled
    BY DEF Send, Unsettled, Rows, Unfinished
<1>3. /\ xstate'[ctl.cur] = "inflight" /\ UNCHANGED <<order, pos, link, xfilled>>
      /\ \A p \in Oid : p # ctl.cur => xstate'[p] = xstate[p]
    BY <1>1 DEF Send, TypeData
<1>4. ExchangeInv'
  <2> SUFFICES ASSUME NEW p \in Oid
               PROVE  /\ order[p].status = "final" => xstate'[p] = "done" /\ order[p].filled = xfilled[p]
                      /\ xstate'[p] \in {"none", "inflight"} => xfilled[p] = 0
                      /\ xstate'[p] = "open" => xfilled[p] < order[p].amount
                      /\ order[p].purpose # "none" => order[p].amount > 0
    BY <1>3 DEF ExchangeInv
  <2> QED BY <1>1, <1>3 DEF ExchangeInv
<1>5. StopInv'
  <2>1. order[ctl.cur].purpose = "stop" => link = ctl.cur
    BY <1>1 DEF CallInv, LinkedInv
  <2> QED BY <1>1, <1>3, <2>1 DEF StopInv, Over, Active
<1>6. ExitInv'
    BY <1>2, <1>3 DEF ExitInv
<1>7. AtMostOneUnsettled'
    BY <1>2 DEF AtMostOneUnsettled
<1> QED BY <1>2, <1>4, <1>5, <1>6, <1>7

\* What the exchange does on its own, and what a cancel does.
LEMMA MoveStep ==
    ASSUME IInv, OneInv, NEW o \in Oid,
           \/ Land(o) \/ Lose(o) \/ Close(o) \/ Tick(o)
           \/ \E k \in 1..order[o].amount : Fill(o, k)
           \/ xstate' \in {xstate, Canceled(o)} /\ UNCHANGED <<db, xfilled>>
    PROVE  OneInv' /\ Calm /\ UNCHANGED <<order, pos, link>>
<1> USE DEF IInv, DataInv, db, exchange
<1>1. UNCHANGED <<order, pos, link>>
    BY DEF Land, Lose, Close, Tick, Fill
<1>2. ExchangeMoves
  <2> USE DEF ExchangeMoves
  <2>0. \A p \in Oid : xstate[p] = "open" => xfilled[p] < order[p].amount
    BY DEF OneInv, ExchangeInv
  <2>1. CASE Land(o) \/ Lose(o) \/ Close(o) \/ Tick(o)
    BY <2>0, <2>1 DEF Land, Lose, Close, Tick, TypeData
  <2>2. ASSUME NEW k \in 1..order[o].amount, Fill(o, k) PROVE ExchangeMoves
    <3>1. xfilled[o] \in Nat /\ order[o].amount \in Nat
      BY DEF TypeData, Row
    <3> QED BY <2>0, <2>2, <3>1 DEF Fill, TypeData
  <2>3. CASE xstate' \in {xstate, Canceled(o)} /\ UNCHANGED <<db, xfilled>>
    BY <2>0, <2>3 DEF Canceled, TypeData
  <2> QED BY <2>1, <2>2, <2>3
<1> QED BY <1>1, <1>2, ExchangeStep

-----------------------------------------------------------------------------
\* What an operation may go on relying on after a step.
Kept ==
    /\ AllSettled => AllSettled'
    /\ NoExit => NoExit'
    /\ \A o \in Rows : order'[o].purpose = order[o].purpose
    /\ \A o \in Rows : Over(o) => Over(o)'
    /\ link' \in {link, NoOrder}

LEMMA CalmKept ==
    ASSUME IInv, Calm, link' \in {link, NoOrder} PROVE Kept
<1>1. (AllSettled => AllSettled') /\ (NoExit => NoExit')
    BY CalmSettled
<1>2. \A o \in Rows : o \in Oid /\ order[o].purpose # "none"
    BY DEF Rows
<1> QED BY <1>1, <1>2 DEF Calm, Kept

\* The operation ends, or an exception takes it out of _settle.
LEMMA EndCall == ASSUME End PROVE CallInv'
  BY DEF End, Idle, CallInv, KindInv, QuietInv, LinkedInv, FinishLabels, RetireLabels, BuyLabels,
         StopLabels, SweepLabels, SentLabels

LEMMA ProtectBodyCall ==
    ASSUME IInv, OneInv, Kept, ProtectBody, UNCHANGED link PROVE CallInv'
<1>1. CASE ~HasPosition
    BY <1>1, EndCall DEF ProtectBody
<1>2. CASE HasPosition
  <2>1. link # NoOrder => order'[link].purpose = "stop"
    BY DEF OneInv, StopInv, IInv, DataInv, LinkInv, Kept
  <2>2. ctl' = [Idle EXCEPT !.op = "protect", !.cur = link,
                            !.pc = IF link # NoOrder THEN "protect_state" ELSE "protect_stop"]
    BY <1>2 DEF ProtectBody
  <2>3. CASE link # NoOrder
    <3>1. ctl'.pc = "protect_state" /\ ctl'.cur = link /\ ctl'.phase = "body"
      BY <2>2, <2>3 DEF Idle
    <3> QED
      BY <2>1, <2>3, <3>1 DEF CallInv, KindInv, QuietInv, LinkedInv, FinishLabels,
         RetireLabels, BuyLabels, StopLabels, SweepLabels, SentLabels
  <2>4. CASE link = NoOrder
    <3>1. ctl'.pc = "protect_stop" /\ ctl'.phase = "body"
      BY <2>2, <2>4 DEF Idle
    <3> QED
      BY <3>1 DEF CallInv, KindInv, QuietInv, LinkedInv, FinishLabels,
         RetireLabels, BuyLabels, StopLabels, SweepLabels, SentLabels
  <2> QED BY <2>3, <2>4
<1> QED BY <1>1, <1>2

LEMMA RaiseCall ==
    ASSUME IInv, OneInv, Kept, UNCHANGED link, RaiseUnknown \/ RaiseOther PROVE CallInv'
  BY EndCall, ProtectBodyCall DEF RaiseUnknown, RaiseOther

\* A step to another label of the same operation.
LEMMA GotoCall ==
    ASSUME IInv, CallInv, Kept, NEW l \in Labels, Goto(l),
           l \in FinishLabels \cup {"settle"} => ctl.phase = "settle",
           l \in SweepLabels => ctl.phase = "sweep",
           l \in FinishLabels => order[ctl.cur].purpose \in {"entry", "exit"} /\ ctl.cur \in Rows,
           l \in BuyLabels => order[ctl.cur].purpose = "entry" /\ ctl.cur \in Rows,
           l \in {"sell_poll", "sell_book"} => order[ctl.cur].purpose = "exit" /\ ctl.cur \in Rows,
           l \in StopLabels => order[ctl.cur].purpose = "stop" /\ ctl.cur \in Rows,
           l = "retire_book" => order'[ctl.cur].status = "final",
           l = "protect_book" => order'[ctl.cur].status \in {"open", "final"},
           l \in SentLabels => order'[ctl.cur].status = "pending",
           l \in SentLabels /\ order[ctl.cur].purpose = "entry" => NoExit,
           l \in SentLabels => ctl.cur \in Rows,
           l \notin {"send", "place_link"},
           l \in {"buy_check", "sell_price"} => AllSettled,
           l \in RetireLabels => ctl.phase = "settle" \/ AllSettled,
           l \in RetireLabels \cup BuyLabels \cup {"place"} => NoExit,
           l = "sell_price" => link' = NoOrder,
           l \in RetireLabels \ {"retire"} => link \in {ctl.cur, NoOrder},
           l \in {"retire_unlink", "protect_unlink", "place_unlink"} => Over(ctl.cur)'
    PROVE  CallInv'
<1>1. /\ ctl'.pc = l /\ ctl'.cur = ctl.cur /\ ctl'.phase = ctl.phase /\ ctl'.todo = ctl.todo
      /\ ctl.todo \subseteq Rows
    BY DEF Goto, IInv, CtlInv, TypeCtl
<1>2. KindInv'
    BY <1>1 DEF KindInv, CallInv, Kept, StopLabels
<1>3. QuietInv'
    BY <1>1 DEF QuietInv, Kept
<1>4. LinkedInv'
    BY <1>1 DEF LinkedInv, Kept, Over, Active
<1> QED BY <1>2, <1>3, <1>4 DEF CallInv

LEMMA StayCall ==
    ASSUME IInv, CallInv, Kept, UNCHANGED <<ctl, pos>>,
           ctl.pc \in SentLabels \cup {"place_link", "retire_book", "protect_book"} =>
               UNCHANGED <<order, link>>
    PROVE  CallInv'
<1>1. ctl.pc \in FinishLabels \cup BuyLabels \cup {"sell_poll", "sell_book"} \cup StopLabels
          \cup SentLabels => ctl.cur \in Rows
    BY DEF IInv, CtlInv, OnOrder, Labels, FinishLabels, BuyLabels, StopLabels, RetireLabels, SentLabels
<1>2. ctl.todo \subseteq Rows
    BY DEF IInv, CtlInv
<1>3. KindInv'
    BY <1>1, <1>2 DEF KindInv, CallInv, Kept
<1>4. QuietInv'
    BY <1>1 DEF QuietInv, CallInv, Kept
<1>5. LinkedInv'
    BY <1>1 DEF LinkedInv, CallInv, Kept, RetireLabels, StopLabels, SentLabels
<1> QED BY <1>3, <1>4, <1>5 DEF CallInv

LEMMA EndPlaceCall ==
    ASSUME IInv, CallInv, Kept, EndPlace PROVE CallInv'
<1>1. CASE ctl.phase = "settle"
    BY <1>1, GotoCall DEF EndPlace, Labels, FinishLabels, RetireLabels, BuyLabels, StopLabels,
       SweepLabels, SentLabels
<1>2. CASE ctl.phase # "settle"
    BY <1>2, EndCall DEF EndPlace
<1> QED BY <1>1, <1>2

LEMMA EndRetireCall ==
    ASSUME IInv, CallInv, Kept, ctl.pc \in RetireLabels, link' = NoOrder, EndRetire PROVE CallInv'
<1>1. NoExit /\ (ctl.phase = "settle" \/ AllSettled)
    BY DEF CallInv, QuietInv
<1>2. CASE ctl.phase = "settle"
    BY <1>1, <1>2, GotoCall DEF EndRetire, Labels, FinishLabels, RetireLabels, BuyLabels, StopLabels,
       SweepLabels, SentLabels
<1>3. CASE ctl.phase # "settle"
    BY <1>1, <1>3, GotoCall DEF EndRetire, Labels, FinishLabels, RetireLabels, BuyLabels, StopLabels,
       SweepLabels, SentLabels
<1> QED BY <1>2, <1>3

-----------------------------------------------------------------------------
OrderInv == OneInv /\ CallInv

\* What a call to the exchange tells about the order: it is open, or final.
LEMMA AnsweredStep ==
    ASSUME IInv, OneInv, ctl.cur \in Rows, Answered
    PROVE  /\ OneInv' /\ Kept
           /\ Known(ctl.cur) /\ UpdateOrder(ctl.cur) =>
                 order'[ctl.cur].status = (IF xstate[ctl.cur] = "open" THEN "open" ELSE "final")
<1>1. link' \in {link, NoOrder}
    BY DEF Answered
<1>2. CASE Known(ctl.cur) /\ UpdateOrder(ctl.cur)
    BY <1>1, <1>2, UpdateStep, CalmKept DEF Answered
<1>3. CASE UNCHANGED rows
  <2>1. UNCHANGED <<order, pos, link, exchange>>
    BY <1>3 DEF Answered, rows
  <2>2. ExchangeMoves
    BY <2>1 DEF ExchangeMoves, exchange, IInv, DataInv, TypeData, OneInv, ExchangeInv
  <2>3. OneInv' /\ Calm
    BY <2>1, <2>2, ExchangeStep
  <2> QED BY <1>1, <1>2, <2>3, CalmKept
<1> QED BY <1>2, <1>3 DEF Answered

LEMMA PollCall ==
    ASSUME IInv, OrderInv, FinishPoll \/ RetirePoll \/ BuyPoll \/ BuyPollCanceled \/ SellPoll
    PROVE  OrderInv'
<1> USE DEF OrderInv
<1>1. ctl.cur \in Rows /\ ctl.pc \in {"finish_poll", "retire_poll", "buy_poll",
                                      "buy_poll_canceled", "sell_poll"}
    BY DEF FinishPoll, RetirePoll, BuyPoll, BuyPollCanceled, SellPoll, Poll, At, IInv, CtlInv,
           OnOrder, Labels
<1>2. Answered /\ UNCHANGED <<pos, link>>
    BY DEF FinishPoll, RetirePoll, BuyPoll, BuyPollCanceled, SellPoll, Poll, Answered, Known
<1>3. OneInv' /\ Kept
    BY <1>1, <1>2, AnsweredStep
<1>4. CASE RaiseUnknown
    BY <1>2, <1>3, <1>4, RaiseCall
<1>5. CASE UNCHANGED ctl
    BY <1>1, <1>2, <1>3, <1>5, StayCall DEF SentLabels
<1> USE DEF Labels, FinishLabels, RetireLabels, BuyLabels, StopLabels, SweepLabels, SentLabels
<1>6. CASE FinishPoll
  <2>1. ctl.pc = "finish_poll" /\ (Goto("finish_book") \/ UNCHANGED ctl)
    BY <1>6 DEF FinishPoll, Poll, At
  <2>2. order[ctl.cur].purpose \in {"entry", "exit"} /\ ctl.phase = "settle"
    BY <2>1 DEF CallInv, KindInv, QuietInv
  <2>3. CASE Goto("finish_book")
    BY <1>1, <1>3, <2>2, <2>3, GotoCall
  <2> QED BY <1>3, <1>5, <2>1, <2>3
<1>7. CASE RetirePoll /\ ~RaiseUnknown
  <2>1. /\ ctl.pc = "retire_poll" /\ Known(ctl.cur) /\ UpdateOrder(ctl.cur)
        /\ (Goto("retire_book") /\ xstate[ctl.cur] = "done") \/ UNCHANGED ctl
    BY <1>7 DEF RetirePoll, Poll, At, Known
  <2>2. /\ order[ctl.cur].purpose = "stop" /\ (ctl.phase = "settle" \/ AllSettled) /\ NoExit
        /\ link \in {ctl.cur, NoOrder}
    BY <2>1 DEF CallInv, KindInv, QuietInv, LinkedInv
  <2>3. xstate[ctl.cur] = "done" => order'[ctl.cur].status = "final"
    BY <1>1, <1>2, <2>1, AnsweredStep
  <2>4. CASE Goto("retire_book") /\ xstate[ctl.cur] = "done"
    BY <1>1, <1>3, <2>2, <2>3, <2>4, GotoCall
  <2> QED BY <1>3, <1>5, <2>1, <2>4
<1>8. CASE BuyPoll \/ BuyPollCanceled
  <2>1. /\ ctl.pc \in {"buy_poll", "buy_poll_canceled"}
        /\ Goto("buy_book") \/ Goto("buy_cancel") \/ UNCHANGED ctl
    BY <1>8 DEF BuyPoll, BuyPollCanceled, Poll, At
  <2>2. order[ctl.cur].purpose = "entry" /\ NoExit
    BY <2>1 DEF CallInv, KindInv, QuietInv
  <2>3. CASE Goto("buy_book")
    BY <1>1, <1>3, <2>2, <2>3, GotoCall
  <2>4. CASE Goto("buy_cancel")
    BY <1>1, <1>3, <2>2, <2>4, GotoCall
  <2> QED BY <1>3, <1>5, <2>1, <2>3, <2>4
<1>9. CASE SellPoll
  <2>1. ctl.pc = "sell_poll" /\ (Goto("sell_book") \/ Goto("sell_finally") \/ UNCHANGED ctl)
    BY <1>9 DEF SellPoll, Poll, At
  <2>2. order[ctl.cur].purpose = "exit"
    BY <2>1 DEF CallInv, KindInv
  <2>3. CASE Goto("sell_book")
    BY <1>1, <1>3, <2>2, <2>3, GotoCall
  <2>4. CASE Goto("sell_finally")
    BY <1>3, <2>4, GotoCall
  <2> QED BY <1>3, <1>5, <2>1, <2>3, <2>4
<1> QED BY <1>3, <1>4, <1>6, <1>7, <1>8, <1>9

LEMMA QueryCall ==
    ASSUME IInv, OrderInv, FinishGet \/ RetireState \/ ProtectState \/ SweepGet
    PROVE  OrderInv'
<1> USE DEF OrderInv
<1>1. ctl.cur \in Rows /\ ctl.pc \in {"finish", "retire_state", "protect_state", "sweep_get"}
    BY DEF FinishGet, RetireState, ProtectState, SweepGet, Query, At, IInv, CtlInv, OnOrder, Labels
<1>2. Answered /\ UNCHANGED <<pos, link>>
    BY DEF FinishGet, RetireState, ProtectState, SweepGet, Query, Answered
<1>3. OneInv' /\ Kept
    BY <1>1, <1>2, AnsweredStep
<1>4. CASE RaiseUnknown \/ RaiseOther
    BY <1>2, <1>3, <1>4, RaiseCall
<1> USE DEF Labels, FinishLabels, RetireLabels, BuyLabels, StopLabels, SweepLabels, SentLabels
<1>5. CASE FinishGet
  <2>1. /\ ctl.pc = "finish"
        /\ Goto("finish_cancel") \/ Goto("finish_book") \/ Goto("finish_missing") \/ Goto("settle")
    BY <1>5 DEF FinishGet, Query, At
  <2>2. order[ctl.cur].purpose \in {"entry", "exit"} /\ ctl.phase = "settle"
    BY <2>1 DEF CallInv, KindInv, QuietInv
  <2>3. CASE Goto("finish_cancel")
    BY <1>1, <1>3, <2>2, <2>3, GotoCall
  <2>4. CASE Goto("finish_book")
    BY <1>1, <1>3, <2>2, <2>4, GotoCall
  <2>5. CASE Goto("finish_missing")
    BY <1>1, <1>3, <2>2, <2>5, GotoCall
  <2>6. CASE Goto("settle")
    BY <1>1, <1>3, <2>2, <2>6, GotoCall
  <2> QED BY <1>3, <2>1, <2>3, <2>4, <2>5, <2>6
<1>6. CASE RetireState /\ ~RaiseUnknown
  <2>1. /\ ctl.pc = "retire_state"
        /\ \/ /\ Known(ctl.cur) /\ UpdateOrder(ctl.cur)
              /\ IF xstate[ctl.cur] = "done" THEN Goto("retire_book") ELSE Goto("retire_poll")
           \/ Goto("retire_missing")
    BY <1>6 DEF RetireState, Query, At
  <2>2. /\ order[ctl.cur].purpose = "stop" /\ (ctl.phase = "settle" \/ AllSettled) /\ NoExit
        /\ link \in {ctl.cur, NoOrder}
    BY <2>1 DEF CallInv, KindInv, QuietInv, LinkedInv
  <2>3. CASE Known(ctl.cur) /\ UpdateOrder(ctl.cur) /\ xstate[ctl.cur] = "done" /\ Goto("retire_book")
    <3>1. order'[ctl.cur].status = "final"
      BY <1>1, <1>2, <2>3, AnsweredStep
    <3> QED BY <1>1, <1>3, <2>2, <2>3, <3>1, GotoCall
  <2>4. CASE Goto("retire_poll")
    BY <1>1, <1>3, <2>2, <2>4, GotoCall
  <2>5. CASE Goto("retire_missing")
    BY <1>1, <1>3, <2>2, <2>5, GotoCall
  <2> QED BY <1>3, <2>1, <2>3, <2>4, <2>5
<1>7. CASE ProtectState /\ ~RaiseUnknown
  <2>1. /\ ctl.pc = "protect_state"
        /\ \/ Known(ctl.cur) /\ UpdateOrder(ctl.cur) /\ Goto("protect_book")
           \/ Goto("protect_missing")
    BY <1>7 DEF ProtectState, Query, At
  <2>2. order[ctl.cur].purpose = "stop"
    BY <2>1 DEF CallInv, KindInv
  <2>3. CASE Known(ctl.cur) /\ UpdateOrder(ctl.cur) /\ Goto("protect_book")
    <3>1. order'[ctl.cur].status \in {"open", "final"}
      BY <1>1, <1>2, <2>3, AnsweredStep
    <3> QED BY <1>1, <1>3, <2>2, <2>3, <3>1, GotoCall
  <2>4. CASE Goto("protect_missing")
    BY <1>1, <1>3, <2>2, <2>4, GotoCall
  <2> QED BY <1>3, <2>1, <2>3, <2>4
<1>8. CASE SweepGet /\ ~RaiseUnknown /\ ~RaiseOther
  <2>1. ctl.pc = "sweep_get" /\ (Goto("sweep_book") \/ Goto("sweep_missing"))
    BY <1>8 DEF SweepGet, Query, At
  <2>2. order[ctl.cur].purpose = "stop" /\ ctl.phase = "sweep"
    BY <2>1 DEF CallInv, KindInv, QuietInv
  <2>3. CASE Goto("sweep_book")
    BY <1>1, <1>3, <2>2, <2>3, GotoCall
  <2>4. CASE Goto("sweep_missing")
    BY <1>1, <1>3, <2>2, <2>4, GotoCall
  <2> QED BY <1>3, <2>1, <2>3, <2>4
<1> QED BY <1>3, <1>4, <1>5, <1>6, <1>7, <1>8

\* A rejected order is over: nothing of it was ever filled.
LEMMA RejectedOver ==
    ASSUME IInv', OneInv', NEW o \in Oid, order'[o].status = "rejected" PROVE Over(o)'
<1> USE DEF IInv, DataInv, OneInv
<1>1. xstate'[o] = "none" /\ xfilled'[o] = 0
    BY DEF RejectedMeansAbsent, ExchangeInv
<1>2. order'[o].booked = 0
    BY <1>1 DEF BooksFollowExchange, TypeData, Row
<1> QED BY <1>1, <1>2 DEF Over, Active

LEMMA ConfirmCall ==
    ASSUME IInv, OrderInv, FinishMissing \/ RetireMissing \/ ProtectMissing \/ SweepMissing
    PROVE  OrderInv'
<1> USE DEF OrderInv
<1>1. /\ ctl.cur \in Rows
      /\ ctl.pc \in {"finish_missing", "retire_missing", "protect_missing", "sweep_missing"}
    BY DEF FinishMissing, RetireMissing, ProtectMissing, SweepMissing, ConfirmMissing, At, IInv,
           CtlInv, OnOrder, Labels
<1>2. UNCHANGED <<pos, link, trades, exchange, crashes>>
    BY DEF FinishMissing, RetireMissing, ProtectMissing, SweepMissing, ConfirmMissing
<1>3. Mark(ctl.cur, "rejected") \/ Answered
    BY DEF FinishMissing, RetireMissing, ProtectMissing, SweepMissing, ConfirmMissing, Answered
<1>4. OneInv' /\ Kept
  <2>1. CASE Mark(ctl.cur, "rejected")
    <3>1. OneInv' /\ Calm
      BY <1>1, <1>2, <2>1, MarkStep DEF exchange
    <3> QED BY <1>2, <3>1, CalmKept
  <2> QED BY <1>1, <1>3, <2>1, AnsweredStep
<1>5. Mark(ctl.cur, "rejected") => order'[ctl.cur].status = "rejected"
    BY <1>1 DEF Mark, Record, IInv, DataInv, TypeData, Row, Rows
<1>6. IInv' /\ ctl.cur \in Oid
    BY <1>1, ConfirmInv DEF Rows
<1>7. CASE RaiseUnknown
    BY <1>2, <1>4, <1>7, RaiseCall
<1> USE DEF Labels, FinishLabels, RetireLabels, BuyLabels, StopLabels, SweepLabels, SentLabels
<1>8. CASE FinishMissing
  <2>1. Goto("settle") /\ ctl.pc = "finish_missing"
    BY <1>8 DEF FinishMissing, ConfirmMissing, At
  <2>2. ctl.phase = "settle"
    BY <2>1 DEF CallInv, QuietInv
  <2> QED BY <1>4, <2>1, <2>2, GotoCall
<1>9. CASE (RetireMissing \/ ProtectMissing) /\ ~RaiseUnknown
  <2>1. Mark(ctl.cur, "rejected")
    BY <1>9 DEF RetireMissing, ProtectMissing, ConfirmMissing
  <2>2. ctl'.cur = ctl.cur
    BY <1>9 DEF RetireMissing, ProtectMissing, ConfirmMissing, Goto, IInv, CtlInv, TypeCtl
  <2>3. Over(ctl.cur)'
    <3>1. \A o \in Oid : order'[o].status = "rejected" => Over(o)'
      BY <1>4, <1>6, RejectedOver
    <3> QED BY <1>5, <1>6, <2>1, <2>2, <3>1 DEF Over, Active
  <2>4. order[ctl.cur].purpose = "stop"
    BY <1>9 DEF RetireMissing, ProtectMissing, ConfirmMissing, At, CallInv, KindInv
  <2>5. CASE RetireMissing
    <3>1. Goto("retire_unlink") /\ ctl.pc = "retire_missing"
      BY <1>9, <2>5 DEF RetireMissing, ConfirmMissing, At
    <3>2. (ctl.phase = "settle" \/ AllSettled) /\ NoExit /\ link \in {ctl.cur, NoOrder}
      BY <3>1 DEF CallInv, QuietInv, LinkedInv
    <3> QED BY <1>1, <1>4, <2>3, <2>4, <3>1, <3>2, GotoCall
  <2>6. CASE ProtectMissing
    <3>1. Goto("protect_unlink")
      BY <1>9, <2>6 DEF ProtectMissing, ConfirmMissing
    <3> QED BY <1>1, <1>4, <2>3, <2>4, <3>1, GotoCall
  <2> QED BY <1>4, <1>9, <2>5, <2>6
<1>10. CASE SweepMissing /\ ~RaiseUnknown
  <2>1. Goto("sweep") /\ ctl.pc = "sweep_missing"
    BY <1>10 DEF SweepMissing, ConfirmMissing, At
  <2>2. ctl.phase = "sweep"
    BY <2>1 DEF CallInv, QuietInv
  <2> QED BY <1>4, <2>1, <2>2, GotoCall
<1> QED BY <1>4, <1>7, <1>8, <1>9, <1>10

-----------------------------------------------------------------------------
LEMMA SendCall == ASSUME IInv, OrderInv, Send PROVE OrderInv'
<1> USE DEF OrderInv
<1>1. OneInv' /\ Unsettled' = Unsettled
    BY SendStep
<1>2. /\ UNCHANGED <<order, pos, link, xfilled>> /\ ctl.pc = "send" /\ ctl.cur \in Rows
      /\ ctl' = [ctl EXCEPT !.pc = "answer"]
    BY DEF Send, At, Goto, db, IInv, CtlInv, OnOrder, Labels
<1>3. ctl'.pc = "answer" /\ ctl'.cur = ctl.cur /\ ctl'.phase = ctl.phase /\ ctl'.todo = ctl.todo
    BY <1>2 DEF IInv, CtlInv, TypeCtl
<1>4. NoExit => NoExit'
    BY <1>1, <1>2 DEF NoExit
<1>5. CallInv'
    BY <1>2, <1>3, <1>4 DEF CallInv, KindInv, QuietInv, LinkedInv, FinishLabels, RetireLabels,
       BuyLabels, StopLabels, SweepLabels, SentLabels
<1> QED BY <1>1, <1>5

\* Where the operation goes after the answer to an order it has sent.
LEMMA AfterSubmitCall ==
    ASSUME IInv, OrderInv, Kept, ctl.cur \in Rows, ctl.pc \in SentLabels, UNCHANGED link,
           Accepted \/ (Refused /\ Over(ctl.cur)') \/ Unanswered
    PROVE  CallInv'
<1> USE DEF OrderInv
<1>1. /\ order[ctl.cur].purpose \in {"entry", "exit", "stop"}
      /\ order[ctl.cur].purpose = "entry" => NoExit
    BY DEF IInv, DataInv, TypeData, Row, Rows, Purposes, CallInv, QuietInv
<1>2. CASE RaiseUnknown \/ RaiseOther
    BY <1>2, RaiseCall
<1>3. CASE EndPlace
    BY <1>3, EndPlaceCall
<1> USE DEF Labels, FinishLabels, RetireLabels, BuyLabels, StopLabels, SweepLabels, SentLabels
<1>4. CASE order[ctl.cur].purpose = "entry" /\ ~RaiseUnknown /\ ~RaiseOther
  <2>1. Goto("buy_book") \/ Goto("buy_poll")
    BY <1>4 DEF Accepted, Refused, Unanswered
  <2>2. CASE Goto("buy_book")
    BY <1>1, <1>4, <2>2, GotoCall
  <2>3. CASE Goto("buy_poll")
    BY <1>1, <1>4, <2>3, GotoCall
  <2> QED BY <2>1, <2>2, <2>3
<1>5. CASE order[ctl.cur].purpose = "exit"
  <2>1. Goto("sell_book") \/ Goto("sell_poll") \/ Goto("sell_finally")
    BY <1>5 DEF Accepted, Refused, Unanswered
  <2>2. CASE Goto("sell_book")
    BY <1>5, <2>2, GotoCall
  <2>3. CASE Goto("sell_poll")
    BY <1>5, <2>3, GotoCall
  <2>4. CASE Goto("sell_finally")
    BY <1>5, <2>4, GotoCall
  <2> QED BY <2>1, <2>2, <2>3, <2>4
<1>6. CASE order[ctl.cur].purpose = "stop" /\ ~EndPlace
  <2>1. Goto("place_unlink") /\ Over(ctl.cur)'
    BY <1>6 DEF Accepted, Refused, Unanswered
  <2> QED BY <1>6, <2>1, GotoCall
<1> QED BY <1>1, <1>2, <1>3, <1>4, <1>5, <1>6

LEMMA AnswerCall == ASSUME IInv, OrderInv, Answer PROVE OrderInv'
<1> USE DEF OrderInv
<1>1. ctl.cur \in Rows /\ ctl.cur \in Oid /\ ctl.pc = "answer" /\ ctl.pc \in SentLabels
      /\ UNCHANGED <<pos, link, xfilled>>
    BY DEF Answer, At, IInv, CtlInv, Rows, OnOrder, Labels, SentLabels
<1>2. CASE Known(ctl.cur) /\ UpdateOrder(ctl.cur) /\ Accepted /\ NoFault /\ UNCHANGED xstate
  <2>1. Answered
    BY <1>2 DEF Answer, Answered, exchange
  <2> QED BY <1>1, <1>2, <2>1, AnsweredStep, AfterSubmitCall
<1>3. CASE /\ xstate[ctl.cur] = "inflight" /\ Fault
           /\ xstate' = [xstate EXCEPT ![ctl.cur] = "none"]
           /\ Mark(ctl.cur, "rejected") /\ Refused
  <2>1. OneInv' /\ Calm
    BY <1>1, <1>3, MarkStep
  <2>2. Kept
    BY <1>1, <2>1, CalmKept
  <2>3. IInv' /\ order'[ctl.cur].status = "rejected"
    BY <1>1, <1>3, AnswerInv DEF Mark, Record, IInv, DataInv, TypeData, Row
  <2>4. \A o \in Oid : order'[o].status = "rejected" => Over(o)'
    BY <2>1, <2>3, RejectedOver
  <2>5. ctl'.cur = ctl.cur \/ order[ctl.cur].purpose # "stop"
    BY <1>3 DEF Refused, Goto, IInv, CtlInv, TypeCtl
  <2>6. CASE order[ctl.cur].purpose = "stop"
    <3>1. Over(ctl.cur)'
      BY <1>1, <2>3, <2>4, <2>5, <2>6 DEF Over, Active
    <3> QED BY <1>1, <1>3, <2>1, <2>2, <3>1, AfterSubmitCall
  <2>7. CASE order[ctl.cur].purpose # "stop"
    <3>1. RaiseOther \/ Goto("sell_finally")
      BY <1>1, <1>3, <2>7 DEF Refused, Rows, IInv, DataInv, TypeData, Row, Purposes
    <3>2. CASE RaiseOther
      BY <1>1, <2>1, <2>2, <3>2, RaiseCall
    <3>3. CASE Goto("sell_finally")
      BY <2>1, <2>2, <3>3, GotoCall DEF Labels, FinishLabels, RetireLabels, BuyLabels, StopLabels,
         SweepLabels, SentLabels
    <3> QED BY <3>1, <3>2, <3>3
  <2> QED BY <2>6, <2>7
<1>4. CASE (Fault \/ NoFault) /\ Goto("lookup") /\ UNCHANGED <<rows, xstate>>
  <2>1. Answered
    BY <1>4 DEF Answer, Answered, exchange
  <2>2. OneInv' /\ Kept
    BY <1>1, <2>1, AnsweredStep
  <2>3. /\ order'[ctl.cur].status = "pending"
        /\ order[ctl.cur].purpose = "entry" => NoExit
    BY <1>1, <1>4 DEF CallInv, KindInv, QuietInv, rows
  <2> QED BY <1>1, <1>4, <2>2, <2>3, GotoCall DEF Labels, FinishLabels, RetireLabels, BuyLabels,
       StopLabels, SweepLabels, SentLabels
<1> QED BY <1>2, <1>3, <1>4 DEF Answer

LEMMA LookupCall == ASSUME IInv, OrderInv, Lookup PROVE OrderInv'
<1> USE DEF OrderInv
<1>1. ctl.cur \in Rows /\ ctl.pc \in SentLabels /\ UNCHANGED <<pos, link, exchange>>
    BY DEF Lookup, At, IInv, CtlInv, OnOrder, Labels, SentLabels
<1>2. CASE Known(ctl.cur) /\ UpdateOrder(ctl.cur) /\ Accepted /\ NoFault
  <2>1. Answered
    BY <1>2 DEF Lookup, Answered
  <2> QED BY <1>1, <1>2, <2>1, AnsweredStep, AfterSubmitCall
<1>3. CASE Mark(ctl.cur, "unknown") /\ Unanswered
  <2>1. order[ctl.cur].status = "pending"
    BY <1>1 DEF CallInv, KindInv
  <2>2. OneInv' /\ Calm
    BY <1>1, <1>3, <2>1, MarkStep DEF exchange
  <2> QED BY <1>1, <1>3, <2>2, CalmKept, AfterSubmitCall
<1> QED BY <1>2, <1>3 DEF Lookup

-----------------------------------------------------------------------------
LEMMA SameStep ==
    ASSUME IInv, OneInv, UNCHANGED <<order, pos, link, exchange>> PROVE OneInv' /\ Kept
<1>1. ExchangeMoves
    BY DEF ExchangeMoves, exchange, IInv, DataInv, TypeData, OneInv, ExchangeInv
<1> QED BY <1>1, ExchangeStep, CalmKept

LEMMA SettleNextCall == ASSUME IInv, OrderInv, SettleNext PROVE OrderInv'
<1> USE DEF OrderInv
<1>1. OneInv' /\ Kept /\ UNCHANGED <<order, link>>
    BY SameStep DEF SettleNext, db
<1>2. ctl.phase = "settle" /\ ctl.pc = "settle"
    BY DEF SettleNext, At, CallInv, QuietInv
<1>3. ctl.todo \subseteq Rows
    BY DEF IInv, CtlInv
<1> USE DEF FinishLabels, RetireLabels, BuyLabels, StopLabels, SweepLabels, SentLabels
<1>4. CASE /\ ctl.todo # {}
           /\ ctl' = [ctl EXCEPT !.pc = "finish", !.cur = First(ctl.todo),
                                 !.todo = @ \ {First(@)}]
  <2>1. First(ctl.todo) \in ctl.todo
    BY <1>4 DEF First
  <2> HIDE DEF First
  <2>2. /\ ctl'.pc = "finish" /\ ctl'.cur \in ctl.todo /\ ctl'.phase = "settle"
        /\ ctl'.todo \subseteq ctl.todo
    BY <1>2, <1>4, <2>1 DEF IInv, CtlInv, TypeCtl
  <2>3. \A o \in ctl.todo : order'[o].purpose \in {"entry", "exit"}
    BY <1>1, <1>2 DEF CallInv, KindInv
  <2> QED BY <1>1, <2>2, <2>3 DEF CallInv, KindInv, QuietInv, LinkedInv
<1>5. CASE RaiseUnknown
    BY <1>1, <1>5, RaiseCall
<1>6. CASE AllSettled /\ ctl' = [ctl EXCEPT !.phase = "body", !.pc = "buy_check"]
  <2>1. ctl'.pc = "buy_check" /\ ctl'.phase = "body"
    BY <1>6 DEF IInv, CtlInv, TypeCtl
  <2> QED BY <1>1, <1>6, <2>1 DEF CallInv, KindInv, QuietInv, LinkedInv, Kept
<1>7. CASE End
    BY <1>1, <1>7, EndCall
<1>8. CASE AllSettled /\ ctl' = [ctl EXCEPT !.phase = "body", !.pc = "retire"]
  <2>1. ctl'.pc = "retire" /\ ctl'.phase = "body"
    BY <1>8 DEF IInv, CtlInv, TypeCtl
  <2>2. NoExit
    BY <1>8 DEF AllSettled, NoExit
  <2> QED BY <1>1, <1>8, <2>1, <2>2 DEF CallInv, KindInv, QuietInv, LinkedInv, Kept
<1>9. CASE ProtectBody
    BY <1>1, <1>9, ProtectBodyCall
<1>10. CASE ctl' = [ctl EXCEPT !.phase = "sweep", !.pc = "sweep", !.todo = OrphanStops]
  <2>1. ctl'.pc = "sweep" /\ ctl'.phase = "sweep" /\ ctl'.todo = OrphanStops
    BY <1>10 DEF IInv, CtlInv, TypeCtl
  <2> QED BY <1>1, <2>1 DEF CallInv, KindInv, QuietInv, LinkedInv, OrphanStops
<1> QED BY <1>1, <1>4, <1>5, <1>6, <1>7, <1>8, <1>9, <1>10 DEF SettleNext

LEMMA FinishCancelCall == ASSUME IInv, OrderInv, FinishCancel PROVE OrderInv'
<1> USE DEF OrderInv
<1>1. ctl.pc = "finish_cancel" /\ ctl.cur \in Rows /\ ctl.cur \in Oid
    BY DEF FinishCancel, At, IInv, CtlInv, OnOrder, Labels, Rows
<1>2. OneInv' /\ Calm /\ UNCHANGED <<order, pos, link>>
    BY <1>1, MoveStep DEF FinishCancel, CancelOrder
<1>3. Kept
    BY <1>2, CalmKept
<1>4. CASE Goto("finish_poll")
  <2>1. order[ctl.cur].purpose \in {"entry", "exit"} /\ ctl.phase = "settle"
    BY <1>1 DEF CallInv, KindInv, QuietInv, FinishLabels
  <2> QED BY <1>1, <1>2, <1>3, <1>4, <2>1, GotoCall DEF Labels, FinishLabels, RetireLabels,
       BuyLabels, StopLabels, SweepLabels, SentLabels
<1>5. CASE RaiseOther
    BY <1>2, <1>3, <1>5, RaiseCall
<1> QED BY <1>4, <1>5 DEF FinishCancel

LEMMA FinishBookCall == ASSUME IInv, OrderInv, FinishBook PROVE OrderInv'
<1> USE DEF OrderInv
<1>1. /\ ctl.pc = "finish_book" /\ ctl.cur \in Rows /\ ctl.cur \in Oid
      /\ order[ctl.cur].purpose \in {"entry", "exit"} /\ ctl.phase = "settle"
      /\ UNCHANGED exchange
    BY DEF FinishBook, At, IInv, CtlInv, OnOrder, Labels, Rows, CallInv, KindInv, QuietInv,
           FinishLabels
<1> USE DEF Labels, FinishLabels, RetireLabels, BuyLabels, StopLabels, SweepLabels, SentLabels
<1>2. CASE order[ctl.cur].purpose = "entry"
  <2>1. BookEntry(ctl.cur) /\ Goto(IF Unbooked(ctl.cur) > 0 THEN "retire" ELSE "settle")
    BY <1>2 DEF FinishBook
  <2>2. OneInv' /\ Calm /\ UNCHANGED link
    BY <1>1, <1>2, <2>1, BookEntryStep DEF BookEntry
  <2>3. Kept
    BY <2>2, CalmKept
  \* An entry with something to book is the only order with an open fate.
  <2>4. CASE Unbooked(ctl.cur) > 0
    <3>1. ctl.cur \in Unsettled
      BY <1>1, <1>2, <2>4 DEF Unsettled, Unfinished, Unbooked, IInv, DataInv, TypeData, Row
    <3>2. NoExit
      BY <1>2, <3>1 DEF NoExit, AtMostOneUnsettled, OneInv
    <3>3. Goto("retire")
      BY <2>1, <2>4
    <3> QED BY <1>1, <2>2, <2>3, <3>2, <3>3, GotoCall
  <2>5. CASE ~(Unbooked(ctl.cur) > 0)
    <3>1. Goto("settle")
      BY <2>1, <2>5
    <3> QED BY <1>1, <2>2, <2>3, <3>1, GotoCall
  <2> QED BY <2>4, <2>5
<1>3. CASE order[ctl.cur].purpose = "exit"
  <2>1. BookExit(ctl.cur) /\ Goto("settle")
    BY <1>3 DEF FinishBook
  <2>2. OneInv' /\ Calm /\ link' \in {link, NoOrder}
    BY <1>1, <1>3, <2>1, BookExitStep
  <2>3. Kept
    BY <2>2, CalmKept
  <2> QED BY <1>1, <2>1, <2>2, <2>3, GotoCall
<1> QED BY <1>1, <1>2, <1>3

\* Booking a sale settles the order as far as it was seen, whatever becomes of the position.
LEMMA SaleCall ==
    ASSUME IInv, OneInv, NEW o \in Rows, order[o].purpose \in {"exit", "stop"}, BookExit(o),
           UNCHANGED exchange
    PROVE  /\ OneInv' /\ Kept
           /\ order[o].status = "final" =>
                 xstate'[o] = "done" /\ xfilled'[o] = order'[o].booked
<1>1. OneInv' /\ Calm /\ link' \in {link, NoOrder}
    BY BookExitStep
<1>2. order'[o].booked = order[o].filled
    BY BookedCalm DEF BookExit
<1>3. order[o].status = "final" => xstate[o] = "done" /\ order[o].filled = xfilled[o]
    BY DEF OneInv, ExchangeInv, Rows
<1> QED BY <1>1, <1>2, <1>3, CalmKept DEF exchange

LEMMA BookStepCall ==
    ASSUME IInv, OrderInv, RetireBook \/ BuyBook \/ SellBook \/ ProtectBook \/ SweepBook
    PROVE  OrderInv'
<1> USE DEF OrderInv
<1>1. ctl.cur \in Rows /\ UNCHANGED exchange
    BY DEF RetireBook, BuyBook, SellBook, ProtectBook, SweepBook, At, IInv, CtlInv, OnOrder, Labels
<1>2. CASE End /\ OneInv'
    BY <1>2, EndCall
<1> USE DEF Labels, FinishLabels, RetireLabels, BuyLabels, StopLabels, SweepLabels, SentLabels
<1>3. CASE RetireBook
  <2>1. ctl.pc = "retire_book" /\ BookExit(ctl.cur) /\ Goto("retire_unlink")
    BY <1>3 DEF RetireBook, At
  <2>2. /\ order[ctl.cur].purpose = "stop" /\ order[ctl.cur].status = "final" /\ NoExit
        /\ (ctl.phase = "settle" \/ AllSettled) /\ link \in {ctl.cur, NoOrder}
    BY <2>1 DEF CallInv, KindInv, QuietInv, LinkedInv
  <2>3. OneInv' /\ Kept /\ xstate'[ctl.cur] = "done" /\ xfilled'[ctl.cur] = order'[ctl.cur].booked
    BY <1>1, <2>1, <2>2, SaleCall
  <2>4. Over(ctl.cur)'
    BY <2>1, <2>3 DEF Over, Active, Goto, IInv, CtlInv, TypeCtl
  <2> QED BY <1>1, <2>1, <2>2, <2>3, <2>4, GotoCall
<1>4. CASE BuyBook
  <2>1. ctl.pc = "buy_book" /\ BookEntry(ctl.cur) /\ (Goto("place") \/ End)
    BY <1>4 DEF BuyBook, At
  <2>2. order[ctl.cur].purpose = "entry" /\ NoExit
    BY <2>1 DEF CallInv, KindInv, QuietInv
  <2>3. OneInv' /\ Calm /\ UNCHANGED link
    BY <1>1, <2>1, <2>2, BookEntryStep DEF BookEntry
  <2>4. Kept
    BY <2>3, CalmKept
  <2>5. CASE Goto("place")
    BY <2>2, <2>3, <2>4, <2>5, GotoCall
  <2> QED BY <1>2, <2>1, <2>3, <2>5
<1>5. CASE SellBook
  <2>1. ctl.pc = "sell_book" /\ BookExit(ctl.cur) /\ Goto("sell_finally")
    BY <1>5 DEF SellBook, At
  <2>2. order[ctl.cur].purpose = "exit"
    BY <2>1 DEF CallInv, KindInv
  <2>3. OneInv' /\ Kept
    BY <1>1, <2>1, <2>2, SaleCall
  <2> QED BY <2>1, <2>3, GotoCall
<1>6. CASE ProtectBook
  <2>1. /\ ctl.pc = "protect_book" /\ BookExit(ctl.cur)
        /\ End \/ (order[ctl.cur].status # "open" /\ Goto("protect_unlink"))
    BY <1>6 DEF ProtectBook, At
  <2>2. order[ctl.cur].purpose = "stop" /\ order[ctl.cur].status \in {"open", "final"}
    BY <2>1 DEF CallInv, KindInv
  <2>3. /\ OneInv' /\ Kept
        /\ order[ctl.cur].status = "final" =>
              xstate'[ctl.cur] = "done" /\ xfilled'[ctl.cur] = order'[ctl.cur].booked
    BY <1>1, <2>1, <2>2, SaleCall
  <2>4. CASE order[ctl.cur].status = "final" /\ Goto("protect_unlink")
    <3>1. Over(ctl.cur)'
      BY <2>3, <2>4 DEF Over, Active, Goto, IInv, CtlInv, TypeCtl
    <3> QED BY <1>1, <2>2, <2>3, <2>4, <3>1, GotoCall
  <2> QED BY <1>2, <2>1, <2>2, <2>3, <2>4
<1>7. CASE SweepBook
  <2>1. ctl.pc = "sweep_book" /\ BookExit(ctl.cur) /\ Goto("sweep")
    BY <1>7 DEF SweepBook, At
  <2>2. order[ctl.cur].purpose = "stop" /\ ctl.phase = "sweep"
    BY <2>1 DEF CallInv, KindInv, QuietInv
  <2>3. OneInv' /\ Kept
    BY <1>1, <2>1, <2>2, SaleCall
  <2> QED BY <2>1, <2>2, <2>3, GotoCall
<1> QED BY <1>3, <1>4, <1>5, <1>6, <1>7

LEMMA UnlinkCall ==
    ASSUME IInv, OrderInv, RetireUnlink \/ PlaceUnlink \/ ProtectUnlink PROVE OrderInv'
<1> USE DEF OrderInv
<1>1. /\ ctl.cur \in Oid /\ ctl.pc \in {"retire_unlink", "protect_unlink", "place_unlink"}
      /\ ClearLink(ctl.cur) /\ UNCHANGED exchange
    BY DEF RetireUnlink, PlaceUnlink, ProtectUnlink, At, IInv, CtlInv, OnOrder, Labels, Rows
<1>2. Over(ctl.cur)
    BY <1>1 DEF CallInv, LinkedInv
<1>3. OneInv' /\ Calm /\ link' \in {link, NoOrder} /\ link' # ctl.cur
    BY <1>1, <1>2, UnlinkStep
<1>4. Kept
    BY <1>3, CalmKept
<1>5. CASE RetireUnlink
  <2>1. ctl.pc = "retire_unlink" /\ EndRetire
    BY <1>5 DEF RetireUnlink, At
  <2>2. link \in {ctl.cur, NoOrder}
    BY <2>1 DEF CallInv, LinkedInv, RetireLabels
  <2> QED BY <1>3, <1>4, <2>1, <2>2, EndRetireCall DEF RetireLabels
<1>6. CASE PlaceUnlink
    BY <1>3, <1>4, <1>6, EndPlaceCall DEF PlaceUnlink
<1>7. CASE ProtectUnlink
    BY <1>3, <1>4, <1>7, GotoCall DEF ProtectUnlink, Labels, FinishLabels, RetireLabels,
       BuyLabels, StopLabels, SweepLabels, SentLabels
<1> QED BY <1>5, <1>6, <1>7

LEMMA RetireCancelCall == ASSUME IInv, OrderInv, RetireCancel PROVE OrderInv'
<1> USE DEF OrderInv
<1>1. /\ ctl.pc = "retire" /\ NoExit /\ (ctl.phase = "settle" \/ AllSettled)
      /\ ctl.todo \subseteq Rows
    BY DEF RetireCancel, At, CallInv, QuietInv, RetireLabels, IInv, CtlInv
<1>2. CASE link = NoOrder /\ EndRetire /\ UNCHANGED <<db, exchange>>
  <2>1. OneInv' /\ Kept /\ UNCHANGED link
    BY <1>2, SameStep DEF db
  <2> QED BY <1>1, <1>2, <2>1, EndRetireCall DEF RetireLabels
<1>3. CASE link # NoOrder /\ CancelOrder(link) /\ GotoFor("retire_state", link)
  <2>1. link \in Rows /\ link \in Oid /\ order[link].purpose = "stop"
    BY <1>3 DEF IInv, DataInv, LinkInv, Rows, OneInv, StopInv
  <2>2. OneInv' /\ Calm /\ UNCHANGED <<order, pos, link>>
    BY <1>3, <2>1, MoveStep DEF CancelOrder
  <2>3. Kept
    BY <2>2, CalmKept
  <2>4. ctl'.pc = "retire_state" /\ ctl'.cur = link /\ ctl'.phase = ctl.phase /\ ctl'.todo = ctl.todo
    BY <1>3 DEF GotoFor, IInv, CtlInv, TypeCtl
  <2> USE DEF FinishLabels, RetireLabels, BuyLabels, StopLabels, SweepLabels, SentLabels
  <2>5. KindInv'
    BY <2>1, <2>2, <2>4 DEF CallInv, KindInv
  <2>6. QuietInv'
    BY <1>1, <2>3, <2>4 DEF QuietInv, Kept
  <2>7. LinkedInv'
    BY <2>2, <2>4 DEF LinkedInv
  <2> QED BY <2>2, <2>5, <2>6, <2>7 DEF CallInv
<1> QED BY <1>2, <1>3 DEF RetireCancel

\* A step that puts a new order in the outbox works on it next.
LEMMA NewOrderCall ==
    ASSUME IInv, OrderInv, HasRoom, NEW purpose \in Purposes, NEW amount \in Nat \ {0},
           NEW l \in Sending, NewOrder(purpose, amount), GotoFor(l, NextOid),
           UNCHANGED <<pos, link, exchange>>, NoExit,
           purpose # "stop" => AllSettled,
           purpose = "exit" => link = NoOrder /\ amount <= pos,
           purpose = "entry" => pos = 0,
           l = "send" => purpose # "stop",
           l = "place_link" => purpose = "stop" /\ link = NoOrder /\ amount <= pos /\ pos > 0
    PROVE  OrderInv'
<1> USE DEF OrderInv
<1>1. /\ OneInv' /\ NextOid \in Oid
      /\ order'[NextOid].purpose = purpose /\ order'[NextOid].amount = amount
      /\ order'[NextOid].status = "pending"
      /\ \A o \in Rows : order'[o].purpose = order[o].purpose
      /\ purpose = "stop" => Unsettled' \subseteq Unsettled
      /\ purpose # "stop" => Unsettled' \subseteq {NextOid}
    BY NewStep
<1>. DEFINE n == NextOid
<1>2. /\ ctl'.pc = l /\ ctl'.cur = n /\ ctl'.phase = ctl.phase /\ ctl'.todo = ctl.todo
      /\ ctl.todo \subseteq Rows
    BY DEF GotoFor, IInv, CtlInv, TypeCtl
<1> HIDE DEF n
<1>3. purpose # "exit" => NoExit'
  <2> SUFFICES ASSUME purpose # "exit", NEW o \in Unsettled' PROVE order'[o].purpose = "entry"
    BY DEF NoExit
  <2>1. CASE purpose = "stop"
    BY <1>1, <2>1 DEF NoExit, Unsettled, Rows
  <2>2. CASE purpose = "entry"
    BY <1>1, <2>2
  <2> QED BY <2>1, <2>2 DEF Purposes
<1> USE DEF FinishLabels, RetireLabels, BuyLabels, StopLabels, SweepLabels, SentLabels, Sending
<1>4. order'[n].purpose = purpose /\ order'[n].amount = amount /\ order'[n].status = "pending"
    BY <1>1 DEF n
<1>5. KindInv'
    BY <1>1, <1>2, <1>4 DEF CallInv, KindInv
<1>6. QuietInv'
    BY <1>2, <1>3, <1>4 DEF QuietInv
<1>7. LinkedInv'
    BY <1>2, <1>4 DEF LinkedInv
<1> QED BY <1>1, <1>5, <1>6, <1>7 DEF CallInv

LEMMA PlaceStopCall == ASSUME IInv, OrderInv, PlaceStop PROVE OrderInv'
<1> USE DEF OrderInv
<1>1. NoExit
    BY DEF PlaceStop, At, CallInv, QuietInv
<1>2. CASE EndPlace /\ UNCHANGED <<db, exchange>>
  <2>1. OneInv' /\ Kept
    BY <1>2, SameStep DEF db
  <2> QED BY <1>2, <2>1, EndPlaceCall
<1>3. CASE /\ HasPosition /\ link = NoOrder /\ HasRoom
           /\ NewOrder("stop", pos) /\ GotoFor("place_link", NextOid)
           /\ UNCHANGED <<pos, link, exchange>>
  <2>1. pos \in Nat \ {0} /\ pos <= pos
    BY <1>3 DEF HasPosition, IInv, DataInv, TypeData
  <2> QED BY <1>1, <1>3, <2>1, NewOrderCall DEF Sending, Purposes, HasPosition
<1> QED BY <1>2, <1>3 DEF PlaceStop

LEMMA LinkStopCall == ASSUME IInv, OrderInv, LinkStop PROVE OrderInv'
<1> USE DEF OrderInv
<1>1. /\ ctl.pc = "place_link" /\ ctl.cur \in Rows /\ ctl.cur \in Oid
      /\ order[ctl.cur].status = "pending" /\ UNCHANGED <<order, pos, exchange>>
    BY DEF LinkStop, At, IInv, CtlInv, OnOrder, Labels, Rows
<1>2. /\ NoExit /\ order[ctl.cur].purpose = "stop" /\ link = NoOrder /\ pos > 0
      /\ order[ctl.cur].amount <= pos
    BY <1>1 DEF CallInv, KindInv, QuietInv, LinkedInv, StopLabels, RetireLabels
<1>3. link' = ctl.cur
    BY <1>2 DEF LinkStop, HasPosition
<1>4. OneInv'
    BY <1>1, <1>2, <1>3, LinkStep
<1>5. ctl'.pc = "send" /\ ctl'.cur = ctl.cur /\ ctl'.phase = ctl.phase /\ ctl'.todo = ctl.todo
    BY DEF LinkStop, Goto, IInv, CtlInv, TypeCtl
<1>6. CallInv'
    BY <1>1, <1>2, <1>3, <1>5 DEF CallInv, KindInv, QuietInv, LinkedInv, FinishLabels,
       RetireLabels, BuyLabels, StopLabels, SweepLabels, SentLabels
<1> QED BY <1>4, <1>6

LEMMA BuyCheckCall == ASSUME IInv, OrderInv, BuyCheck PROVE OrderInv'
<1> USE DEF OrderInv
<1>1. AllSettled /\ NoExit
    BY DEF BuyCheck, At, CallInv, QuietInv, AllSettled, NoExit
<1>2. CASE RaiseOther /\ UNCHANGED <<order, pos, link, exchange>>
  <2>1. OneInv' /\ Kept
    BY <1>2, SameStep
  <2> QED BY <1>2, <2>1, RaiseCall
<1>3. CASE /\ ~HasPosition /\ EntryAmount >= MinAmount /\ HasRoom
           /\ NewOrder("entry", EntryAmount) /\ GotoFor("send", NextOid)
           /\ UNCHANGED <<pos, link, exchange>>
  <2>1. EntryAmount \in Nat \ {0} /\ pos = 0
    BY <1>3, AmountAssumption DEF HasPosition, IInv, DataInv, TypeData
  <2> QED BY <1>1, <1>3, <2>1, NewOrderCall DEF Sending, Purposes
<1> QED BY <1>2, <1>3 DEF BuyCheck

LEMMA BuyCancelCall == ASSUME IInv, OrderInv, BuyCancel PROVE OrderInv'
<1> USE DEF OrderInv
<1>1. ctl.pc = "buy_cancel" /\ ctl.cur \in Rows /\ ctl.cur \in Oid
    BY DEF BuyCancel, At, IInv, CtlInv, OnOrder, Labels, Rows
<1>2. OneInv' /\ Calm /\ UNCHANGED <<order, pos, link>>
    BY <1>1, MoveStep DEF BuyCancel, CancelOrder
<1>3. order[ctl.cur].purpose = "entry" /\ NoExit
    BY <1>1 DEF CallInv, KindInv, QuietInv, BuyLabels
<1> QED BY <1>1, <1>2, <1>3, CalmKept, GotoCall DEF BuyCancel, Labels, FinishLabels, RetireLabels,
       BuyLabels, StopLabels, SweepLabels, SentLabels

LEMMA SellPriceCall == ASSUME IInv, OrderInv, SellPrice PROVE OrderInv'
<1> USE DEF OrderInv
<1>1. AllSettled /\ NoExit /\ link = NoOrder
    BY DEF SellPrice, At, CallInv, QuietInv, LinkedInv, AllSettled, NoExit
<1>2. CASE UNCHANGED <<db, exchange>> /\ (End \/ Goto("sell_finally"))
  <2>1. OneInv' /\ Kept
    BY <1>2, SameStep DEF db
  <2>2. CASE End
    BY <2>1, <2>2, EndCall
  <2>3. CASE Goto("sell_finally")
    BY <2>1, <2>3, GotoCall DEF Labels, FinishLabels, RetireLabels, BuyLabels, StopLabels,
       SweepLabels, SentLabels
  <2> QED BY <1>2, <2>2, <2>3
<1>3. CASE IsDust /\ WriteOffDust /\ End /\ UNCHANGED exchange
    BY <1>1, <1>3, DustStep, EndCall
<1>4. CASE /\ HasPosition /\ HasRoom /\ NewOrder("exit", pos) /\ GotoFor("send", NextOid)
           /\ UNCHANGED <<pos, link, exchange>>
  <2>1. pos \in Nat \ {0} /\ pos <= pos
    BY <1>4 DEF HasPosition, IInv, DataInv, TypeData
  <2> QED BY <1>1, <1>4, <2>1, NewOrderCall DEF Sending, Purposes
<1> QED BY <1>2, <1>3, <1>4 DEF SellPrice

LEMMA SellFinallyCall == ASSUME IInv, OrderInv, SellFinally PROVE OrderInv'
<1> USE DEF OrderInv
<1>1. OneInv' /\ Kept
    BY SameStep DEF SellFinally, db
<1>2. CASE AllSettled /\ Goto("place")
  <2>1. NoExit
    BY <1>2 DEF AllSettled, NoExit
  <2> QED BY <1>1, <1>2, <2>1, GotoCall DEF Labels, FinishLabels, RetireLabels, BuyLabels,
       StopLabels, SweepLabels, SentLabels
<1>3. CASE End
    BY <1>1, <1>3, EndCall
<1> QED BY <1>2, <1>3 DEF SellFinally

LEMMA ProtectStopCall == ASSUME IInv, OrderInv, ProtectStop PROVE OrderInv'
<1> USE DEF OrderInv
<1>1. CASE AllSettled /\ IsDust /\ WriteOffDust /\ End /\ UNCHANGED exchange
    BY <1>1, DustStep, EndCall
<1>2. CASE UNCHANGED <<db, exchange>> /\ (End \/ RaiseOther \/ (AllSettled /\ Goto("place")))
  <2>1. OneInv' /\ Kept
    BY <1>2, SameStep DEF db
  <2>2. CASE End \/ RaiseOther
    BY <2>1, <2>2, EndCall DEF RaiseOther
  <2>3. CASE AllSettled /\ Goto("place")
    <3>1. NoExit
      BY <2>3 DEF AllSettled, NoExit
    <3> QED BY <2>1, <2>3, <3>1, GotoCall DEF Labels, FinishLabels, RetireLabels, BuyLabels,
         StopLabels, SweepLabels, SentLabels
  <2> QED BY <1>2, <2>2, <2>3
<1> QED BY <1>1, <1>2 DEF ProtectStop

\* The start of an operation: _settle takes the entries and exits with an open fate.
LEMMA BeginCall ==
    ASSUME IInv, OrderInv, NEW op \in Ops, BeginSettle(op), UNCHANGED <<db, exchange>>
    PROVE  OrderInv'
<1> USE DEF OrderInv
<1>1. OneInv' /\ UNCHANGED order
    BY SameStep DEF db
<1>2. ctl'.pc = "settle" /\ ctl'.phase = "settle" /\ ctl'.todo = Unsettled
    BY DEF BeginSettle
<1>3. \A o \in Unsettled : order'[o].purpose \in {"entry", "exit"}
    BY <1>1 DEF Unsettled
<1>4. CallInv'
    BY <1>2, <1>3 DEF CallInv, KindInv, QuietInv, LinkedInv, FinishLabels, RetireLabels, BuyLabels,
       StopLabels, SweepLabels, SentLabels
<1> QED BY <1>1, <1>4

LEMMA SweepCall == ASSUME IInv, OrderInv, Sweep PROVE OrderInv'
<1> USE DEF OrderInv
<1>1. ctl.phase = "sweep" /\ ctl.todo \subseteq Rows
    BY DEF Sweep, At, CallInv, QuietInv, SweepLabels, IInv, CtlInv
<1>2. CASE /\ ctl.todo # {} /\ CancelOrder(First(ctl.todo))
           /\ ctl' = [ctl EXCEPT !.pc = "sweep_get", !.cur = First(ctl.todo),
                                 !.todo = @ \ {First(@)}]
  <2>1. First(ctl.todo) \in ctl.todo
    BY <1>2 DEF First
  <2> HIDE DEF First
  <2>2. First(ctl.todo) \in Oid
    BY <1>1, <2>1 DEF Rows
  <2>3. OneInv' /\ UNCHANGED <<order, pos, link>>
    BY <1>2, <2>2, MoveStep DEF CancelOrder
  <2>4. /\ ctl'.pc = "sweep_get" /\ ctl'.cur \in ctl.todo /\ ctl'.phase = "sweep"
        /\ ctl'.todo \subseteq ctl.todo
    BY <1>1, <1>2, <2>1 DEF IInv, CtlInv, TypeCtl
  <2>5. \A o \in ctl.todo : order'[o].purpose = "stop"
    BY <1>1, <2>3 DEF CallInv, KindInv
  <2> QED BY <2>3, <2>4, <2>5 DEF CallInv, KindInv, QuietInv, LinkedInv, FinishLabels,
       RetireLabels, BuyLabels, StopLabels, SweepLabels, SentLabels
<1>3. CASE BeginSettle("protect") /\ UNCHANGED <<db, exchange>>
    BY <1>3, BeginCall DEF Ops
<1>4. CASE End /\ UNCHANGED <<db, exchange>>
    BY <1>4, SameStep, EndCall DEF db
<1> QED BY <1>2, <1>3, <1>4 DEF Sweep

LEMMA StartCall == ASSUME IInv, OrderInv, Buy \/ Sell \/ Protect \/ Reconcile PROVE OrderInv'
  BY BeginCall DEF Buy, Sell, Protect, Reconcile, Ops

LEMMA EnvironmentCall ==
    ASSUME IInv, OrderInv, NEW o \in Oid,
           \/ Land(o) \/ Lose(o) \/ Close(o) \/ Tick(o)
           \/ \E k \in 1..order[o].amount : Fill(o, k)
    PROVE  OrderInv'
<1> USE DEF OrderInv
<1>1. OneInv' /\ Calm /\ UNCHANGED <<order, pos, link>>
    BY MoveStep
<1>2. UNCHANGED ctl
    BY DEF Land, Lose, Close, Tick, Fill
<1> QED BY <1>1, <1>2, CalmKept, StayCall

LEMMA CrashCall == ASSUME IInv, OrderInv, Crash PROVE OrderInv'
  BY SameStep, EndCall DEF OrderInv, Crash, db

-----------------------------------------------------------------------------
LEMMA InitOrder == Init => OrderInv
<1> SUFFICES ASSUME Init PROVE OrderInv
    OBVIOUS
<1>1. Unsettled = {}
    BY DEF Init, Unsettled, Rows, NoRow
<1>2. OneInv
    BY <1>1 DEF Init, OneInv, ExchangeInv, AtMostOneUnsettled, StopInv, ExitInv, NoRow, NoOrder
<1>3. CallInv
    BY DEF Init, Idle, CallInv, KindInv, QuietInv, LinkedInv, FinishLabels, RetireLabels,
       BuyLabels, StopLabels, SweepLabels, SentLabels
<1> QED BY <1>2, <1>3 DEF OrderInv

LEMMA StepOrder == IInv /\ OrderInv /\ [Next]_vars => OrderInv'
<1> SUFFICES ASSUME IInv, OrderInv, [Next]_vars PROVE OrderInv'
    OBVIOUS
<1>1. CASE Settling
    BY <1>1, SettleNextCall, QueryCall, ConfirmCall, FinishCancelCall, PollCall, FinishBookCall
    DEF Settling
<1>2. CASE Stopping
    BY <1>2, RetireCancelCall, QueryCall, ConfirmCall, PollCall, BookStepCall, UnlinkCall,
       PlaceStopCall, LinkStopCall DEF Stopping
<1>3. CASE Trading
    BY <1>3, SendCall, AnswerCall, LookupCall, BuyCheckCall, PollCall, BuyCancelCall,
       BookStepCall, SellPriceCall, SellFinallyCall DEF Trading
<1>4. CASE Guarding
    BY <1>4, QueryCall, ConfirmCall, BookStepCall, UnlinkCall, ProtectStopCall, SweepCall
    DEF Guarding
<1>5. CASE Buy \/ Sell \/ Protect \/ Reconcile
    BY <1>5, StartCall
<1>6. CASE Environment
    BY <1>6, EnvironmentCall DEF Environment
<1>7. CASE Crash
    BY <1>7, CrashCall
<1>8. CASE UNCHANGED vars
    BY <1>8, SameStep, StayCall DEF vars, exchange, OrderInv
<1> QED
    BY <1>1, <1>2, <1>3, <1>4, <1>5, <1>6, <1>7, <1>8 DEF Next, Step

THEOREM OrderInvariant == Spec => [](IInv /\ OrderInv)
<1>1. Init => IInv /\ OrderInv
    BY InitInv, InitOrder
<1>2. IInv /\ OrderInv /\ [Next]_vars => (IInv /\ OrderInv)'
    BY StepInv, StepOrder
<1> QED BY <1>1, <1>2, PTL DEF Spec

\* Invariant 2 of live.py, seen from the database: whatever fails, and wherever the process
\* dies, a second entry or exit is not put in the outbox before the fate of the first is known
\* (_settle, and the question asked again by _place_stop and _protect).
THEOREM OneUnsettled == Spec => []AtMostOneUnsettled
<1>1. IInv /\ OrderInv => AtMostOneUnsettled
    BY DEF OrderInv, OneInv
<1> QED BY <1>1, OrderInvariant, PTL

\* Invariant 3 of live.py: a stop that can still sell is the one the position is linked to
\* (_place_stop links before it sends, _retire_stop and _protect unlink after they have booked).
THEOREM StopIsLinked == Spec => []LiveStopIsLinked
<1>1. IInv /\ OrderInv => LiveStopIsLinked
    BY DEF OrderInv, OneInv, StopInv, LiveStopIsLinked, Over, HasPosition, NoOrder, Oid
<1> QED BY <1>1, OrderInvariant, PTL

\* No order that can still sell is larger than what the position has left for it, across late
\* fills, repeated booking and dust (_sell, _place_stop, _book_exit).
THEOREM SalesCovered == Spec => []NeverOversized
<1>1. ASSUME IInv, OrderInv PROVE NeverOversized
  <2> USE <1>1 DEF IInv, DataInv, OrderInv, OneInv
  <2> SUFFICES ASSUME NEW o \in Oid, order[o].purpose \in {"exit", "stop"}, Active(o)
               PROVE  order[o].amount - order[o].booked <= pos
    BY DEF NeverOversized
  <2>1. order[o].amount \in Nat /\ order[o].booked \in Nat /\ pos \in Nat /\ o \in Rows
    BY DEF TypeData, Row, Rows
  <2>2. order[o].amount <= pos + order[o].booked
    <3>1. CASE order[o].purpose = "stop"
      BY <3>1 DEF StopInv, Over, NoOrder, Oid
    <3>2. CASE order[o].purpose = "exit"
      <4>1. o \in Unsettled
        BY <2>1, <3>2, SettledFacts DEF Over
      <4> QED BY <3>2, <4>1 DEF ExitInv
    <3> QED BY <3>1, <3>2
  <2> QED BY <2>1, <2>2
<1> QED BY <1>1, OrderInvariant, PTL

\* No other step puts an order on its way.
LEMMA OnlySendSends ==
    ASSUME IInv, [Next]_vars, ~Send, NEW o \in Oid, xstate[o] = "none"
    PROVE  xstate'[o] # "inflight"
<1> USE DEF IInv, DataInv
<1> USE DEF exchange
<1>1. CASE Settling
    BY <1>1 DEF Settling, SettleNext, FinishGet, FinishMissing, FinishCancel, FinishPoll,
       FinishBook, Query, ConfirmMissing, Poll, CancelOrder, Canceled, TypeData
<1>2. CASE Stopping
    BY <1>2 DEF Stopping, RetireCancel, RetireState, RetireMissing, RetirePoll, RetireBook,
       RetireUnlink, PlaceStop, LinkStop, PlaceUnlink, Query, ConfirmMissing, Poll, CancelOrder,
       Canceled, TypeData
<1>3. CASE Trading
    BY <1>3 DEF Trading, Answer, Lookup, BuyCheck, BuyPoll, BuyCancel, BuyPollCanceled, BuyBook,
       SellPrice, SellPoll, SellBook, SellFinally, Poll, CancelOrder, Canceled, TypeData
<1>4. CASE Guarding
    BY <1>4 DEF Guarding, ProtectState, ProtectMissing, ProtectBook, ProtectUnlink, ProtectStop,
       Sweep, SweepGet, SweepMissing, SweepBook, Query, ConfirmMissing, CancelOrder, Canceled,
       TypeData
<1>5. CASE Buy \/ Sell \/ Protect \/ Reconcile \/ Crash \/ UNCHANGED vars
    BY <1>5 DEF Buy, Sell, Protect, Reconcile, Crash, vars
<1>6. CASE Environment
  <2> PICK p \in Oid : \/ Land(p) \/ Lose(p) \/ Close(p) \/ Tick(p)
                       \/ \E k \in 1..order[p].amount : Fill(p, k)
    BY <1>6 DEF Environment
  <2> QED BY DEF Land, Lose, Close, Tick, Fill, TypeData
<1> QED BY <1>1, <1>2, <1>3, <1>4, <1>5, <1>6 DEF Next, Step

\* Invariant 2 of live.py, seen from the exchange: an order goes out only when no other order of
\* the market can still be filled, but for the stop of an entry that is still open (_submit).
THEOREM SentQuiet == Spec => SentIntoQuietMarket
<1>. DEFINE Quiet == \A o, p \in Oid :
         xstate[o] = "none" /\ xstate'[o] = "inflight" /\ o # p /\ Active(p)
            => order[o].purpose = "stop" /\ order[p].purpose = "entry"
<1>1. ASSUME IInv, OrderInv, Send PROVE Quiet
  <2> USE <1>1 DEF IInv, DataInv, OrderInv, OneInv
  <2> SUFFICES ASSUME NEW o \in Oid, NEW p \in Oid, xstate[o] = "none", xstate'[o] = "inflight",
                      o # p, Active(p)
               PROVE  order[o].purpose = "stop" /\ order[p].purpose = "entry"
    OBVIOUS
  <2>1. /\ o = ctl.cur /\ ctl.pc = "send" /\ o \in Rows /\ order[o].status = "pending"
    BY <1>1 DEF Send, At, TypeData, CtlInv, OnOrder, Labels
  <2>2. /\ order[o].purpose = "stop" => link = o
        /\ order[o].purpose = "entry" => pos = 0
    BY <2>1 DEF CallInv, LinkedInv
  <2>3. p \in Rows /\ order[p].purpose \in {"entry", "exit", "stop"}
    BY DEF FreshInv, Rows, Active, TypeData, Row, Purposes
  <2>4. order[o].purpose \in {"entry", "exit", "stop"}
    BY <2>1 DEF Rows, TypeData, Row, Purposes
  <2>5. order[o].purpose \in {"entry", "exit"} => o \in Unsettled
    BY <2>1 DEF Unsettled, Unfinished, FINAL_STATUSES
  <2>6. order[p].purpose \in {"entry", "exit"} => p \in Unsettled
    BY <2>3, SettledFacts DEF Over
  <2>7. order[p].purpose = "stop" => p = link /\ link # NoOrder /\ pos > 0
    BY DEF StopInv, Over, NoOrder, Oid
  <2>8. order[o].purpose = "stop"
    BY <2>2, <2>3, <2>4, <2>5, <2>6, <2>7 DEF AtMostOneUnsettled, ExitInv
  <2>9. order[p].purpose = "entry"
    BY <2>2, <2>3, <2>6, <2>7, <2>8 DEF ExitInv, NoOrder, Oid
  <2> QED BY <2>8, <2>9
<1>2. ASSUME IInv, OrderInv, [Next]_vars, ~Send PROVE Quiet
  <2>1. \A o \in Oid : xstate[o] = "none" => xstate'[o] # "inflight"
    BY <1>2, OnlySendSends
  <2> QED BY <2>1
<1>3. IInv /\ OrderInv /\ [Next]_vars => [Quiet]_vars
    BY <1>1, <1>2
<1> QED BY <1>3, OrderInvariant, PTL DEF Spec, SentIntoQuietMarket

-----------------------------------------------------------------------------
(* The account: LiveMarket implements CoinAccount *)

\* An entry is always for the whole amount, which bounds what can be bought.
AmountInv == \A o \in Oid : order[o].purpose = "entry" => order[o].amount = EntryAmount

AccountVars == <<Filled(Buying), Filled(Selling), Booked(Buying), Booked(Selling), trades, pos>>

\* The orders keep what counts; a new one has nothing filled and nothing booked.
SameAccount ==
    /\ UNCHANGED <<pos, trades, xfilled>>
    /\ \A o \in Oid : order'[o].booked = order[o].booked
    /\ \A o \in Oid : \/ order'[o].purpose = order[o].purpose /\ order'[o].amount = order[o].amount
                      \/ order[o].purpose = "none"
                         /\ (order'[o].purpose = "entry" => order'[o].amount = EntryAmount)

LEMMA OidFinite == IsFiniteSet(Oid) /\ Cardinality(Oid) = MaxOrders
<1>1. MaxOrders \in Nat
    BY BoundAssumption
<1>2. IsFiniteSet(1..MaxOrders) /\ Cardinality(1..MaxOrders) = MaxOrders
    BY <1>1, FS_Interval
<1> QED BY <1>2 DEF Oid

\* Sums over the orders of some purposes: natural numbers, and booked is at most filled.
LEMMA SumsOfNaturals ==
    ASSUME NEW f \in [Oid -> Nat], NEW g \in [Oid -> Nat], \A o \in Oid : g[o] <= f[o]
    PROVE  SumFunction(f) \in Nat /\ SumFunction(g) \in Nat /\ SumFunction(g) <= SumFunction(f)
<1>. DEFINE zero == [o \in Oid |-> 0]
<1>1. zero \in [Oid -> Int] /\ \A o \in Oid : zero[o] = 0
    OBVIOUS
<1>2. SumFunction(zero) = 0
  <2>1. SumFunction(zero) = MaxOrders * 0
    <3>. HIDE DEF zero
    <3>. QED BY <1>1, OidFinite, SumConstant
  <2>. QED BY <2>1, BoundAssumption
<1>. HIDE DEF zero
<1>3. f \in [Oid -> Int] /\ g \in [Oid -> Int] /\ \A o \in Oid : zero[o] <= g[o]
    BY <1>1
<1>4. SumFunction(f) \in Int /\ SumFunction(g) \in Int
    BY <1>3, OidFinite, SumType
<1>5. SumFunction(g) <= SumFunction(f)
    BY <1>3, OidFinite, SumMonotone
<1>6. SumFunction(zero) <= SumFunction(g)
    BY <1>1, <1>3, OidFinite, SumMonotone
<1> QED BY <1>2, <1>4, <1>5, <1>6

LEMMA SumsOfOrders ==
    ASSUME IInv, NEW P
    PROVE  /\ FilledBy(P) \in [Oid -> Int] /\ BookedBy(P) \in [Oid -> Int]
           /\ Filled(P) \in Nat /\ Booked(P) \in Nat /\ Booked(P) <= Filled(P)
<1>1. \A o \in Oid : /\ xfilled[o] \in Nat /\ order[o].booked \in Nat
                     /\ order[o].booked <= xfilled[o]
    BY DEF IInv, DataInv, TypeData, Row, BooksFollowExchange
<1>2. FilledBy(P) \in [Oid -> Nat] /\ BookedBy(P) \in [Oid -> Nat]
    BY <1>1 DEF FilledBy, BookedBy
<1>3. \A o \in Oid : BookedBy(P)[o] <= FilledBy(P)[o]
    BY <1>1 DEF FilledBy, BookedBy
<1> QED BY <1>2, <1>3, SumsOfNaturals DEF Filled, Booked

LEMMA SumsOfOrdersNext ==
    ASSUME IInv', NEW P
    PROVE  Filled(P)' \in Nat /\ Booked(P)' \in Nat /\ Booked(P)' <= Filled(P)'
<1>1. \A o \in Oid : /\ xfilled'[o] \in Nat /\ order'[o].booked \in Nat
                     /\ order'[o].booked <= xfilled'[o]
    BY DEF IInv, DataInv, TypeData, Row, BooksFollowExchange
<1>2. FilledBy(P)' \in [Oid -> Nat] /\ BookedBy(P)' \in [Oid -> Nat]
    BY <1>1 DEF FilledBy, BookedBy
<1>3. \A o \in Oid : BookedBy(P)'[o] <= FilledBy(P)'[o]
    BY <1>1 DEF FilledBy, BookedBy
<1> QED BY <1>2, <1>3, SumsOfNaturals DEF Filled, Booked

LEMMA AccountSame == ASSUME IInv, SameAccount PROVE UNCHANGED AccountVars
<1>1. ASSUME NEW P PROVE FilledBy(P)' = FilledBy(P) /\ BookedBy(P)' = BookedBy(P)
  <2>1. \A o \in Oid : order[o].purpose = "none" => xfilled[o] = 0 /\ order[o].booked = 0
    BY DEF IInv, DataInv, FreshInv, NoRow
  <2> QED BY <2>1 DEF SameAccount, FilledBy, BookedBy
<1>2. ASSUME NEW P PROVE Filled(P)' = Filled(P) /\ Booked(P)' = Booked(P)
    BY <1>1 DEF Filled, Booked
<1> QED BY <1>2 DEF AccountVars, SameAccount

\* One order is filled further or booked further.
LEMMA FilledMore ==
    ASSUME IInv, IInv', NEW P, NEW o \in Oid, order[o].purpose \in P,
           \A p \in Oid : order'[p].purpose = order[p].purpose,
           \A p \in Oid : p # o => xfilled'[p] = xfilled[p]
    PROVE  Filled(P)' = Filled(P) + (xfilled'[o] - xfilled[o])
<1>1. FilledBy(P) \in [Oid -> Int] /\ FilledBy(P)' \in [Oid -> Int]
  <2>1. FilledBy(P)' \in [Oid -> Int]
    <3>1. \A p \in Oid : xfilled'[p] \in Int
      BY DEF IInv, DataInv, TypeData
    <3> QED BY <3>1 DEF FilledBy
  <2> QED BY <2>1, SumsOfOrders
<1>2. \A p \in Oid \ {o} : FilledBy(P)[p] = FilledBy(P)'[p]
    BY DEF FilledBy
<1>3. FilledBy(P)'[o] = xfilled'[o] /\ FilledBy(P)[o] = xfilled[o]
    BY DEF FilledBy
<1> QED BY <1>1, <1>2, <1>3, OidFinite, SumExcept DEF Filled

LEMMA FilledBySame ==
    ASSUME NEW P, xfilled' = xfilled, \A p \in Oid : order'[p].purpose = order[p].purpose
    PROVE  Filled(P)' = Filled(P)
<1>1. FilledBy(P)' = FilledBy(P)
    BY DEF FilledBy
<1> QED BY <1>1 DEF Filled

LEMMA FilledElsewhere ==
    ASSUME NEW P, NEW o \in Oid, order[o].purpose \notin P,
           \A p \in Oid : order'[p].purpose = order[p].purpose,
           \A p \in Oid : p # o => xfilled'[p] = xfilled[p]
    PROVE  Filled(P)' = Filled(P)
<1>1. FilledBy(P)' = FilledBy(P)
    BY DEF FilledBy
<1> QED BY <1>1 DEF Filled

LEMMA BookedMore ==
    ASSUME IInv, IInv', NEW P, NEW o \in Oid, order[o].purpose \in P,
           \A p \in Oid : order'[p].purpose = order[p].purpose,
           \A p \in Oid : p # o => order'[p].booked = order[p].booked
    PROVE  Booked(P)' = Booked(P) + (order'[o].booked - order[o].booked)
<1>1. BookedBy(P) \in [Oid -> Int] /\ BookedBy(P)' \in [Oid -> Int]
  <2>1. BookedBy(P)' \in [Oid -> Int]
    <3>1. \A p \in Oid : order'[p].booked \in Int
      BY DEF IInv, DataInv, TypeData, Row
    <3> QED BY <3>1 DEF BookedBy
  <2> QED BY <2>1, SumsOfOrders
<1>2. \A p \in Oid \ {o} : BookedBy(P)[p] = BookedBy(P)'[p]
    BY DEF BookedBy
<1>3. BookedBy(P)'[o] = order'[o].booked /\ BookedBy(P)[o] = order[o].booked
    BY DEF BookedBy
<1> QED BY <1>1, <1>2, <1>3, OidFinite, SumExcept DEF Booked

LEMMA BookedElsewhere ==
    ASSUME NEW P, NEW o \in Oid, order[o].purpose \notin P,
           \A p \in Oid : order'[p].purpose = order[p].purpose,
           \A p \in Oid : p # o => order'[p].booked = order[p].booked
    PROVE  Booked(P)' = Booked(P)
<1>1. BookedBy(P)' = BookedBy(P)
    BY DEF BookedBy
<1> QED BY <1>1 DEF Booked

\* What is not booked yet is that of one order, when the others are over.
LEMMA OneBehind ==
    ASSUME IInv, NEW P, NEW o \in Oid, order[o].purpose \in P,
           \A p \in Oid : order[p].purpose \in P /\ p # o => xfilled[p] = order[p].booked
    PROVE  Filled(P) = Booked(P) + (xfilled[o] - order[o].booked)
<1>1. FilledBy(P) \in [Oid -> Int] /\ BookedBy(P) \in [Oid -> Int]
    BY SumsOfOrders
<1>2. \A p \in Oid \ {o} : BookedBy(P)[p] = FilledBy(P)[p]
    BY DEF FilledBy, BookedBy
<1>3. FilledBy(P)[o] = xfilled[o] /\ BookedBy(P)[o] = order[o].booked
    BY DEF FilledBy, BookedBy
<1> QED BY <1>1, <1>2, <1>3, OidFinite, SumExcept DEF Filled, Booked

LEMMA NoneBehind ==
    ASSUME NEW P, \A p \in Oid : order[p].purpose \in P => xfilled[p] = order[p].booked
    PROVE  Filled(P) = Booked(P)
<1>1. FilledBy(P) = BookedBy(P)
    BY DEF FilledBy, BookedBy
<1> QED BY <1>1 DEF Filled, Booked

\* No more can be bought than all orders of the outbox together.
LEMMA SumBound ==
    ASSUME NEW f \in [Oid -> Int], \A o \in Oid : f[o] <= EntryAmount
    PROVE  SumFunction(f) <= MaxOrders * EntryAmount /\ MaxOrders * EntryAmount \in Nat
<1>. DEFINE full == [o \in Oid |-> EntryAmount]
<1>1. EntryAmount \in Nat /\ MaxOrders \in Nat
    BY AmountAssumption, BoundAssumption
<1>2. full \in [Oid -> Int] /\ \A o \in Oid : full[o] = EntryAmount
    BY <1>1
<1>. HIDE DEF full
<1>3. SumFunction(f) <= SumFunction(full)
    BY <1>2, OidFinite, SumMonotone
<1>4. SumFunction(full) = MaxOrders * EntryAmount
    BY <1>1, <1>2, OidFinite, SumConstant
<1> QED BY <1>1, <1>3, <1>4

LEMMA BoughtBound ==
    ASSUME IInv, AmountInv
    PROVE  Filled(Buying) <= MaxOrders * EntryAmount /\ MaxOrders * EntryAmount \in Nat
<1>1. \A o \in Oid : xfilled[o] <= order[o].amount
    BY DEF IInv, DataInv, BooksFollowExchange
<1>2. \A o \in Oid : FilledBy(Buying)[o] <= EntryAmount
    BY <1>1, AmountAssumption DEF FilledBy, Buying, AmountInv
<1> QED BY <1>2, SumsOfOrders, SumBound DEF Filled

\* Which exits and stops can be filled or booked: one at the most, and it fits in the
\* position.
Settleable(o) == Active(o) \/ order[o].booked < xfilled[o]

LEMMA OneSale ==
    ASSUME IInv, OneInv, NEW o \in Oid, order[o].purpose \in Selling, Settleable(o)
    PROVE  /\ \A p \in Oid : order[p].purpose \in Selling /\ p # o =>
                 xfilled[p] = order[p].booked /\ ~Active(p)
           /\ order[o].amount <= pos + order[o].booked
<1> USE DEF IInv, DataInv, OneInv, Selling
<1>1. \A p \in Oid : /\ order[p].booked \in Nat /\ xfilled[p] \in Nat /\ order[p].amount \in Nat
                     /\ order[p].purpose # "none" => p \in Rows
    BY DEF TypeData, Row, Rows
<1>2. ~Over(o)
    BY <1>1 DEF Settleable, Over
<1>3. CASE order[o].purpose = "stop"
  <2>1. o = link /\ link # NoOrder
    BY <1>2, <1>3 DEF StopInv, NoOrder, Oid
  <2>2. order[o].amount <= pos + order[o].booked
    BY <2>1 DEF StopInv
  <2>3. ASSUME NEW p \in Oid, order[p].purpose \in Selling, p # o PROVE Over(p)
    <3>1. CASE order[p].purpose = "stop"
      BY <2>1, <2>3, <3>1 DEF StopInv
    <3>2. CASE order[p].purpose = "exit"
      <4>1. p \notin Unsettled
        BY <2>1, <3>2 DEF ExitInv
      <4> QED BY <1>1, <3>2, <4>1, SettledFacts
    <3> QED BY <2>3, <3>1, <3>2
  <2> QED BY <2>2, <2>3 DEF Over
<1>4. CASE order[o].purpose = "exit"
  <2>1. o \in Unsettled
    BY <1>1, <1>2, <1>4, SettledFacts
  <2>2. link = NoOrder /\ order[o].amount <= pos + order[o].booked
    BY <1>4, <2>1 DEF ExitInv
  <2>3. ASSUME NEW p \in Oid, order[p].purpose \in Selling, p # o PROVE Over(p)
    <3>1. CASE order[p].purpose = "stop"
      BY <2>2, <3>1 DEF StopInv, NoOrder, Oid
    <3>2. CASE order[p].purpose = "exit"
      <4>1. p \notin Unsettled
        BY <2>1, <2>3 DEF AtMostOneUnsettled
      <4> QED BY <1>1, <3>2, <4>1, SettledFacts
    <3> QED BY <2>3, <3>1, <3>2
  <2> QED BY <2>2, <2>3 DEF Over
<1> QED BY <1>3, <1>4

-----------------------------------------------------------------------------
(* The steps of the account *)

\* The types and bounds of the account, without its sums.
LEMMA AccountNumbers ==
    ASSUME IInv, AmountInv, Account!Inv
    PROVE  /\ pos \in Nat /\ Filled(Buying) \in Nat /\ Filled(Selling) \in Nat
           /\ Booked(Buying) \in Nat /\ Booked(Selling) \in Nat
           /\ Booked(Selling) <= Filled(Selling) /\ Booked(Buying) <= Filled(Buying)
           /\ MaxOrders * EntryAmount \in Nat
           /\ Filled(Buying) <= MaxOrders * EntryAmount
           /\ pos + Booked(Selling) <= Filled(Buying)
           /\ Filled(Selling) <= Booked(Selling) + pos
<1>1. /\ Filled(Buying) \in Nat /\ Filled(Selling) \in Nat
      /\ Booked(Buying) \in Nat /\ Booked(Selling) \in Nat
      /\ Booked(Selling) <= Filled(Selling) /\ Booked(Buying) <= Filled(Buying)
    BY SumsOfOrders
<1>2. /\ pos \in Nat /\ trades.sell - Booked(Selling) \in Nat
      /\ pos + (trades.sell - Booked(Selling)) + Booked(Selling) = Booked(Buying)
      /\ Filled(Selling) <= Booked(Selling) + pos
    BY DEF Account!Inv, Account!TypeOK, Account!Conservation
<1>3. pos + Booked(Selling) <= Filled(Buying)
    BY <1>1, <1>2
<1> QED BY <1>1, <1>2, <1>3, BoughtBound

LEMMA FillAccount ==
    ASSUME IInv, IInv', OneInv, AmountInv, Account!Inv,
           NEW o \in Oid, NEW k \in 1..order[o].amount, Fill(o, k)
    PROVE  Account!Next
<1>1. /\ order[o].amount \in Nat /\ xfilled[o] \in Nat /\ order[o].booked \in Nat
      /\ k \in Nat \ {0}
    BY DEF IInv, DataInv, TypeData, Row
<1>2. /\ Active(o) /\ xfilled[o] + k <= order[o].amount
      /\ UNCHANGED <<order, pos, trades>> /\ xfilled'[o] = xfilled[o] + k
      /\ \A p \in Oid : p # o => xfilled'[p] = xfilled[p]
    BY DEF Fill, db, Active, IInv, DataInv, TypeData
<1>3. ASSUME NEW P PROVE Booked(P)' = Booked(P)
  <2>1. BookedBy(P)' = BookedBy(P)
    BY <1>2 DEF BookedBy
  <2> QED BY <2>1 DEF Booked
<1>4. /\ Booked(Buying)' = Booked(Buying) /\ Booked(Selling)' = Booked(Selling)
      /\ pos' = pos /\ (trades.sell - Booked(Selling))' = trades.sell - Booked(Selling)
    BY <1>2, <1>3
<1>5. order[o].purpose \in {"entry", "exit", "stop"}
  <2>1. order[o].purpose # "none"
    BY <1>2 DEF IInv, DataInv, FreshInv, Active
  <2> QED BY <2>1 DEF IInv, DataInv, TypeData, Row, Purposes
<1>6. CASE order[o].purpose = "entry"
  <2>1. Filled(Buying)' = Filled(Buying) + (xfilled'[o] - xfilled[o])
    BY <1>2, <1>6, FilledMore DEF Buying
  <2>2. Filled(Selling)' = Filled(Selling)
    BY <1>2, <1>6, FilledElsewhere DEF Selling
  <2>3. Filled(Buying)' = Filled(Buying) + k
    BY <1>1, <1>2, <2>1, AccountNumbers
  <2>4. Filled(Buying)' <= MaxOrders * EntryAmount
    <3>1. \A p \in Oid : xfilled'[p] <= order'[p].amount /\ xfilled'[p] \in Int
      BY DEF IInv, DataInv, TypeData, BooksFollowExchange
    <3>2. \A p \in Oid : FilledBy(Buying)'[p] <= EntryAmount
      BY <1>2, <3>1, AmountAssumption DEF FilledBy, Buying, AmountInv
    <3>3. FilledBy(Buying)' \in [Oid -> Int]
      BY <3>1 DEF FilledBy
    <3> QED BY <3>2, <3>3, SumBound DEF Filled
  <2>5. Filled(Buying)' \in (Filled(Buying) + 1) .. (MaxOrders * EntryAmount)
    BY <1>1, <2>3, <2>4, AccountNumbers
  <2>6. Account!FillBuy
    BY <1>4, <2>2, <2>5 DEF Account!FillBuy
  <2> QED BY <2>6 DEF Account!Next
<1>7. CASE order[o].purpose \in {"exit", "stop"}
  <2>1. Filled(Selling)' = Filled(Selling) + (xfilled'[o] - xfilled[o])
    BY <1>2, <1>7, FilledMore DEF Selling
  <2>2. Filled(Buying)' = Filled(Buying)
    BY <1>2, <1>7, FilledElsewhere DEF Buying
  <2>3. Filled(Selling)' = Filled(Selling) + k
    BY <1>1, <1>2, <2>1, AccountNumbers
  <2>4. /\ \A p \in Oid : order[p].purpose \in Selling /\ p # o => xfilled[p] = order[p].booked
        /\ order[o].amount <= pos + order[o].booked
    BY <1>2, <1>7, OneSale DEF Selling, Settleable
  <2>5. Filled(Selling) = Booked(Selling) + (xfilled[o] - order[o].booked)
    BY <1>7, <2>4, OneBehind DEF Selling
  <2>6. (Filled(Selling) + k) - Booked(Selling) <= pos
    BY <1>1, <1>2, <2>4, <2>5, AccountNumbers
  <2>7. Filled(Selling)' \in (Filled(Selling) + 1) .. (Booked(Selling) + pos)
    BY <1>1, <2>3, <2>6, AccountNumbers
  <2>8. Account!FillSell
    BY <1>4, <2>2, <2>7 DEF Account!FillSell
  <2> QED BY <2>8 DEF Account!Next
<1> QED BY <1>5, <1>6, <1>7

LEMMA BookEntryAccount ==
    ASSUME IInv, IInv', OneInv, AmountInv, Account!Inv,
           NEW o \in Rows, order[o].purpose = "entry", BookEntry(o), UNCHANGED exchange
    PROVE  [Account!Next]_(Account!vars)
<1>. DEFINE k == Unbooked(o)
<1>1. /\ o \in Oid /\ order[o].filled \in Nat /\ order[o].booked \in Nat
      /\ order[o].booked <= order[o].filled
    BY DEF Rows, IInv, DataInv, TypeData, Row, BooksFollowExchange
<1>2. /\ order'[o].booked = order[o].filled
      /\ \A p \in Oid : order'[p].purpose = order[p].purpose
      /\ \A p \in Oid : p # o => order'[p].booked = order[p].booked
      /\ xfilled' = xfilled
    BY BookedCalm DEF BookEntry, exchange
<1>3. k \in Nat /\ k = order[o].filled - order[o].booked
    BY <1>1 DEF Unbooked
<1>4. /\ pos' = pos + k /\ trades'.sell = trades.sell
    BY DEF BookEntry, IInv, DataInv, TypeData
<1>. HIDE DEF k
<1>5. Filled(Buying)' = Filled(Buying) /\ Filled(Selling)' = Filled(Selling)
  <2>1. ASSUME NEW P PROVE Filled(P)' = Filled(P)
    BY <1>2, FilledBySame
  <2> QED BY <2>1
<1>6. Booked(Selling)' = Booked(Selling)
    BY <1>1, <1>2, BookedElsewhere DEF Selling
<1>7. Booked(Buying)' = Booked(Buying) + (order'[o].booked - order[o].booked)
    BY <1>1, <1>2, BookedMore DEF Buying
<1>8. Booked(Buying)' = Booked(Buying) + k
    BY <1>1, <1>2, <1>3, <1>7, AccountNumbers
<1>9. CASE k = 0
  <2>1. pos' = pos /\ Booked(Buying)' = Booked(Buying)
    BY <1>4, <1>8, <1>9, AccountNumbers
  <2> QED BY <1>4, <1>5, <1>6, <2>1 DEF Account!vars
<1>10. CASE k # 0
  <2>1. Booked(Buying)' <= Filled(Buying)'
    <3>1. \A P : Booked(P)' <= Filled(P)'
      BY SumsOfOrdersNext
    <3> QED BY <3>1
  <2>2. Booked(Buying) + k <= Filled(Buying)
    BY <1>5, <1>8, <2>1
  <2>3. Booked(Buying)' \in (Booked(Buying) + 1) .. Filled(Buying)
    BY <1>3, <1>8, <1>10, <2>2, AccountNumbers
  <2>4. pos' = pos + (Booked(Buying)' - Booked(Buying))
    BY <1>3, <1>4, <1>8, AccountNumbers
  <2>5. Account!BookBuy
    BY <1>4, <1>5, <1>6, <2>3, <2>4 DEF Account!BookBuy
  <2> QED BY <2>5 DEF Account!Next
<1> QED BY <1>9, <1>10

LEMMA BookExitAccount ==
    ASSUME IInv, IInv', OneInv, AmountInv, Account!Inv,
           NEW o \in Rows, order[o].purpose \in {"exit", "stop"}, BookExit(o), UNCHANGED exchange
    PROVE  [Account!Next]_(Account!vars)
<1>. DEFINE k == Unbooked(o)
<1>1. /\ o \in Oid /\ order[o].filled \in Nat /\ order[o].booked \in Nat
      /\ xfilled[o] \in Nat /\ order[o].amount \in Nat
      /\ order[o].booked <= order[o].filled /\ order[o].filled <= xfilled[o]
      /\ xfilled[o] <= order[o].amount
    BY DEF Rows, IInv, DataInv, TypeData, Row, BooksFollowExchange
<1>2. /\ order'[o].booked = order[o].filled
      /\ \A p \in Oid : order'[p].purpose = order[p].purpose
      /\ \A p \in Oid : p # o => order'[p].booked = order[p].booked
      /\ xfilled' = xfilled
    BY BookedCalm DEF BookExit, exchange
<1>3. k \in Nat /\ k = order[o].filled - order[o].booked
    BY <1>1 DEF Unbooked
<1>. HIDE DEF k
<1>4. Filled(Buying)' = Filled(Buying) /\ Filled(Selling)' = Filled(Selling)
  <2>1. ASSUME NEW P PROVE Filled(P)' = Filled(P)
    BY <1>2, FilledBySame
  <2> QED BY <2>1
<1>5. Booked(Buying)' = Booked(Buying)
    BY <1>1, <1>2, BookedElsewhere DEF Buying
<1>6. Booked(Selling)' = Booked(Selling) + k
  <2>1. Booked(Selling)' = Booked(Selling) + (order'[o].booked - order[o].booked)
    BY <1>1, <1>2, BookedMore DEF Selling
  <2> QED BY <1>1, <1>2, <1>3, <2>1, AccountNumbers
<1>7. k # 0 => k <= pos
  <2>1. ASSUME k # 0 PROVE order[o].amount <= pos + order[o].booked
    <3>1. order[o].booked < xfilled[o]
      BY <1>1, <1>3, <2>1
    <3> QED BY <1>1, <3>1, OneSale DEF Settleable, Selling
  <2> QED BY <1>1, <1>3, <2>1, AccountNumbers
<1>8. CASE k = 0
  <2>1. UNCHANGED <<pos, trades>>
    BY <1>8 DEF BookExit, k
  <2>2. Booked(Selling)' = Booked(Selling)
    BY <1>6, <1>8, AccountNumbers
  <2> QED BY <1>4, <1>5, <2>1, <2>2 DEF Account!vars
<1>9. CASE k # 0
  <2>. DEFINE gone == Gone(o, pos - k)
  <2>0. pos # 0 /\ pos - k \in Nat /\ trades.sell \in Nat /\ pos \in Nat
    BY <1>3, <1>7, <1>9, AccountNumbers DEF IInv, DataInv, TypeData
  <2>1. /\ pos' = (IF gone THEN 0 ELSE pos - k)
        /\ trades'.sell = trades.sell + (IF gone THEN pos ELSE k)
    <3>1. (IF k <= pos THEN k ELSE pos) = k
      BY <1>7, <1>9
    <3> QED BY <1>9, <2>0, <3>1 DEF BookExit, k, IInv, DataInv, TypeData
  <2>2. gone <=> (pos - k = 0 \/ (order[o].status \in FINAL_STATUSES /\ pos - k < MinAmount))
    BY DEF Gone
  <2>. HIDE DEF gone
  <2>3. Booked(Selling) + k <= Filled(Selling)
    BY <1>4, <1>6, SumsOfOrdersNext
  <2>4. CASE gone /\ pos # k
    <3>1. order[o].status = "final"
      <4>1. order[o].status \in {"final", "rejected"}
        BY <2>0, <2>2, <2>4, <1>3 DEF FINAL_STATUSES
      <4> QED BY <1>1, <1>3, <1>9, <4>1, SettledFacts
    <3>2. order[o].filled = xfilled[o]
      BY <1>1, <3>1 DEF OneInv, ExchangeInv
    <3>3. \A p \in Oid : order[p].purpose \in Selling /\ p # o => xfilled[p] = order[p].booked
      BY <1>1, <1>3, <1>9, OneSale DEF Settleable, Selling
    <3>4. Filled(Selling) = Booked(Selling) + (xfilled[o] - order[o].booked)
      BY <1>1, <3>3, OneBehind DEF Selling
    <3>5. Booked(Selling) + k = Filled(Selling)
      BY <1>3, <3>2, <3>4
    <3>6. k < pos /\ pos < k + MinAmount
      BY <1>3, <1>7, <1>9, <2>0, <2>2, <2>4, AmountAssumption
    <3>7. pos - (Filled(Selling) - Booked(Selling)) = pos - k
      BY <1>3, <3>5, AccountNumbers
    <3>8. (trades.sell - Booked(Selling))' = (trades.sell - Booked(Selling)) + (pos - k)
      BY <1>3, <1>6, <2>0, <2>1, <2>4, AccountNumbers
    <3>9. 0 < pos - k /\ pos - k < MinAmount
      BY <1>3, <2>0, <3>6, AmountAssumption
    <3>10. Account!BookSellAndDust
      BY <1>4, <1>5, <1>6, <2>1, <2>4, <3>5, <3>7, <3>8, <3>9 DEF Account!BookSellAndDust
    <3> QED BY <3>10 DEF Account!Next
  <2>5. CASE ~(gone /\ pos # k)
    <3>1. pos' = pos - k /\ trades'.sell = trades.sell + k
      BY <1>3, <2>0, <2>1, <2>2, <2>5
    <3>2. (trades.sell - Booked(Selling))' = trades.sell - Booked(Selling)
      BY <1>3, <1>6, <2>0, <3>1, AccountNumbers
    <3>3. Booked(Selling)' \in (Booked(Selling) + 1) .. Filled(Selling)
      BY <1>3, <1>6, <1>9, <2>3, AccountNumbers
    <3>4. pos' = pos - (Booked(Selling)' - Booked(Selling))
      BY <1>3, <1>6, <3>1, AccountNumbers
    <3>5. Account!BookSell
      BY <1>4, <1>5, <3>2, <3>3, <3>4 DEF Account!BookSell
    <3> QED BY <3>5 DEF Account!Next
  <2> QED BY <2>4, <2>5
<1> QED BY <1>8, <1>9

LEMMA DustAccount ==
    ASSUME IInv, IInv', OneInv, AmountInv, Account!Inv,
           AllSettled, IsDust, WriteOffDust, UNCHANGED exchange
    PROVE  Account!Next
<1>1. /\ order' = order /\ xfilled' = xfilled /\ pos' = 0 /\ trades'.sell = trades.sell + pos
      /\ pos > 0 /\ pos < MinAmount /\ link = NoOrder /\ trades.sell \in Nat
    BY DEF WriteOffDust, exchange, IsDust, HasPosition, IInv, DataInv, TypeData
<1>2. ASSUME NEW P PROVE Filled(P)' = Filled(P) /\ Booked(P)' = Booked(P)
  <2>1. FilledBy(P)' = FilledBy(P) /\ BookedBy(P)' = BookedBy(P)
    BY <1>1 DEF FilledBy, BookedBy
  <2> QED BY <2>1 DEF Filled, Booked
<1>3. Booked(Selling) = Filled(Selling)
  <2>1. ASSUME NEW p \in Oid, order[p].purpose \in Selling PROVE Over(p)
    <3>1. CASE order[p].purpose = "stop"
      BY <1>1, <3>1 DEF OneInv, StopInv, NoOrder, Oid
    <3>2. CASE order[p].purpose = "exit"
      <4>1. p \in Rows /\ p \notin Unsettled
        BY <3>2 DEF Rows, AllSettled
      <4> QED BY <3>2, <4>1, SettledFacts
    <3> QED BY <2>1, <3>1, <3>2 DEF Selling
  <2>2. Filled(Selling) = Booked(Selling)
    BY <2>1, NoneBehind DEF Over
  <2> QED BY <2>2
<1>4. (trades.sell - Booked(Selling))' = (trades.sell - Booked(Selling)) + pos
    BY <1>1, <1>2, AccountNumbers
<1>5. pos - (Filled(Selling) - Booked(Selling)) = pos
    BY <1>3, AccountNumbers
<1>6. Account!BookSellAndDust
  <2>1. Booked(Selling)' = Filled(Selling)
    BY <1>2, <1>3
  <2> QED BY <1>1, <1>2, <1>4, <1>5, <2>1 DEF Account!BookSellAndDust
<1> QED BY <1>6 DEF Account!Next

-----------------------------------------------------------------------------
(* Which step of the account a step of the broker is *)

LEMMA RowsSame ==
    ASSUME UNCHANGED <<order, pos, trades, xfilled>> PROVE SameAccount
  BY DEF SameAccount

\* What an answer does to a row.
LEMMA RecordSame ==
    ASSUME IInv, NEW o \in Rows, UNCHANGED <<pos, trades, xfilled>>,
           UpdateOrder(o) \/ \E status \in Statuses : Mark(o, status)
    PROVE  SameAccount
<1>1. o \in Oid /\ order \in [Oid -> Row] /\ order[o] \in Row
    BY DEF IInv, DataInv, TypeData, Rows
<1>2. ASSUME NEW row, Record(o, row), row.booked = order[o].booked,
             row.purpose = order[o].purpose, row.amount = order[o].amount
      PROVE  SameAccount
    BY <1>1, <1>2 DEF Record, SameAccount
<1>3. CASE UpdateOrder(o)
  <2>1. /\ Updated(o).booked = order[o].booked /\ Updated(o).purpose = order[o].purpose
        /\ Updated(o).amount = order[o].amount
    BY <1>1 DEF Updated, Row
  <2> QED BY <1>2, <1>3, <2>1 DEF UpdateOrder
<1>4. ASSUME NEW status \in Statuses, Mark(o, status) PROVE SameAccount
  <2>. DEFINE row == [order[o] EXCEPT !.status = status]
  <2>1. /\ row.booked = order[o].booked /\ row.purpose = order[o].purpose
        /\ row.amount = order[o].amount
    BY <1>1 DEF Row
  <2>2. Record(o, row)
    BY <1>4 DEF Mark
  <2>. HIDE DEF row
  <2> QED BY <1>2, <2>1, <2>2
<1> QED BY <1>3, <1>4

LEMMA NewOrderSame ==
    ASSUME IInv, HasRoom, NEW purpose \in Purposes, NEW amount, NewOrder(purpose, amount),
           purpose = "entry" => amount = EntryAmount, UNCHANGED <<pos, trades, xfilled>>
    PROVE  SameAccount
<1>1. NextOid \in Oid /\ order[NextOid].purpose = "none" /\ order[NextOid].booked = 0
    BY DEF NextOid, HasRoom, Rows, IInv, DataInv, FreshInv, NoRow
<1>2. order' = [order EXCEPT ![NextOid] = [purpose |-> purpose, status |-> "pending",
                                           amount |-> amount, filled |-> 0, booked |-> 0]]
    BY DEF NewOrder
<1> QED BY <1>1, <1>2 DEF SameAccount, IInv, DataInv, TypeData

Bookings ==
    \/ \E o \in Rows : order[o].purpose = "entry" /\ BookEntry(o)
    \/ \E o \in Rows : order[o].purpose \in {"exit", "stop"} /\ BookExit(o)
    \/ AllSettled /\ IsDust /\ WriteOffDust

LEMMA OnRows == ASSUME IInv, ctl.pc \in OnOrder PROVE ctl.cur \in Rows
  BY DEF IInv, CtlInv

\* The calls to the exchange.
LEMMA CallsSame ==
    ASSUME IInv,
           \/ FinishGet \/ FinishMissing \/ FinishPoll \/ RetireState \/ RetireMissing \/ RetirePoll
           \/ BuyPoll \/ BuyPollCanceled \/ SellPoll \/ ProtectState \/ ProtectMissing
           \/ SweepGet \/ SweepMissing \/ Answer \/ Lookup
    PROVE  SameAccount
<1>1. ctl.cur \in Rows
    BY OnRows DEF OnOrder, Labels, FinishGet, FinishMissing, FinishPoll, RetireState, RetireMissing, RetirePoll,
                  BuyPoll, BuyPollCanceled, SellPoll, ProtectState, ProtectMissing, SweepGet, SweepMissing,
                  Answer, Lookup, Query, Poll, ConfirmMissing, At
<1>2. /\ UNCHANGED <<pos, trades, xfilled>>
      /\ UNCHANGED order \/ UpdateOrder(ctl.cur) \/ Mark(ctl.cur, "rejected") \/ Mark(ctl.cur, "unknown")
    BY DEF FinishGet, FinishMissing, FinishPoll, RetireState, RetireMissing, RetirePoll,
           BuyPoll, BuyPollCanceled, SellPoll, ProtectState, ProtectMissing, SweepGet, SweepMissing,
           Answer, Lookup, Query, Poll, ConfirmMissing, exchange, rows
<1> QED BY <1>1, <1>2, RowsSame, RecordSame DEF Statuses

LEMMA BookingSteps ==
    ASSUME IInv, OrderInv,
           FinishBook \/ RetireBook \/ BuyBook \/ SellBook \/ ProtectBook \/ SweepBook
    PROVE  Bookings /\ UNCHANGED exchange
<1>1. ctl.cur \in Rows /\ UNCHANGED exchange
    BY OnRows DEF OnOrder, Labels, FinishBook, RetireBook, BuyBook, SellBook, ProtectBook, SweepBook, At
<1>2. /\ ctl.pc = "finish_book" => order[ctl.cur].purpose \in {"entry", "exit"}
      /\ ctl.pc = "buy_book" => order[ctl.cur].purpose = "entry"
      /\ ctl.pc = "sell_book" => order[ctl.cur].purpose = "exit"
      /\ ctl.pc \in {"retire_book", "protect_book", "sweep_book"} => order[ctl.cur].purpose = "stop"
    BY DEF OrderInv, CallInv, KindInv, FinishLabels, BuyLabels, StopLabels, RetireLabels
<1>3. \/ order[ctl.cur].purpose = "entry" /\ BookEntry(ctl.cur)
      \/ order[ctl.cur].purpose \in {"exit", "stop"} /\ BookExit(ctl.cur)
    BY <1>2 DEF FinishBook, RetireBook, BuyBook, SellBook, ProtectBook, SweepBook, At
<1> QED BY <1>1, <1>3 DEF Bookings

LEMMA OrderingSteps ==
    ASSUME IInv, OrderInv, PlaceStop \/ BuyCheck \/ SellPrice \/ ProtectStop
    PROVE  SameAccount \/ (Bookings /\ UNCHANGED exchange)
<1>1. CASE UNCHANGED <<order, pos, trades, xfilled>>
    BY <1>1, RowsSame
<1>2. CASE PlaceStop
  <2>1. \/ UNCHANGED <<order, pos, trades, xfilled>>
        \/ HasRoom /\ NewOrder("stop", pos) /\ UNCHANGED <<pos, trades, xfilled>>
    BY <1>2 DEF PlaceStop, db, exchange
  <2> QED BY <1>1, <2>1, NewOrderSame DEF Purposes
<1>3. CASE BuyCheck
  <2>1. \/ UNCHANGED <<order, pos, trades, xfilled>>
        \/ HasRoom /\ NewOrder("entry", EntryAmount) /\ UNCHANGED <<pos, trades, xfilled>>
    BY <1>3 DEF BuyCheck, exchange
  <2> QED BY <1>1, <2>1, NewOrderSame DEF Purposes
<1>4. CASE SellPrice
  <2>1. AllSettled
    BY <1>4 DEF SellPrice, At, OrderInv, CallInv, QuietInv
  <2>2. \/ UNCHANGED <<order, pos, trades, xfilled>>
        \/ IsDust /\ WriteOffDust /\ UNCHANGED exchange
        \/ HasRoom /\ NewOrder("exit", pos) /\ UNCHANGED <<pos, trades, xfilled>>
    BY <1>4 DEF SellPrice, db, exchange
  <2> QED BY <1>1, <2>1, <2>2, NewOrderSame DEF Purposes, Bookings
<1>5. CASE ProtectStop
  <2>1. \/ UNCHANGED <<order, pos, trades, xfilled>>
        \/ AllSettled /\ IsDust /\ WriteOffDust /\ UNCHANGED exchange
    BY <1>5 DEF ProtectStop, db, exchange
  <2> QED BY <1>1, <2>1 DEF Bookings
<1> QED BY <1>2, <1>3, <1>4, <1>5

\* Every step is of one of these kinds.
LEMMA StepKinds ==
    ASSUME IInv, OrderInv, [Next]_vars
    PROVE  \/ SameAccount
           \/ Bookings /\ UNCHANGED exchange
           \/ \E o \in Oid : \E k \in 1..order[o].amount : Fill(o, k)
<1>1. CASE UNCHANGED <<order, pos, trades, xfilled>>
    BY <1>1, RowsSame
<1>2. CASE UNCHANGED vars
    BY <1>1, <1>2 DEF vars
<1>3. CASE Buy \/ Sell \/ Protect \/ Reconcile \/ Crash
    BY <1>1, <1>3 DEF Buy, Sell, Protect, Reconcile, Crash, db, exchange
<1>4. CASE Environment
    BY <1>1, <1>4 DEF Environment, Land, Lose, Close, Tick, db, exchange
<1>5. CASE Settling
    BY <1>1, <1>5, CallsSame, BookingSteps
       DEF Settling, SettleNext, FinishCancel, CancelOrder, db, exchange
<1>6. CASE Stopping
    BY <1>1, <1>6, CallsSame, BookingSteps, OrderingSteps
       DEF Stopping, RetireCancel, RetireUnlink, LinkStop, PlaceUnlink, ClearLink, CancelOrder, db, exchange
<1>7. CASE Trading
    BY <1>1, <1>7, CallsSame, BookingSteps, OrderingSteps
       DEF Trading, Send, BuyCancel, SellFinally, CancelOrder, db, exchange
<1>8. CASE Guarding
    BY <1>1, <1>8, CallsSame, BookingSteps, OrderingSteps
       DEF Guarding, ProtectUnlink, Sweep, ClearLink, CancelOrder, db, exchange
<1> QED BY <1>2, <1>3, <1>4, <1>5, <1>6, <1>7, <1>8 DEF Next, Step

-----------------------------------------------------------------------------
(* The account along the behaviours of the broker *)

LEMMA InitAccount == Init => AmountInv /\ Account!Init
<1> SUFFICES ASSUME Init PROVE AmountInv /\ Account!Init
    OBVIOUS
<1>1. \A o \in Oid : order[o] = NoRow /\ xfilled[o] = 0
    BY DEF Init
<1>2. ASSUME NEW P PROVE Filled(P) = 0 /\ Booked(P) = 0
  <2>1. /\ FilledBy(P) \in [Oid -> Int] /\ BookedBy(P) \in [Oid -> Int]
        /\ \A o \in Oid : FilledBy(P)[o] = 0 /\ BookedBy(P)[o] = 0
    BY <1>1 DEF FilledBy, BookedBy, NoRow
  <2>2. SumFunction(FilledBy(P)) = MaxOrders * 0
    BY <2>1, OidFinite, SumConstant
  <2>3. SumFunction(BookedBy(P)) = MaxOrders * 0
    BY <2>1, OidFinite, SumConstant
  <2> QED BY <2>2, <2>3, BoundAssumption DEF Filled, Booked
<1>3. /\ Filled(Buying) = 0 /\ Filled(Selling) = 0
      /\ Booked(Buying) = 0 /\ Booked(Selling) = 0
    BY <1>2
<1>4. Account!Init
    BY <1>3 DEF Init, Account!Init
<1>5. AmountInv
    BY <1>1 DEF AmountInv, NoRow
<1> QED BY <1>4, <1>5

LEMMA AmountStep ==
    ASSUME IInv, OrderInv, AmountInv, [Next]_vars PROVE AmountInv'
<1>1. CASE SameAccount
    BY <1>1 DEF SameAccount, AmountInv
<1>2. ASSUME NEW o \in Rows, order' = BookedRow(o), UNCHANGED exchange PROVE AmountInv'
  <2>1. /\ \A p \in Oid : p # o => order'[p] = order[p]
        /\ order'[o].purpose = order[o].purpose /\ order'[o].amount = order[o].amount
    BY <1>2, BookedCalm DEF OrderInv
  <2> QED BY <2>1 DEF AmountInv
<1>3. CASE Bookings /\ UNCHANGED exchange
    BY <1>2, <1>3 DEF Bookings, BookEntry, BookExit, WriteOffDust, AmountInv
<1>4. CASE \E o \in Oid : \E k \in 1..order[o].amount : Fill(o, k)
    BY <1>4 DEF Fill, db, AmountInv
<1> QED BY <1>1, <1>3, <1>4, StepKinds

LEMMA AccountStep ==
    ASSUME IInv, IInv', OrderInv, AmountInv, Account!Inv, [Next]_vars
    PROVE  [Account!Next]_(Account!vars)
<1> USE DEF OrderInv
<1>1. CASE SameAccount
    BY <1>1, AccountSame DEF AccountVars, Account!vars
<1>2. CASE Bookings /\ UNCHANGED exchange
    BY <1>2, BookEntryAccount, BookExitAccount, DustAccount DEF Bookings
<1>3. CASE \E o \in Oid : \E k \in 1..order[o].amount : Fill(o, k)
    BY <1>3, FillAccount
<1> QED BY <1>1, <1>2, <1>3, StepKinds

\* What CoinAccount keeps, whatever makes its steps.
LEMMA AccountKept ==
    ASSUME Account!Inv, [Account!Next]_(Account!vars)
    PROVE  Account!Inv'
<1> USE AmountAssumption DEF Account!Inv, Account!TypeOK, Account!Conservation
<1>1. CASE Account!FillBuy
    BY <1>1 DEF Account!FillBuy
<1>2. CASE Account!FillSell
    BY <1>2 DEF Account!FillSell
<1>3. CASE Account!BookBuy
    BY <1>3 DEF Account!BookBuy
<1>4. CASE Account!BookSell
    BY <1>4 DEF Account!BookSell
<1>5. CASE Account!BookSellAndDust
    BY <1>5 DEF Account!BookSellAndDust
<1>6. CASE UNCHANGED Account!vars
    BY <1>6 DEF Account!vars
<1> QED BY <1>1, <1>2, <1>3, <1>4, <1>5, <1>6 DEF Account!Next

\* The inductive invariant of the account: what the exchange sold and nobody booked yet
\* still fits in the position, and that needs all that is known of the orders.
AccountInv == IInv /\ OrderInv /\ AmountInv /\ Account!Inv

LEMMA AccountInvInit == Init => AccountInv
<1>1. Account!Init => Account!Inv
    BY DEF Account!Init, Account!Inv, Account!TypeOK, Account!Conservation
<1> QED BY <1>1, InitInv, InitOrder, InitAccount DEF AccountInv

LEMMA AccountInvStep ==
    AccountInv /\ [Next]_vars => AccountInv' /\ [Account!Next]_(Account!vars)
<1> SUFFICES ASSUME AccountInv, [Next]_vars
             PROVE  AccountInv' /\ [Account!Next]_(Account!vars)
    OBVIOUS
<1> USE DEF AccountInv
<1>1. IInv' /\ OrderInv'
    BY StepInv, StepOrder
<1>2. AmountInv'
    BY AmountStep
<1>3. [Account!Next]_(Account!vars)
    BY <1>1, AccountStep
<1>4. Account!Inv'
    BY <1>3, AccountKept
<1> QED BY <1>1, <1>2, <1>3, <1>4

\* The totals over the outbox keep what CoinAccount keeps (_book_entry, _book_exit,
\* _write_off_if_dust and the fills of the exchange).
THEOREM AccountInvariant == Spec => []AccountInv
<1>1. AccountInv /\ [Next]_vars => AccountInv'
    BY AccountInvStep
<1> QED BY <1>1, AccountInvInit, PTL DEF Spec

\* Every step of the broker, the exchange and the crashes is a step of the account or leaves
\* it alone: fills are booked once, sales come out of the position, and dust is what cannot
\* be sold any more (live.py, every method that books).
THEOREM AccountImplemented == Spec => ImplementsAccount
<1>1. Init => Account!Init
    BY InitAccount
<1>2. AccountInv /\ [Next]_vars => [Account!Next]_(Account!vars)
    BY AccountInvStep
<1> QED BY <1>1, <1>2, AccountInvariant, PTL DEF Spec, ImplementsAccount, Account!Spec

\* No fill is booked twice and none gets lost: the position, the dust and the booked sales
\* together are the booked purchases (_book_entry, _book_exit, _write_off_if_dust).
THEOREM AccountConserved == Spec => []Account!Conservation
<1>1. AccountInv => Account!Conservation
    BY DEF AccountInv, Account!Inv
<1> QED BY <1>1, AccountInvariant, PTL

\* The exchange never sells a coin for the bot that the bot did not buy: the coins of the
\* user on the same account are safe (the promise in the header of live.py).
THEOREM UserCoinsSafe == Spec => []Account!OnlyOwnCoinsSold
<1>1. AccountInv => Account!OnlyOwnCoinsSold
    BY DEF AccountInv, Account!Inv, Account!TypeOK, Account!Conservation, Account!OnlyOwnCoinsSold
<1> QED BY <1>1, AccountInvariant, PTL

\* What the open sales can still sell is that of one order, and that fits in the position.
LEMMA CommittedCovered == ASSUME AccountInv PROVE CommittedSalesCovered
<1> USE DEF AccountInv, OrderInv
<1>. DEFINE zero == [o \in Oid |-> 0]
<1>1. zero \in [Oid -> Int] /\ \A o \in Oid : zero[o] = 0
    OBVIOUS
<1>. HIDE DEF zero
<1>2. SumFunction(zero) = 0
  <2>1. SumFunction(zero) = MaxOrders * 0
    BY <1>1, OidFinite, SumConstant
  <2> QED BY <2>1, BoundAssumption
<1>3. \A o \in Oid : order[o].amount \in Nat /\ xfilled[o] \in Nat /\ order[o].booked \in Nat
    BY DEF IInv, DataInv, TypeData, Row
<1>4. ToSellBy \in [Oid -> Int]
    BY <1>3 DEF ToSellBy
<1>5. CASE \A o \in Oid : order[o].purpose \in Selling => ~Active(o)
  <2>1. \A o \in Oid : ToSellBy[o] = 0
    BY <1>5 DEF ToSellBy
  <2>2. StillToSell = MaxOrders * 0
    BY <1>4, <2>1, OidFinite, SumConstant DEF StillToSell
  <2>3. StillToSell = 0
    BY <2>2, BoundAssumption
  <2> QED BY <2>3, AccountNumbers DEF CommittedSalesCovered
<1>6. ASSUME NEW o \in Oid, order[o].purpose \in Selling, Active(o) PROVE CommittedSalesCovered
  <2>1. /\ \A p \in Oid : order[p].purpose \in Selling /\ p # o =>
              xfilled[p] = order[p].booked /\ ~Active(p)
        /\ order[o].amount <= pos + order[o].booked
    BY <1>6, OneSale DEF Settleable
  <2>2. Filled(Selling) = Booked(Selling) + (xfilled[o] - order[o].booked)
    BY <1>6, <2>1, OneBehind
  <2>3. \A p \in Oid \ {o} : zero[p] = ToSellBy[p]
    BY <1>1, <2>1 DEF ToSellBy
  <2>4. ToSellBy[o] = order[o].amount - xfilled[o]
    BY <1>6 DEF ToSellBy
  <2>5. SumFunction(ToSellBy) = SumFunction(zero) + (ToSellBy[o] - zero[o])
    BY <1>1, <1>4, <2>3, OidFinite, SumExcept
  <2>6. StillToSell = order[o].amount - xfilled[o]
    BY <1>1, <1>2, <1>3, <2>4, <2>5 DEF StillToSell
  <2> QED BY <1>3, <2>1, <2>2, <2>6, AccountNumbers DEF CommittedSalesCovered
<1> QED BY <1>5, <1>6

\* The exchange never sells more than the bot bought, not even if everything that is open
\* or on its way were filled completely (_sell, _place_stop, _retire_stop).
THEOREM CommittedSales == Spec => []CommittedSalesCovered
  BY CommittedCovered, AccountInvariant, PTL

-----------------------------------------------------------------------------
(* How long a call can take: the steps it has to go *)

\* Steps from a label to the end of the call, or of the visit to one order when it is made for
\* _settle or for the sweep; an order that is not a stop is sent earlier than its stop.
rank ==
    [idle |-> 0, settle |-> 0, sweep |-> 0,
     place_unlink |-> 1, lookup |-> 2, answer |-> 3, send |-> 4, place_link |-> 5, place |-> 6,
     sell_finally |-> 7, sell_book |-> 8, sell_poll |-> 10, sell_price |-> 14,
     buy_book |-> 7, buy_poll_canceled |-> 8, buy_cancel |-> 9, buy_poll |-> 10, buy_check |-> 14,
     protect_stop |-> 7, protect_unlink |-> 8, protect_book |-> 9, protect_missing |-> 9,
     protect_state |-> 10,
     retire_unlink |-> 15, retire_book |-> 16, retire_poll |-> 17, retire_missing |-> 17,
     retire_state |-> 18, retire |-> 19,
     finish_book |-> 20, finish_poll |-> 21, finish_cancel |-> 22, finish_missing |-> 22,
     finish |-> 23,
     sweep_book |-> 1, sweep_missing |-> 1, sweep_get |-> 2]

LabelLeft(l, stop) == rank[l] + (IF l \in SentLabels /\ ~stop THEN 9 ELSE 0)

\* What comes after the visits: the body of the call; for reconcile the sweep, and _protect
\* with a _settle of its own.
StageLeft(c) ==
    IF c.phase = "settle"
    THEN 24 * Cardinality(c.todo) + (IF c.op = "reconcile" THEN 3 * MaxOrders + 46 ELSE 20)
    ELSE IF c.phase = "sweep" THEN 3 * Cardinality(c.todo) + 45
    ELSE 0

LeftOf(c, stop) == StageLeft(c) + LabelLeft(c.pc, stop)

\* Whether the operation works on a stop
OnStop == ctl.cur \in Oid /\ order[ctl.cur].purpose = "stop"

StepsLeft == LeftOf(ctl, OnStop)

\* A poll whose order is still open asks again, until its time is up.
AsksAgain ==
    /\ ctl.pc \in {"finish_poll", "retire_poll", "buy_poll", "buy_poll_canceled", "sell_poll"}
    /\ xstate[ctl.cur] = "open" /\ UpdateOrder(ctl.cur) /\ UNCHANGED ctl

\* No step of the exchange or the clock, and no answer, makes a running call longer, and each of
\* its own steps brings it nearer to its end, but for asking again.
CallAdvances ==
    [][ /\ ~At("idle") => StepsLeft' <= StepsLeft
        /\ Step => StepsLeft' < StepsLeft \/ AsksAgain ]_vars

\* The longest call
CallBounded == StepsLeft <= IF ctl.op = "reconcile" THEN 3 * MaxOrders + 70 ELSE 44

Control == [op : Ops, phase : Phases, pc : Labels, cur : Oid \cup {NoOrder}, todo : SUBSET Oid]

\* A step of the call that is one step less to go; a call that turns into one of another kind is
\* short from there.
Down == StepsLeft' < StepsLeft /\ (ctl'.op = ctl.op \/ StepsLeft' <= 44)

LEMMA RankNumbers == \A l \in Labels : rank[l] \in 0..23
BY DEF rank, Labels

LEMMA LabelNumbers ==
    ASSUME NEW l \in Labels, NEW s \in BOOLEAN
    PROVE  /\ LabelLeft(l, s) \in Nat /\ LabelLeft(l, s) >= rank[l]
           /\ l \notin SentLabels => LabelLeft(l, s) = rank[l]
           /\ l \in SentLabels => LabelLeft(l, s) <= 13
<1>1. rank[l] \in Nat
    BY RankNumbers
<1>2. l \in SentLabels => rank[l] <= 4
    BY DEF SentLabels, rank
<1> QED BY <1>1, <1>2 DEF LabelLeft

LEMMA StageNumbers ==
    ASSUME NEW c \in Control
    PROVE  /\ StageLeft(c) \in Nat /\ Cardinality(c.todo) \in Nat
           /\ c.phase = "settle" => StageLeft(c) >= 20
           /\ c.phase = "sweep" => StageLeft(c) >= 45
           /\ c.phase = "body" => StageLeft(c) = 0
<1>1. c.todo \in SUBSET Oid /\ c.phase \in Phases
    BY DEF Control
<1>2. Cardinality(c.todo) \in Nat
    BY <1>1, OidFinite, FS_Subset, FS_CardinalityType
<1>3. MaxOrders \in Nat
    BY BoundAssumption
<1> DEFINE k == Cardinality(c.todo)
<1> HIDE DEF k
<1>4. k \in Nat /\ StageLeft(c) = IF c.phase = "settle"
        THEN 24 * k + (IF c.op = "reconcile" THEN 3 * MaxOrders + 46 ELSE 20)
        ELSE IF c.phase = "sweep" THEN 3 * k + 45 ELSE 0
    BY <1>2 DEF k, StageLeft
<1> QED BY <1>1, <1>2, <1>3, <1>4 DEF Phases

LEMMA LeftNumbers ==
    ASSUME NEW c \in Control, NEW s \in BOOLEAN
    PROVE  LeftOf(c, s) \in Nat
<1>1. StageLeft(c) \in Nat /\ LabelLeft(c.pc, s) \in Nat
    BY StageNumbers, LabelNumbers DEF Control
<1> QED BY <1>1 DEF LeftOf

\* Another label of the same visit
LEMMA LabelLower ==
    ASSUME NEW c \in Control, NEW d \in Control, NEW s \in BOOLEAN, NEW t \in BOOLEAN,
           d.op = c.op, d.phase = c.phase, d.todo = c.todo,
           LabelLeft(d.pc, t) < LabelLeft(c.pc, s)
    PROVE  LeftOf(d, t) < LeftOf(c, s)
<1>1. StageLeft(d) = StageLeft(c)
    BY DEF StageLeft
<1>2. /\ StageLeft(c) \in Nat
      /\ LabelLeft(d.pc, t) \in Nat /\ LabelLeft(c.pc, s) \in Nat
    BY StageNumbers, LabelNumbers DEF Control
<1> DEFINE a == StageLeft(c)
           x == LabelLeft(d.pc, t)
           y == LabelLeft(c.pc, s)
<1> HIDE DEF a, x, y
<1>3. a \in Nat /\ x \in Nat /\ y \in Nat /\ x < y
    BY <1>2 DEF a, x, y
<1>4. a + x < a + y
    BY <1>3
<1> QED BY <1>1, <1>4 DEF LeftOf, a, x, y

\* From _settle to the body of the call
LEMMA BodyLower ==
    ASSUME NEW c \in Control, NEW d \in Control, NEW s \in BOOLEAN, NEW t \in BOOLEAN,
           c.phase = "settle", d.phase = "body", d.pc \notin SentLabels, rank[d.pc] < 20
    PROVE  LeftOf(d, t) < LeftOf(c, s) /\ LeftOf(d, t) <= 44
<1>1. /\ StageLeft(c) \in Nat /\ StageLeft(c) >= 20 /\ StageLeft(d) = 0
      /\ LabelLeft(d.pc, t) = rank[d.pc] /\ rank[d.pc] \in Nat
      /\ LabelLeft(c.pc, s) \in Nat
    BY StageNumbers, LabelNumbers, RankNumbers DEF Control
<1> QED BY <1>1 DEF LeftOf

\* To the end
LEMMA IdleLowest ==
    ASSUME NEW c \in Control, NEW s \in BOOLEAN, NEW t \in BOOLEAN,
           c.phase # "body" \/ rank[c.pc] > 0
    PROVE  LeftOf(Idle, t) = 0 /\ LeftOf(c, s) > 0
<1>1. LeftOf(Idle, t) = 0
    BY DEF Idle, LeftOf, StageLeft, LabelLeft, SentLabels, rank
<1>2. /\ StageLeft(c) \in Nat /\ (c.phase # "body" => StageLeft(c) > 0)
      /\ LabelLeft(c.pc, s) \in Nat /\ LabelLeft(c.pc, s) >= rank[c.pc] /\ rank[c.pc] \in Nat
    BY StageNumbers, LabelNumbers, RankNumbers DEF Control, Phases
<1> QED BY <1>1, <1>2 DEF LeftOf

\* The next order of the settling or of the sweep
LEMMA VisitLower ==
    ASSUME NEW c \in Control, NEW d \in Control, NEW s \in BOOLEAN, NEW t \in BOOLEAN,
           NEW o \in c.todo, d.op = c.op, d.phase = c.phase, d.todo = c.todo \ {o},
           \/ c.phase = "settle" /\ d.pc = "finish"
           \/ c.phase = "sweep" /\ d.pc = "sweep_get"
    PROVE  LeftOf(d, t) < LeftOf(c, s)
<1> DEFINE k == Cardinality(c.todo)
<1>1. IsFiniteSet(c.todo) /\ k \in Nat
    BY OidFinite, FS_Subset, FS_CardinalityType DEF Control
<1>a. Cardinality(c.todo \ {o}) = k - 1
    BY <1>1, FS_RemoveElement
<1>b. Cardinality(d.todo) \in Nat
    BY StageNumbers
<1>2. Cardinality(d.todo) = k - 1 /\ Cardinality(d.todo) \in Nat
    BY <1>a, <1>b
<1>3. LabelLeft(d.pc, t) = rank[d.pc] /\ rank["finish"] = 23 /\ rank["sweep_get"] = 2
    BY LabelNumbers DEF SentLabels, Control, rank
<1>4. LabelLeft(c.pc, s) \in Nat
    BY LabelNumbers DEF Control
<1>5. MaxOrders \in Nat
    BY BoundAssumption
<1> HIDE DEF k
<1>6. CASE c.phase = "settle" /\ d.pc = "finish"
  <2> DEFINE base == IF c.op = "reconcile" THEN 3 * MaxOrders + 46 ELSE 20
  <2>1. StageLeft(c) = 24 * k + base /\ StageLeft(d) = 24 * (k - 1) + base /\ base \in Nat
    BY <1>2, <1>5, <1>6 DEF StageLeft, k
  <2> HIDE DEF base
  <2> QED BY <1>1, <1>3, <1>4, <1>6, <2>1 DEF LeftOf
<1>7. CASE c.phase = "sweep" /\ d.pc = "sweep_get"
  <2>1. StageLeft(c) = 3 * k + 45 /\ StageLeft(d) = 3 * (k - 1) + 45
    BY <1>2, <1>7 DEF StageLeft, k
  <2> QED BY <1>1, <1>3, <1>4, <1>7, <2>1 DEF LeftOf
<1> QED BY <1>6, <1>7

\* A call begins: _settle with the one order it may find.
LEMMA BeginLeft ==
    ASSUME NEW d \in Control, NEW t \in BOOLEAN, d.phase = "settle", d.pc = "settle",
           Cardinality(d.todo) <= 1
    PROVE  LeftOf(d, t) <= IF d.op = "reconcile" THEN 3 * MaxOrders + 70 ELSE 44
<1>1. LabelLeft(d.pc, t) = 0
    BY DEF LabelLeft, rank, SentLabels
<1>2. Cardinality(d.todo) \in Nat /\ MaxOrders \in Nat
    BY StageNumbers, BoundAssumption
<1> DEFINE k == Cardinality(d.todo)
<1> HIDE DEF k
<1>3. StageLeft(d) = 24 * k + (IF d.op = "reconcile" THEN 3 * MaxOrders + 46 ELSE 20)
    BY DEF StageLeft, k
<1>4. k \in 0..1
    BY <1>2 DEF k
<1> QED BY <1>1, <1>2, <1>3, <1>4 DEF LeftOf

\* The sweep begins with the stops, all of them at the most.
LEMMA SweepLower ==
    ASSUME NEW c \in Control, NEW d \in Control, NEW s \in BOOLEAN, NEW t \in BOOLEAN,
           c.phase = "settle", c.op = "reconcile", d.phase = "sweep", d.pc = "sweep"
    PROVE  LeftOf(d, t) < LeftOf(c, s)
<1>1. LabelLeft(d.pc, t) = 0
    BY DEF LabelLeft, rank, SentLabels
<1>2. Cardinality(d.todo) <= MaxOrders
    BY OidFinite, FS_Subset DEF Control
<1>3. /\ Cardinality(d.todo) \in Nat /\ Cardinality(c.todo) \in Nat /\ LabelLeft(c.pc, s) \in Nat
      /\ MaxOrders \in Nat
    BY StageNumbers, LabelNumbers, BoundAssumption DEF Control
<1>4. /\ StageLeft(d) = 3 * Cardinality(d.todo) + 45
      /\ StageLeft(c) = 24 * Cardinality(c.todo) + (3 * MaxOrders + 46)
    BY DEF StageLeft
<1> DEFINE k == Cardinality(d.todo)
           j == Cardinality(c.todo)
           r == LabelLeft(c.pc, s)
<1> HIDE DEF k, j, r
<1>5. k \in Nat /\ j \in Nat /\ r \in Nat /\ MaxOrders \in Nat /\ k <= MaxOrders
    BY <1>2, <1>3 DEF k, j, r
<1>6. (3 * k + 45) + 0 < (24 * j + (3 * MaxOrders + 46)) + r
    BY <1>5
<1> QED BY <1>1, <1>4, <1>6 DEF LeftOf, k, j, r

\* After the sweep _protect settles once more.
LEMMA SecondSettleLower ==
    ASSUME NEW c \in Control, NEW d \in Control, NEW s \in BOOLEAN, NEW t \in BOOLEAN,
           c.phase = "sweep", d.phase = "settle", d.pc = "settle", d.op = "protect",
           Cardinality(d.todo) <= 1
    PROVE  LeftOf(d, t) < LeftOf(c, s) /\ LeftOf(d, t) <= 44
<1>1. LeftOf(d, t) <= 44 /\ LeftOf(d, t) \in Nat
    BY BeginLeft, LeftNumbers
<1>2. StageLeft(c) \in Nat /\ StageLeft(c) >= 45 /\ LabelLeft(c.pc, s) \in Nat
    BY StageNumbers, LabelNumbers DEF Control
<1> QED BY <1>1, <1>2 DEF LeftOf

LEMMA Controls ==
    ASSUME IInv, IInv'
    PROVE  ctl \in Control /\ ctl' \in Control /\ OnStop \in BOOLEAN /\ OnStop' \in BOOLEAN
BY DEF IInv, CtlInv, TypeCtl, Control, OnStop

\* Another label of the same visit
LEMMA SameVisit ==
    ASSUME IInv, IInv', ctl'.op = ctl.op, ctl'.phase = ctl.phase, ctl'.todo = ctl.todo,
           LabelLeft(ctl'.pc, OnStop') < LabelLeft(ctl.pc, OnStop)
    PROVE  Down
<1> DEFINE c == ctl
           d == ctl'
           s == OnStop
           t == OnStop'
<1>1. /\ c \in Control /\ d \in Control /\ s \in BOOLEAN /\ t \in BOOLEAN
      /\ d.op = c.op /\ d.phase = c.phase /\ d.todo = c.todo
      /\ LabelLeft(d.pc, t) < LabelLeft(c.pc, s)
    BY Controls
<1>2. StepsLeft = LeftOf(c, s) /\ StepsLeft' = LeftOf(d, t)
    BY DEF StepsLeft
<1> HIDE DEF c, d, s, t
<1>3. LeftOf(d, t) < LeftOf(c, s)
    BY <1>1, LabelLower
<1> QED BY <1>1, <1>2, <1>3 DEF Down, c, d

LEMMA GoDown ==
    ASSUME IInv, IInv', NEW l \in Labels \ SentLabels, Goto(l),
           \/ rank[l] < rank[ctl.pc]
           \/ ctl.pc \in SentLabels /\ ~OnStop /\ rank[l] < rank[ctl.pc] + 9
    PROVE  Down
<1>1. ctl \in Control /\ OnStop \in BOOLEAN /\ OnStop' \in BOOLEAN
    BY Controls
<1>2. ctl'.op = ctl.op /\ ctl'.phase = ctl.phase /\ ctl'.todo = ctl.todo /\ ctl'.pc = l
    BY <1>1 DEF Goto, Control
<1>3. LabelLeft(l, OnStop') = rank[l] /\ rank[l] \in Nat
    BY <1>1, LabelNumbers, RankNumbers
<1>4. LabelLeft(ctl.pc, OnStop) \in Nat /\ LabelLeft(ctl.pc, OnStop) >= rank[ctl.pc]
      /\ rank[ctl.pc] \in Nat
    BY <1>1, LabelNumbers, RankNumbers DEF Control
<1>5. ctl.pc \in SentLabels /\ ~OnStop => LabelLeft(ctl.pc, OnStop) = rank[ctl.pc] + 9
    BY DEF LabelLeft
<1>6. rank[l] < LabelLeft(ctl.pc, OnStop)
    BY <1>3, <1>4, <1>5
<1> QED BY <1>2, <1>3, <1>6, SameVisit

\* While a call runs it has a label left, or is between two visits.
LEMMA NotOver ==
    ASSUME IInv, OrderInv, ~At("idle")
    PROVE  ctl.phase # "body" \/ rank[ctl.pc] > 0
<1>1. ctl.pc \in Labels
    BY DEF IInv, CtlInv, TypeCtl
<1>2. ctl.pc = "settle" => ctl.phase = "settle"
    BY DEF OrderInv, CallInv, QuietInv
<1>3. ctl.pc = "sweep" => ctl.phase = "sweep"
    BY DEF OrderInv, CallInv, QuietInv, SweepLabels
<1>4. ctl.pc \notin {"idle", "settle", "sweep"} => rank[ctl.pc] > 0
    BY <1>1 DEF rank, Labels
<1> QED BY <1>2, <1>3, <1>4 DEF At

LEMMA EndDown ==
    ASSUME IInv, OrderInv, IInv', ~At("idle"), End
    PROVE  Down
<1>1. ctl \in Control /\ OnStop \in BOOLEAN /\ OnStop' \in BOOLEAN
    BY Controls
<1>2. ctl' = Idle
    BY DEF End
<1>3. LeftOf(Idle, OnStop') = 0 /\ LeftOf(ctl, OnStop) > 0
    BY <1>1, NotOver, IdleLowest
<1> QED BY <1>2, <1>3 DEF Down, StepsLeft

LEMMA ProtectDown ==
    ASSUME IInv, OrderInv, IInv', ~At("idle"), ctl.op = "protect", ctl.phase = "settle",
           ProtectBody
    PROVE  Down
<1>1. ctl \in Control /\ ctl' \in Control /\ OnStop \in BOOLEAN /\ OnStop' \in BOOLEAN
    BY Controls
<1>2. CASE ~HasPosition
    BY <1>2, EndDown DEF ProtectBody
<1>3. CASE HasPosition
  <2>1. ctl'.op = "protect" /\ ctl'.phase = "body" /\ ctl'.pc \in {"protect_state", "protect_stop"}
    BY <1>3 DEF ProtectBody, Idle
  <2>2. ctl'.pc \notin SentLabels /\ rank[ctl'.pc] < 20
    BY <2>1 DEF SentLabels, rank
  <2> DEFINE c == ctl
             d == ctl'
             s == OnStop
             t == OnStop'
  <2>3. StepsLeft = LeftOf(c, s) /\ StepsLeft' = LeftOf(d, t)
    BY DEF StepsLeft
  <2>4. /\ c \in Control /\ d \in Control /\ s \in BOOLEAN /\ t \in BOOLEAN
        /\ c.phase = "settle" /\ d.phase = "body" /\ d.pc \notin SentLabels /\ rank[d.pc] < 20
        /\ d.op = c.op
    BY <1>1, <2>1, <2>2
  <2> HIDE DEF c, d, s, t
  <2>5. LeftOf(d, t) < LeftOf(c, s)
    BY <2>4, BodyLower
  <2> QED BY <2>3, <2>4, <2>5 DEF Down, c, d
<1> QED BY <1>2, <1>3

LEMMA RaiseDown ==
    ASSUME IInv, OrderInv, IInv', ~At("idle"), RaiseUnknown \/ RaiseOther
    PROVE  Down
BY EndDown, ProtectDown DEF RaiseUnknown, RaiseOther

LEMMA EndPlaceDown ==
    ASSUME IInv, OrderInv, IInv', ~At("idle"), EndPlace, rank[ctl.pc] > 0
    PROVE  Down
<1>1. rank["settle"] = 0 /\ "settle" \in Labels \ SentLabels
    BY DEF rank, SentLabels, Labels
<1> QED BY <1>1, EndDown, GoDown DEF EndPlace

LEMMA EndRetireDown ==
    ASSUME IInv, IInv', EndRetire, rank[ctl.pc] > 14
    PROVE  Down
<1>1. /\ rank["place"] = 6 /\ rank["sell_price"] = 14
      /\ {"place", "sell_price"} \subseteq Labels \ SentLabels
    BY DEF rank, SentLabels, Labels
<1>2. rank[ctl.pc] \in Nat
    BY RankNumbers DEF IInv, CtlInv, TypeCtl
<1> QED BY <1>1, <1>2, GoDown DEF EndRetire

\* The order a call works on is what it was, unless it is another one.
LEMMA OnOrderKind ==
    ASSUME IInv, OrderInv, ctl.pc \in OnOrder
    PROVE  /\ ctl.cur \in Oid /\ order[ctl.cur].purpose \in Purposes
           /\ OnStop = (order[ctl.cur].purpose = "stop")
<1>1. ctl.cur \in Rows
    BY OnRows
<1>2. ctl.cur \in Oid /\ order[ctl.cur].purpose # "none" /\ order[ctl.cur] \in Row
    BY <1>1 DEF Rows, IInv, DataInv, TypeData
<1> QED BY <1>2 DEF Row, OnStop

LEMMA PollDown ==
    ASSUME IInv, OrderInv, IInv',
           FinishPoll \/ RetirePoll \/ BuyPoll \/ BuyPollCanceled \/ SellPoll
    PROVE  Down \/ AsksAgain
<1> USE DEF Poll, At
<1>1. ~At("idle")
    BY DEF FinishPoll, RetirePoll, BuyPoll, BuyPollCanceled, SellPoll
<1>2. \/ RaiseUnknown
      \/ AsksAgain
      \/ \E l \in {"finish_book", "retire_book", "buy_book", "buy_cancel", "sell_book",
                   "sell_finally"} : Goto(l) /\ rank[l] < rank[ctl.pc]
    BY DEF FinishPoll, RetirePoll, BuyPoll, BuyPollCanceled, SellPoll, AsksAgain, rank
<1> HIDE DEF Poll, At
<1>3. CASE \E l \in {"finish_book", "retire_book", "buy_book", "buy_cancel", "sell_book",
                     "sell_finally"} : Goto(l) /\ rank[l] < rank[ctl.pc]
    BY <1>3, GoDown DEF Labels, SentLabels
<1> QED BY <1>1, <1>2, <1>3, RaiseDown

LEMMA QueryDown ==
    ASSUME IInv, OrderInv, IInv', FinishGet \/ RetireState \/ ProtectState \/ SweepGet
    PROVE  Down
<1> USE DEF Query, At
<1>1. ~At("idle")
    BY DEF FinishGet, RetireState, ProtectState, SweepGet
<1>2. \/ RaiseUnknown \/ RaiseOther
      \/ \E l \in {"finish_cancel", "finish_book", "finish_missing", "settle", "retire_book",
                   "retire_poll", "retire_missing", "protect_book", "protect_missing",
                   "sweep_book", "sweep_missing"} : Goto(l) /\ rank[l] < rank[ctl.pc]
    BY DEF FinishGet, RetireState, ProtectState, SweepGet, rank
<1> HIDE DEF Query, At
<1>3. CASE \E l \in {"finish_cancel", "finish_book", "finish_missing", "settle", "retire_book",
                     "retire_poll", "retire_missing", "protect_book", "protect_missing",
                     "sweep_book", "sweep_missing"} : Goto(l) /\ rank[l] < rank[ctl.pc]
    BY <1>3, GoDown DEF Labels, SentLabels
<1> QED BY <1>1, <1>2, <1>3, RaiseDown

LEMMA ConfirmDown ==
    ASSUME IInv, OrderInv, IInv', FinishMissing \/ RetireMissing \/ ProtectMissing \/ SweepMissing
    PROVE  Down
<1> USE DEF ConfirmMissing, At
<1>1. ~At("idle")
    BY DEF FinishMissing, RetireMissing, ProtectMissing, SweepMissing
<1>2. \/ RaiseUnknown
      \/ \E l \in {"settle", "retire_unlink", "protect_unlink", "sweep"} :
            Goto(l) /\ rank[l] < rank[ctl.pc]
    BY DEF FinishMissing, RetireMissing, ProtectMissing, SweepMissing, rank
<1> HIDE DEF ConfirmMissing, At
<1>3. CASE \E l \in {"settle", "retire_unlink", "protect_unlink", "sweep"} :
              Goto(l) /\ rank[l] < rank[ctl.pc]
    BY <1>3, GoDown DEF Labels, SentLabels
<1> QED BY <1>1, <1>2, <1>3, RaiseDown

\* Steps that book, cancel, unlink or look at the database, and go on.
LEMMA LocalDown ==
    ASSUME IInv, OrderInv, IInv',
           \/ FinishCancel \/ FinishBook \/ RetireBook \/ BuyCancel \/ BuyBook
           \/ SellBook \/ SellFinally \/ ProtectBook \/ ProtectUnlink \/ ProtectStop \/ SweepBook
    PROVE  Down
<1> USE DEF At
<1>1. ~At("idle")
    BY DEF FinishCancel, FinishBook, RetireBook, BuyCancel, BuyBook, SellBook,
           SellFinally, ProtectBook, ProtectUnlink, ProtectStop, SweepBook
<1>2. \/ End
      \/ \E l \in {"finish_poll", "settle", "retire", "retire_unlink",
                   "buy_poll_canceled", "place", "sell_finally", "protect_unlink",
                   "protect_stop", "sweep"} : Goto(l) /\ rank[l] < rank[ctl.pc]
    BY DEF FinishCancel, FinishBook, RetireBook, BuyCancel, BuyBook, SellBook,
           SellFinally, ProtectBook, ProtectUnlink, ProtectStop, SweepBook, RaiseOther, rank
<1> HIDE DEF At
<1>3. CASE \E l \in {"finish_poll", "settle", "retire", "retire_unlink",
                     "buy_poll_canceled", "place", "sell_finally", "protect_unlink",
                     "protect_stop", "sweep"} : Goto(l) /\ rank[l] < rank[ctl.pc]
    BY <1>3, GoDown DEF Labels, SentLabels
<1> QED BY <1>1, <1>2, <1>3, EndDown

LEMMA RetireDown ==
    ASSUME IInv, OrderInv, IInv', RetireCancel \/ RetireUnlink PROVE Down
<1>1. ctl.pc \in {"retire", "retire_unlink"} /\ rank[ctl.pc] > 14
    BY DEF RetireCancel, RetireUnlink, At, rank
<1>2. EndRetire \/ (ctl.pc = "retire" /\ GotoFor("retire_state", link))
    BY DEF RetireCancel, RetireUnlink, At
<1>3. CASE EndRetire
    BY <1>1, <1>3, EndRetireDown
<1>4. CASE ctl.pc = "retire" /\ GotoFor("retire_state", link)
  <2>1. ctl \in Control /\ OnStop \in BOOLEAN /\ OnStop' \in BOOLEAN
    BY Controls
  <2>2. /\ ctl'.op = ctl.op /\ ctl'.phase = ctl.phase /\ ctl'.todo = ctl.todo
        /\ ctl'.pc = "retire_state"
    BY <1>4, <2>1 DEF GotoFor, Control
  <2>3. LabelLeft("retire_state", OnStop') < LabelLeft("retire", OnStop)
    BY DEF LabelLeft, rank, SentLabels
  <2> QED BY <1>4, <2>2, <2>3, SameVisit
<1> QED BY <1>2, <1>3, <1>4

\* A new order: at most the thirteen steps of one that is not a stop.
LEMMA NewOrderDown ==
    ASSUME IInv, IInv', NEW l \in Labels \cap {"send", "place_link"}, NEW o, GotoFor(l, o),
           l = "send" => rank[ctl.pc] = 14,
           l = "place_link" => rank[ctl.pc] = 6
    PROVE  Down
<1>1. ctl \in Control /\ OnStop \in BOOLEAN /\ OnStop' \in BOOLEAN
    BY Controls
<1>2. /\ ctl'.op = ctl.op /\ ctl'.phase = ctl.phase /\ ctl'.todo = ctl.todo
      /\ ctl'.pc = l
    BY <1>1 DEF GotoFor, Control
<1>3. LabelLeft("send", OnStop') <= 13 /\ LabelLeft("place_link", OnStop') = 5
    BY DEF LabelLeft, rank, SentLabels
<1>4. LabelLeft(ctl.pc, OnStop) \in Nat /\ LabelLeft(ctl.pc, OnStop) >= rank[ctl.pc]
      /\ LabelLeft(l, OnStop') \in Nat
    BY <1>1, LabelNumbers DEF Control
<1> QED BY <1>2, <1>3, <1>4, SameVisit

LEMMA OrderingDown ==
    ASSUME IInv, OrderInv, IInv', BuyCheck \/ SellPrice \/ PlaceStop PROVE Down
<1>1. ~At("idle") /\ rank[ctl.pc] > 0
    BY DEF BuyCheck, SellPrice, PlaceStop, At, rank
<1>2. \/ End
      \/ EndPlace
      \/ ctl.pc = "sell_price" /\ Goto("sell_finally")
      \/ ctl.pc \in {"buy_check", "sell_price"} /\ GotoFor("send", NextOid)
      \/ ctl.pc = "place" /\ GotoFor("place_link", NextOid)
    BY DEF BuyCheck, SellPrice, PlaceStop, At, RaiseOther
<1>3. CASE End
    BY <1>1, <1>3, EndDown
<1>4. CASE EndPlace
    BY <1>1, <1>4, EndPlaceDown
<1>5. CASE ctl.pc = "sell_price" /\ Goto("sell_finally")
    BY <1>5, GoDown DEF Labels, SentLabels, rank
<1>6. CASE ctl.pc \in {"buy_check", "sell_price"} /\ GotoFor("send", NextOid)
    BY <1>6, NewOrderDown DEF Labels, rank
<1>7. CASE ctl.pc = "place" /\ GotoFor("place_link", NextOid)
    BY <1>7, NewOrderDown DEF Labels, rank
<1> QED BY <1>2, <1>3, <1>4, <1>5, <1>6, <1>7

LEMMA PlaceUnlinkDown ==
    ASSUME IInv, OrderInv, IInv', PlaceUnlink PROVE Down
<1>1. ~At("idle") /\ rank[ctl.pc] > 0 /\ EndPlace
    BY DEF PlaceUnlink, At, rank
<1> QED BY <1>1, EndPlaceDown

\* Towards the answer about the order that was sent
LEMMA SendingDown ==
    ASSUME IInv, OrderInv, IInv', NEW l \in SentLabels, Goto(l), UNCHANGED order,
           ctl.pc \in {"place_link", "send", "answer"}, rank[l] < rank[ctl.pc]
    PROVE  Down
<1>1. ctl \in Control /\ OnStop \in BOOLEAN /\ OnStop' \in BOOLEAN
    BY Controls
<1>2. /\ ctl'.op = ctl.op /\ ctl'.phase = ctl.phase /\ ctl'.todo = ctl.todo
      /\ ctl'.pc = l /\ ctl'.cur = ctl.cur
    BY <1>1 DEF Goto, Control
<1>3. OnStop' = OnStop
    BY <1>2 DEF OnStop
<1>4. ctl.pc = "place_link" => OnStop
  <2>1. ctl.pc = "place_link" => ctl.pc \in OnOrder /\ order[ctl.cur].purpose = "stop"
    BY DEF OrderInv, CallInv, KindInv, StopLabels, OnOrder, Labels
  <2> QED BY <2>1, OnOrderKind
<1>5. LabelLeft(l, OnStop) < LabelLeft(ctl.pc, OnStop)
  <2>1. rank[l] \in Nat /\ rank[ctl.pc] \in Nat /\ rank["place_link"] = 5
    BY DEF SentLabels, rank
  <2>2. LabelLeft(l, OnStop) = rank[l] + (IF OnStop THEN 0 ELSE 9)
    BY DEF LabelLeft
  <2>3. LabelLeft(ctl.pc, OnStop) =
           rank[ctl.pc] + (IF OnStop \/ ctl.pc = "place_link" THEN 0 ELSE 9)
    BY <1>4 DEF LabelLeft, SentLabels
  <2> QED BY <1>4, <2>1, <2>2, <2>3
<1> QED BY <1>2, <1>3, <1>5, SameVisit

\* What comes after the answer, for each kind of order.
LEMMA AnsweredDown ==
    ASSUME IInv, OrderInv, IInv', ctl.pc \in {"answer", "lookup"},
           Accepted \/ Refused \/ Unanswered
    PROVE  Down
<1>1. ~At("idle") /\ ctl.pc \in SentLabels /\ ctl.pc \in OnOrder /\ rank[ctl.pc] \in 2..3
    BY DEF At, SentLabels, OnOrder, Labels, rank
<1>2. order[ctl.cur].purpose \in Purposes /\ OnStop = (order[ctl.cur].purpose = "stop")
    BY <1>1, OnOrderKind
<1>3. \/ RaiseUnknown \/ RaiseOther \/ EndPlace
      \/ ~OnStop /\ \E l \in {"buy_book", "buy_poll", "sell_book", "sell_poll", "sell_finally"} :
                       Goto(l)
      \/ Refused /\ Goto("place_unlink")
    BY <1>2 DEF Accepted, Refused, Unanswered, Purposes
<1>4. CASE ~OnStop /\ \E l \in {"buy_book", "buy_poll", "sell_book", "sell_poll", "sell_finally"} :
                         Goto(l)
  <2> PICK l \in {"buy_book", "buy_poll", "sell_book", "sell_poll", "sell_finally"} : Goto(l)
    BY <1>4
  <2>1. l \in Labels \ SentLabels /\ rank[l] \in 0..10
    BY DEF Labels, SentLabels, rank
  <2> QED BY <1>1, <1>4, <2>1, GoDown
<1>5. CASE Refused /\ Goto("place_unlink")
    BY <1>1, <1>5, GoDown DEF Labels, SentLabels, rank
<1> QED BY <1>1, <1>3, <1>4, <1>5, RaiseDown, EndPlaceDown

LEMMA SubmitDown ==
    ASSUME IInv, OrderInv, IInv', LinkStop \/ Send \/ Answer \/ Lookup PROVE Down
<1>1. CASE LinkStop
    BY <1>1, SendingDown DEF LinkStop, At, SentLabels, rank
<1>2. CASE Send
    BY <1>2, SendingDown DEF Send, db, At, SentLabels, rank
<1>3. CASE Answer
  <2>1. ctl.pc = "answer" /\ (Accepted \/ Refused \/ (Goto("lookup") /\ UNCHANGED order))
    BY <1>3 DEF Answer, At, rows
  <2> QED BY <2>1, AnsweredDown, SendingDown DEF SentLabels, rank
<1>4. CASE Lookup
    BY <1>4, AnsweredDown DEF Lookup, At
<1> QED BY <1>1, <1>2, <1>3, <1>4

\* _settle is called with the one order that may be unsettled.
LEMMA FewUnsettled ==
    ASSUME IInv, OrderInv PROVE Cardinality(Unsettled) <= 1 /\ IsFiniteSet(Unsettled)
<1>1. Unsettled \subseteq Oid
    BY DEF Unsettled, Rows
<1>2. \A o, p \in Unsettled : o = p
    BY DEF OrderInv, OneInv, AtMostOneUnsettled
<1>3. CASE Unsettled = {}
    BY <1>1, <1>3, FS_EmptySet
<1>4. CASE Unsettled # {}
  <2>1. PICK o \in Unsettled : TRUE
    BY <1>4
  <2>2. Unsettled = {o}
    BY <1>2, <2>1
  <2>3. IsFiniteSet({o}) /\ Cardinality({o}) = 1
    BY FS_Singleton
  <2> QED BY <2>2, <2>3
<1> QED BY <1>3, <1>4

LEMMA BeginBounded ==
    ASSUME IInv, OrderInv, IInv', NEW op \in Ops, BeginSettle(op)
    PROVE  /\ ctl'.op = op /\ StepsLeft' <= IF op = "reconcile" THEN 3 * MaxOrders + 70 ELSE 44
<1>1. ctl' \in Control /\ OnStop' \in BOOLEAN
    BY Controls
<1>2. /\ ctl'.op = op /\ ctl'.phase = "settle" /\ ctl'.pc = "settle"
      /\ Cardinality(ctl'.todo) <= 1
    BY FewUnsettled DEF BeginSettle
<1> DEFINE d == ctl'
           t == OnStop'
<1>3. /\ d \in Control /\ t \in BOOLEAN /\ d.op = op /\ d.phase = "settle" /\ d.pc = "settle"
      /\ Cardinality(d.todo) <= 1
    BY <1>1, <1>2
<1>4. StepsLeft' = LeftOf(d, t)
    BY DEF StepsLeft
<1> HIDE DEF d, t
<1>5. LeftOf(d, t) <= IF op = "reconcile" THEN 3 * MaxOrders + 70 ELSE 44
    BY <1>3, BeginLeft
<1> QED BY <1>2, <1>4, <1>5

\* The next order of the settling or of the sweep
LEMMA VisitDown ==
    ASSUME IInv, IInv', ctl.todo # {},
           \/ ctl.phase = "settle" /\ ctl'.pc = "finish"
           \/ ctl.phase = "sweep" /\ ctl'.pc = "sweep_get",
           ctl'.op = ctl.op, ctl'.phase = ctl.phase, ctl'.todo = ctl.todo \ {First(ctl.todo)}
    PROVE  Down
<1> DEFINE c == ctl
           d == ctl'
           s == OnStop
           t == OnStop'
           o == First(ctl.todo)
<1>1. /\ c \in Control /\ d \in Control /\ s \in BOOLEAN /\ t \in BOOLEAN
      /\ d.op = c.op /\ d.phase = c.phase /\ d.todo = c.todo \ {o} /\ o \in c.todo
      /\ \/ c.phase = "settle" /\ d.pc = "finish"
         \/ c.phase = "sweep" /\ d.pc = "sweep_get"
    BY Controls DEF First
<1>2. StepsLeft = LeftOf(c, s) /\ StepsLeft' = LeftOf(d, t)
    BY DEF StepsLeft
<1> HIDE DEF c, d, s, t, o
<1>3. LeftOf(d, t) < LeftOf(c, s)
    BY <1>1, VisitLower
<1> QED BY <1>1, <1>2, <1>3 DEF Down, c, d

LEMMA SettleDown ==
    ASSUME IInv, OrderInv, IInv', SettleNext PROVE Down
<1>1. ctl.pc = "settle" /\ ctl.phase = "settle" /\ ~At("idle")
    BY DEF SettleNext, At, OrderInv, CallInv, QuietInv
<1>2. ctl \in Control /\ ctl' \in Control /\ OnStop \in BOOLEAN /\ OnStop' \in BOOLEAN
    BY Controls
<1>3. CASE ctl.todo # {} /\ ctl' = [ctl EXCEPT !.pc = "finish", !.cur = First(ctl.todo),
                                               !.todo = @ \ {First(@)}]
  <2>1. /\ ctl'.pc = "finish" /\ ctl'.op = ctl.op /\ ctl'.phase = ctl.phase
        /\ ctl'.todo = ctl.todo \ {First(ctl.todo)}
    BY <1>2, <1>3 DEF Control
  <2> QED BY <1>1, <1>3, <2>1, VisitDown
<1> DEFINE c == ctl
           d == ctl'
           s == OnStop
           t == OnStop'
<1>4. StepsLeft = LeftOf(c, s) /\ StepsLeft' = LeftOf(d, t)
    BY DEF StepsLeft
<1>5. ASSUME NEW l \in {"buy_check", "retire"},
             ctl' = [ctl EXCEPT !.phase = "body", !.pc = l]
      PROVE  Down
  <2>1. /\ c \in Control /\ d \in Control /\ s \in BOOLEAN /\ t \in BOOLEAN
        /\ c.phase = "settle" /\ d.phase = "body" /\ d.pc \notin SentLabels /\ rank[d.pc] < 20
        /\ d.op = c.op
    BY <1>1, <1>2, <1>5 DEF Control, SentLabels, rank
  <2> HIDE DEF c, d, s, t
  <2>2. LeftOf(d, t) < LeftOf(c, s)
    BY <2>1, BodyLower
  <2> QED BY <1>4, <2>1, <2>2 DEF Down, c, d
<1>6. CASE ctl.op = "reconcile" /\
           ctl' = [ctl EXCEPT !.phase = "sweep", !.pc = "sweep", !.todo = OrphanStops]
  <2>1. /\ c \in Control /\ d \in Control /\ s \in BOOLEAN /\ t \in BOOLEAN
        /\ c.phase = "settle" /\ c.op = "reconcile" /\ d.phase = "sweep" /\ d.pc = "sweep"
        /\ d.op = c.op
    BY <1>1, <1>2, <1>6 DEF Control
  <2> HIDE DEF c, d, s, t
  <2>2. LeftOf(d, t) < LeftOf(c, s)
    BY <2>1, SweepLower
  <2> QED BY <1>4, <2>1, <2>2 DEF Down, c, d
<1>7. \/ ctl.todo # {} /\ ctl' = [ctl EXCEPT !.pc = "finish", !.cur = First(ctl.todo),
                                             !.todo = @ \ {First(@)}]
      \/ RaiseUnknown \/ End
      \/ \E l \in {"buy_check", "retire"} : ctl' = [ctl EXCEPT !.phase = "body", !.pc = l]
      \/ ctl.op = "protect" /\ ProtectBody
      \/ ctl.op = "reconcile" /\
           ctl' = [ctl EXCEPT !.phase = "sweep", !.pc = "sweep", !.todo = OrphanStops]
    BY DEF SettleNext
<1> HIDE DEF c, d, s, t
<1> QED BY <1>1, <1>3, <1>5, <1>6, <1>7, RaiseDown, EndDown, ProtectDown

LEMMA SweepDown ==
    ASSUME IInv, OrderInv, IInv', Sweep PROVE Down
<1>1. ctl.pc = "sweep" /\ ctl.phase = "sweep" /\ ~At("idle")
    BY DEF Sweep, At, OrderInv, CallInv, QuietInv, SweepLabels
<1>2. ctl \in Control /\ ctl' \in Control /\ OnStop \in BOOLEAN /\ OnStop' \in BOOLEAN
    BY Controls
<1>3. CASE ctl.todo # {} /\ ctl' = [ctl EXCEPT !.pc = "sweep_get", !.cur = First(ctl.todo),
                                               !.todo = @ \ {First(@)}]
  <2>1. /\ ctl'.pc = "sweep_get" /\ ctl'.op = ctl.op /\ ctl'.phase = ctl.phase
        /\ ctl'.todo = ctl.todo \ {First(ctl.todo)}
    BY <1>2, <1>3 DEF Control
  <2> QED BY <1>1, <1>3, <2>1, VisitDown
<1>4. CASE BeginSettle("protect")
  <2> DEFINE c == ctl
             d == ctl'
             s == OnStop
             t == OnStop'
  <2>1. /\ c \in Control /\ d \in Control /\ s \in BOOLEAN /\ t \in BOOLEAN
        /\ c.phase = "sweep" /\ d.phase = "settle" /\ d.pc = "settle" /\ d.op = "protect"
        /\ Cardinality(d.todo) <= 1
    BY <1>1, <1>2, <1>4, FewUnsettled DEF BeginSettle
  <2>2. StepsLeft = LeftOf(c, s) /\ StepsLeft' = LeftOf(d, t)
    BY DEF StepsLeft
  <2> HIDE DEF c, d, s, t
  <2>3. LeftOf(d, t) < LeftOf(c, s) /\ LeftOf(d, t) <= 44
    BY <2>1, SecondSettleLower
  <2> QED BY <2>2, <2>3 DEF Down
<1>5. \/ ctl.todo # {} /\ ctl' = [ctl EXCEPT !.pc = "sweep_get", !.cur = First(ctl.todo),
                                             !.todo = @ \ {First(@)}]
      \/ BeginSettle("protect") \/ End
    BY DEF Sweep
<1> QED BY <1>1, <1>3, <1>4, <1>5, EndDown

\* Whatever the call does next, and however it is answered
LEMMA StepDown ==
    ASSUME IInv, OrderInv, IInv', Step PROVE Down \/ AsksAgain
<1>1. CASE Settling
    BY <1>1, SettleDown, QueryDown, ConfirmDown, LocalDown, PollDown DEF Settling
<1>2. CASE Stopping
    BY <1>2, RetireDown, QueryDown, ConfirmDown, PollDown, LocalDown, OrderingDown, SubmitDown,
       PlaceUnlinkDown DEF Stopping
<1>3. CASE Trading
    BY <1>3, SubmitDown, OrderingDown, PollDown, LocalDown DEF Trading
<1>4. CASE Guarding
    BY <1>4, QueryDown, ConfirmDown, LocalDown, SweepDown DEF Guarding
<1> QED BY <1>1, <1>2, <1>3, <1>4 DEF Step

\* Nothing to go is less while the call stands still and its order is for what it was.
LEMMA SameLeft ==
    ASSUME IInv, IInv', UNCHANGED ctl,
           ctl.cur \in Oid => order'[ctl.cur].purpose = order[ctl.cur].purpose
    PROVE  StepsLeft' = StepsLeft /\ ctl'.op = ctl.op
<1>1. OnStop' = OnStop
    BY DEF OnStop
<1>2. ctl' = ctl
    OBVIOUS
<1> DEFINE c == ctl
           d == ctl'
           s == OnStop
           t == OnStop'
<1>3. StepsLeft = LeftOf(c, s) /\ StepsLeft' = LeftOf(d, t) /\ c = d /\ s = t
    BY <1>1, <1>2 DEF StepsLeft
<1> HIDE DEF c, d, s, t
<1>4. StepsLeft' = StepsLeft
    BY <1>3
<1> QED BY <1>2, <1>4

LEMMA AskSame ==
    ASSUME IInv, OrderInv, IInv', AsksAgain
    PROVE  StepsLeft' = StepsLeft /\ ctl'.op = ctl.op
<1>1. ctl.cur \in Oid
    BY OnOrderKind DEF AsksAgain, OnOrder, Labels
<1>2. order'[ctl.cur].purpose = order[ctl.cur].purpose
  <2>1. order[ctl.cur] \in Row /\ order \in [Oid -> Row]
    BY <1>1 DEF IInv, DataInv, TypeData
  <2> QED BY <1>1, <2>1 DEF AsksAgain, UpdateOrder, Record, Updated, Row
<1> QED BY <1>2, SameLeft DEF AsksAgain

\* What any step makes of the steps to go
LEMMA NextLeft ==
    ASSUME IInv, OrderInv, IInv', [Next]_vars
    PROVE  \/ Down
           \/ StepsLeft' = StepsLeft /\ ctl'.op = ctl.op /\ (Step => AsksAgain)
           \/ At("idle") /\ ~Step /\ \E op \in Ops : BeginSettle(op)
<1>1. CASE Step
    BY <1>1, StepDown, AskSame
<1>2. CASE ~Step /\ (Buy \/ Sell \/ Protect \/ Reconcile)
    BY <1>2 DEF Buy, Sell, Protect, Reconcile, Ops
<1>3. CASE ~Step /\ (Environment \/ UNCHANGED vars)
  <2>1. UNCHANGED ctl /\ UNCHANGED order
    BY <1>3 DEF Environment, Land, Lose, Close, Tick, Fill, vars, db, exchange
  <2> QED BY <1>3, <2>1, SameLeft
<1>4. CASE Crash
    BY <1>4, EndDown DEF Crash
<1> QED BY <1>1, <1>2, <1>3, <1>4 DEF Next

LEMMA StepsNumbers == ASSUME IInv, IInv' PROVE StepsLeft \in Nat /\ StepsLeft' \in Nat
<1>1. /\ ctl \in Control /\ ctl' \in Control
      /\ OnStop \in BOOLEAN /\ OnStop' \in BOOLEAN
    BY Controls
<1>2. LeftOf(ctl, OnStop) \in Nat /\ LeftOf(ctl', OnStop') \in Nat
    BY <1>1, LeftNumbers
<1> QED BY <1>2 DEF StepsLeft

LEMMA BoundedStep ==
    ASSUME IInv, OrderInv, IInv', [Next]_vars, CallBounded
    PROVE  CallBounded'
<1> DEFINE long == 3 * MaxOrders + 70
           m == StepsLeft
           n == StepsLeft'
           a == ctl.op
           b == ctl'.op
<1>1. MaxOrders \in Nat
    BY BoundAssumption
<1>2. m \in Nat /\ n \in Nat
    BY StepsNumbers
<1>3. m <= IF a = "reconcile" THEN long ELSE 44
    BY DEF CallBounded
<1>4. \/ n < m /\ (b = a \/ n <= 44)
      \/ n = m /\ b = a
      \/ n <= IF b = "reconcile" THEN long ELSE 44
    BY NextLeft, BeginBounded DEF Down
<1>5. long \in Nat /\ 44 <= long
    BY <1>1
<1> HIDE DEF long, m, n, a, b
<1>6. n <= IF b = "reconcile" THEN long ELSE 44
    BY <1>2, <1>3, <1>4, <1>5
<1> QED BY <1>6 DEF CallBounded, long, n, b

\* No call gets longer by what the exchange, the clock or a crash does in the middle of it, and
\* each of its own steps, answered or not, brings it nearer to its end, but for a poll that asks
\* again (_settle, _retire_stop, _place_stop, _submit and _poll of live.py).
THEOREM CallEnds == Spec => CallAdvances
<1>1. ASSUME IInv, OrderInv, IInv', [Next]_vars
      PROVE  [ /\ ~At("idle") => StepsLeft' <= StepsLeft
               /\ Step => StepsLeft' < StepsLeft \/ AsksAgain ]_vars
  <2> DEFINE m == StepsLeft
             n == StepsLeft'
  <2>1. m \in Nat /\ n \in Nat
    BY <1>1, StepsNumbers
  <2>2. \/ n < m
        \/ n = m /\ (Step => AsksAgain)
        \/ At("idle") /\ ~Step
    BY <1>1, NextLeft DEF Down
  <2> HIDE DEF m, n
  <2>3. /\ ~At("idle") => n <= m
        /\ Step => n < m \/ AsksAgain
    BY <2>1, <2>2
  <2> QED BY <2>3 DEF m, n
<1> QED BY <1>1, OrderInvariant, PTL DEF Spec, CallAdvances

\* A call holds the lock of its market for no more than this number of steps and polls that
\* ask again: a constant, and for reconcile three for every stop in the outbox on top of it.
THEOREM CallLength == Spec => []CallBounded
<1>1. Init => CallBounded
  <2> SUFFICES ASSUME Init PROVE CallBounded
    OBVIOUS
  <2>1. StepsLeft = 0 /\ ctl.op = "none"
    BY DEF Init, Idle, StepsLeft, LeftOf, StageLeft, LabelLeft, SentLabels, rank
  <2> QED BY <2>1 DEF CallBounded
<1>2. IInv /\ OrderInv /\ CallBounded /\ IInv' /\ [Next]_vars => CallBounded'
    BY BoundedStep
<1> QED BY <1>1, <1>2, OrderInvariant, PTL DEF Spec
===============================================================================
