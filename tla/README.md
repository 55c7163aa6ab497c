# Formal model of martin-trade

This directory holds TLA+ modules that model the trading bot in `src/tradebot`, the TLC
configurations that check them on small instances, and theorems that TLAPS checks for every
value of the constants. `PROJECT.json` lists the runs, which lines each definition stands for,
the hazards the properties are aimed at and the theorems. File names below are relative to
`src/tradebot` of the repository.

## 1. The system

The bot is one process. APScheduler starts jobs in threads of their own (at most one instance
per job, but different jobs run in parallel) and FastAPI serves the dashboard from further
threads. They share one SQLite database (WAL), one table of locks (`locks.MARKET_LOCKS`, one
`RLock` per market) and, in live mode, one account at Bitvavo that also holds coins of the user.

| component | state | operations | interacts with |
|---|---|---|---|
| live broker (`live.py`) | tables `orders` (the outbox), `positions` with `stop_order_cid`, `trades` | `buy`, `sell`, `ensure_protection`, `reconcile` | exchange, lock of the market |
| exchange client (`exchange.py`) | none (HTTP) | `create_order`, `get_order`, `cancel_order`, `get_open_orders`, ... | Bitvavo |
| paper broker (`paper.py`) | `positions`, `trades`, cash and fees in `kv` | `buy`, `sell` | price feed, lock of the market |
| market locks (`locks.py`) | one re-entrant lock per market | `hold(market, timeout)`, `MarketBusy` | both brokers |
| engine (`engine.py`) | `_last_reconcile`, `_exit_alerted`, copies of positions, cash and P&L per cycle | `run_once` (hourly), `check_exits_fast` (every minute), `_reconcile_if_due`, `_exit_failed` | broker, gates, LLM, kill switch |
| gates (`decision.py`, `correlation.py`) | none | `RiskManager.can_open`, `evaluate_buy`, regime, chase and veto filters | engine, backtest |
| market lists and kill switch (`lists.py`) | keys of `kv` | `modify`, `set_paused`, `is_paused` | engine, web threads |
| LLM router (`llm.py`) | budget counters per provider (memory), `llm_attempts`, `llm_calls` | `second_opinion`, `probe` | engine, web threads |
| mechanical exits (`strategy.py`) | none | `check_exit`, `intrabar_exit`, `breakeven_stop_hit`, `time_stop_hit` | engine, backtest |
| measurements (`analysis/`) | none; reads `signals`, `trades`, `llm_calls` | matching of events to round trips, scoping by `gate_fingerprint` | dashboard, CLI |
| backtest, optimizer, calibration | none | replay of the rules over candles | CLI |
| export (`export.py`) | files | `schrijf_export`, `opruimen`, `importeer` | database |
| dashboard (`web.py`, `static/`), MQTT, notifier | caches | views; `POST` for lists, pause and LLM test | all of the above |

### What is hard about it

* **An exchange that answers late or not at all.** A request can time out and land afterwards, a
  cancel can lose the race against a fill, an error 404 does not prove that an order does not
  exist. The account also holds coins of the user, so selling on a wrong assumption sells *his*
  coins, and the exchange will not refuse it.
* **A crash between two commits or between a commit and a request.** What the process knew is
  gone; the database and the exchange stay as they are.
* **Parallel jobs.** Guard, cycle, reconciliation and web threads act on the same positions, the
  same cash and the same keys. The locks exclude them per market only.
* **State that is stale when it is used.** The cycle reads positions, cash and the pause switch,
  then waits for an LLM or for a lock, and acts.
* **Amounts at a boundary.** Dust below the market minimum, partial fills, budgets and slots.

### What makes each component correct

| component | properties |
|---|---|
| live broker | orders are booked once and only for what was filled; an order that is "rejected" does not exist; at most one order of unknown fate; a live stop is the linked stop of a position; what is open for sale is covered by what the bot bought; every order settles and every position gets a stop |
| paper broker | cash equals the start amount plus all trades (it does not, section 5); no position is closed twice; cash is never negative |
| market locks | at most one thread in a market, re-entry, no deadlock between markets |
| engine | no buy after the pause switch was seen set; slots and clusters are respected within a cycle; a failed exit holds up no other; an order of unknown fate is settled or buying is paused |
| gates | a gate in shadow costs no purchase and changes none; slots follow the capital |
| lists | caps and at least one trading market, whoever edits; exact as long as edits do not overlap |
| LLM router | what the cycle spends stays within the budget, but for restarts and midnight; every cycle ends |
| mechanical exits | backtest and guard agree on what is still open |
| measurements | a row is matched to the purchase or position it was written about; a cohort has one population |
| backtest | every euro is accounted for; entry limits and exits are those of the engine |

## 2. The modules

| module | what it is | code |
|---|---|---|
| `LiveMarket` | the order path of one market, step by step | `live.py` |
| `MCLiveMarket` | `LiveMarket` for TLC | |
| `CoinAccount` | abstract: what the order path promises about coins | what `_book_entry`, `_book_exit`, `_book_dust` keep |
| `LiveMarketAccount` | the refinement mapping from `LiveMarket` to `CoinAccount` | |
| `LiveMarketProofs` | theorems about the order path and its ledger | |
| `SumTheorems` | what a sum over a finite set is, for the ledgers | |
| `MarketLocks` | the locks per market | `locks.py` |
| `PaperBroker`, `MCPaperBroker` | the paper broker under guard and cycle | `paper.py` |
| `TradingCycle`, `MCTradingCycle` | the cycle, the guard, the reconciliation's pause and the kill switch | `engine.py`, `lists.py`, the caps of `decision.py` and `live.py` |
| `Rules` | signals, fees, exits and the risk manager, as operators | `strategy.py`, `decision.py` |
| `Replay`, `MCReplay` | the backtest over `Rules` | `backtest.py` |
| `Gates` | the entry gates over `Rules`, and the hash of a configuration | `decision.py`, `config.py` |
| `Measurement`, `MCMeasurement` | one market measured: cycle, guard and crash write rows over `Gates`, the analysis matches them | `engine.py`, `analysis/shadow_gate.py`, `analysis/veto.py` (`build_roundtrips`), `export.py` |
| `MarketLists` | the two lists under several editors | `lists.py`, `web.py` |
| `LLMRouter` | providers, budgets, the second opinion | `llm.py` |
| `Scanner` | the scan and the auto-fill, as operators | `scanner.py`, `engine.py` |
| `Panel`, `MCPanel` | the composition of `MarketLists`, `LLMRouter` and `Scanner` with the cycle | `engine.py`, `web.py` |
| `MarketLocksProofs`, `PaperBrokerProofs`, `TradingCycleProofs`, `ReplayProofs`, `MeasurementProofs`, `PanelProofs` | theorems | |

How they fit: `MarketLocks` justifies that `LiveMarket` and `PaperBroker` run one operation per market at a
time (`MutualExclusion`). `TradingCycle` uses a broker call as one step; what such
a step can do to a position (`Sell`, `SellFails`, `Buy`, `BuyFails`, `BuyUnknown`, `Settle`) is what
`LiveMarket` and `PaperBroker` show in detail. `CoinAccount` is the abstract specification of the live order
path. The cycle appears in three modules, each with the part of it that its neighbours can disturb:
`TradingCycle` with the brokers, the pause and the reconciliation, `Panel` with the dashboard and the providers,
`Measurement` with the gates and the rows they leave. `Rules` is one translation of the rules that `Measurement`
(the engine) and `Replay` (the backtest) share, as in the code.

### `LiveMarket`: how it corresponds to the code

*Database.* `order[o]` is the `OrderRow` with the purpose, status, amount, `filled_amount` and
`booked_amount` (the final statuses of Bitvavo are one value, `final`; `rejected` is the status
that the code itself writes). `pos` and `link` are the `PositionRow` (`amount`,
`stop_order_cid`), `trades` the totals of the `TradeRow`s.

*Exchange* (external). `xstate[o]` says whether a request is on its way, the order is open or
done, `xfilled[o]` what was filled. Requests land late (`Land`) or never (`Lose`), open orders
fill in parts (`Fill`), and the exchange or the user ends them (`Close`).

*Process.* Every public method runs inside the lock of its market, so one operation runs at a
time. `ctl` is that operation: which method (`op`), whether it is in the `_settle` or the sweep
that precedes its body (`phase`), where it is (`pc`), which order it works on (`cur`) and which
orders the loop still has to visit (`todo`). One action is one call to the exchange with the
commit of its answer, or one commit: a crash can fall between any two of them. The sub-routines
`_settle`, `_finish_order`, `_retire_stop`, `_place_stop`, `_submit`, `_poll` and
`_confirm_missing` are each modelled once and return to the place the code returns to. A nested
exception goes where the code catches it (`RaiseUnknown`, `RaiseOther`): `_protect` catches
`OrderStateUnknownError` around `_settle` only, `_place_stop_safe` catches everything, `_buy` and
`_sell` have a `finally`.

*Time.* `age[o]` says whether an order is younger than `entry_timeout_s`, past it, or past
`ghost_age_s`, as far as the code looks at it.

Abstractions: prices, fees and the trigger of the stop are left out (a failing price call or a
price at the trigger is the `Fault` branch of `PlaceStop`, `SellPrice`, `ProtectStop`, `BuyCheck`);
amounts are small numbers; the market minimum is an amount; fees are taken to be in EUR, so a
position grows by what was filled.

### Assumptions

* A request that has not arrived when the order is `ghost_age_s` (300 s) old never arrives. This
  is the assumption the code itself makes in `_confirm_missing`; `Tick` states it.
* An answer of the exchange about an order is true at the moment it is given.
* `get_order` finds an order that is finished, as at the fake exchange of the tests. exchange.py:100 reads error
  240 as "bestaat niet of is niet meer actief"; the second half is taken to be about cancelling.
* `uuid4` never repeats a `clientOrderId` (`NextOid`).
* The account holds enough coins of the user that the exchange never refuses a sale for lack of
  balance. That is the hard case: any sale that should not have been sent succeeds.

### Properties

`TypeOK`; `BooksFollowExchange` (nothing is booked that was not seen, nothing seen that was not
filled); `RejectedMeansAbsent` (invariant 1 of the header of `live.py`); `AtMostOneUnsettled` and
`SentIntoQuietMarket` (invariant 2, from the database and from the exchange); `LiveStopIsLinked`
(invariant 3); `NeverOversized` and `CommittedSalesCovered` (the coins of the user);
`ImplementsAccount` (every step is a step of `CoinAccount` or changes no coins);
`EveryOrderSettles` and `PositionGetsStop` (liveness).

`CoinAccount` has no orders and no calls: coins are bought and sold on the exchange, booked later,
and only ever sold from the booked position. Its invariants are `Conservation` (position + dust +
booked sales = booked purchases) and `OnlyOwnCoinsSold` (sold + dust <= bought). That
`LiveMarket` implements it is where dust, partial fills, late answers and crashes meet: writing
off a rest that a stop can still sell, or booking a fill twice, is not a step of the ledger.

### `MarketLocks`

`table`, `guard`, `owner` and `count` are `_locks`, `_guard` and the two fields of each `RLock`. `hold` is split
where threads can alternate: `EnterGuard`, `Get`, `Make`, `LeaveGuard`, `Acquire` or `Busy`, `Release`. `Call`
lets a thread that is inside a market ask for the same market again. The docstring of locks.py makes the lock
re-entrant for broker methods that do so; at this commit none does, and none holds two markets. A wait may run
into its timeout at any moment while somebody else owns the lock.
`ObjectAssumption` says that there is an `RLock` for every market (`threading.RLock()` always makes one).

### `PaperBroker`

Cash and fees are the two `KVRow`s, `pos` what each position cost, `trades` the totals of the
`TradeRow`s. Each call is the sessions it opens: `SellFind` (the first), `SellRead` and `SellWrite` (the
second, split where its transaction starts, which is its first write), `BuyRead` and `BuyWrite`. `Fail`
stands for a price that does not come, a lock of the database that does not clear and a trade that
is refused. Guard and cycle go by the positions they read when they started (`seen`), the cycle reads
again after a trade (`Refresh`). A fee is one unit, and prices are what a position gained or lost.

### `TradingCycle`

Each of the two jobs has a label, a market and the rest of its loop. `positions` and `candles` are the
local variables of `run_once`; they are read once per cycle and `positions` again after a trade. Between two
labels of the cycle the guard, the user, the clock or a restart can act: that is the time the cycle spends on
candles, the LLM, and locks. `IsPaused` and `SetPaused` are two transactions. In live mode `Settle` is what a
visit of the broker to a market with an order of unknown fate or with a stop can lead to: filled,
not filled, or sold, with or without a problem left. `late` is the only history variable.
Cooldown, loss cap, score, fees and the LLM are the freedom of `Pass` and `Advise` to refuse; cash,
P&L and the scan for extra markets are left out, since the cycle may look at any set of markets. Amounts of
the exposure cap are counted in positions.

### `Rules` and `Replay`

Prices and euros are integers and percentages whole numbers; every comparison of fractions in the
code is multiplied out, so that no rule is rounded. A snapshot holds what `score_snapshot` tells apart (the
order of the EMAs, the RSI in its zone, two MACD histograms, the lower band in reach).

`Replay` is `_run`: `NextBar` is the next timestamp of the merged timeline, on which any non-empty set of
markets has a candle, and each market has its turn in sorted order: `NoCandle`, `Hold`, `Exit`, `Enter` or
`Pass`. A history is not given in advance: every candle is a choice, so the run sees all histories of
`MaxBars` bars over the candles. A position carries the age and the highest high of
the candles since its entry instead of the list of candles, which is all that time stop and breakeven stop
look at. `gap` is what `drop_unclosed` makes of a hole in the history: it infers the candle length from
the last two candles and then takes the newest one for open. The three modes are one market, a portfolio
and the old model of the first row of `calibrate`.

### `Gates` and `Measurement`

A decision has an action, its terms (size, stop, target) and the notes of the gates that would have refused
it. `Fingerprint` is `gate_fingerprint`: a hash is the set of values that go into it. `Population`
says what the hash is for: everything that decides which purchases a gate sees and how it judges them.

`Measurement` follows one market. All rows are one log in the order of their timestamps. A row holds
the number of the cycle that wrote it and the position that cycle held, which the tables do not: only
the properties read them. The cycle is `Start`, `Exits`, `ExtraExit` (time stop, breakeven), `Sell` or
`Consider`, `Ask`, `Buy` and `Note`; between two of them the guard may sell (`Guard`), a candle may close
(`Tick`) or the program may stop and start with another configuration (`Restart`). `Reconcile` books an order
of unknown fate in a later cycle. The analysis is a reading of the log: `RoundTrips`, `MatchSameCycle` for
the entry gates regime and chase (`MeasuredEntries`: an opinion of the LLM is measured by its row in
`llm_calls`, section 5), `MatchDuringPosition` for exit gates and `Cohort`. An export reads the trades before the
signals, so a row may be matched against a shorter prefix of the trades (`Cuts`).

### `MarketLists`, `LLMRouter`, `Scanner` and `Panel`

An edit of the lists is what `modify` does to the database, one action per transaction: `Post`, `Decide`,
`StoreMarkets`, `StoreWatchlist`. The cycle reads `Current` whenever it starts. The router is a question that
walks along the providers: `Check` (budget and day), `Send` (the counter goes up before the request),
`Answer`. The counters are memory: `RouterRestart` loses them, `Midnight` leaves them to the next `Check`, and
the test button (`Probe`) raises them without looking. The scan and the auto-fill choose among tickers; equal
rows may come in either order. In `Panel` the gates of the cycle are the freedom to pass a market by
(`LookAt`), a purchase that passed them is a `Candidate`, and `Judge` is what the engine makes of the
second opinion.

## 3. The runs

| run | instance | what it shows |
|---|---|---|
| `live_market` | 4 orders, 1 fault, 1 crash, entries of 3, minimum 2 (2.6 million states) | types, the stop, one order of unknown fate, exits and stops within the position |
| `live_account` | 3 orders, 2 faults, 1 crash, entries of 3, minimum 2 (1.0 million states) | refinement of `CoinAccount`, open sales are covered, books follow the exchange, rejected means absent, nothing sent beside an order that can fill |
| `live_liveness` | 3 orders of 2, minimum 1, 1 fault, 1 crash; or a position with an unlinked stop that an old crash left on the exchange | orders settle, positions get their stop, orphans are swept. No operation of the present code leaves such a stop behind (`LiveStopIsLinked`), so only that initial state exercises the sweep of a stop that exists |
| `locks` | 3 threads, 2 markets, 3 lock objects, nesting 2 (0.1 million states) | types (no lock is given back more often than it was taken); one thread per market; a lock follows the holds; every call of `hold` ends |
| `paper` | 2 markets, 8 EUR, orders of 3 or 4, results of -1 or +1, 4 trades (15 613 states) | positions and fees follow the trades, cash is never negative |
| `paper_cash` | the same | *violated*: see section 5 |
| `cycle_paper` | paper, 3 markets (1 and 2 correlated), 2 slots, cluster of 1, 1 restart (1.0 million states) | slots, cluster cap, and every exit is tried |
| `cycle_live` | live, 2 markets, 1 slot, cap of 2 (0.4 million states) | one late buy at most; unknown orders are settled or buying is paused |
| `cycle_cap` | live, 2 markets, no restart | *violated*: see section 5 |
| `replay` | 2 correlated markets, 8 candles (flip, drift, crash, spike, both levels touched), 5 bars, amounts in tenths of a euro: 2050 in buckets of 1000, at least 100 in an order, days of 3 bars, all three modes (0.7 million states) | books, wins, entry limits and slots of the backtest; what survives a bar is what the guard would keep |
| `measure` | 1 market, 5 rows, 2 candles, 1 restart, 4 configurations (0.8 million states) | rows are matched to their own purchase or position, at most one per gate, in one population; shadow costs nothing |
| `panel` | 4 markets (one barred, one that only the scan finds), caps of 2, 2 editors, 2 providers with a budget of 1, 2 days, 2 events (0.7 million states) | lists, budgets, and every cycle ends |

*Why these bounds are enough to be interesting.* An entry of 3 with a minimum of 2 has every kind of
partial fill: one that leaves a position too small for a stop (1), one that leaves dust when
part of it is sold, and a full one. Three orders are an entry, its stop and an exit or a second
stop; the fourth is the stop after an exit that failed, or the second entry. Two faults are a
lost answer followed by a failing look-up; a crash can fall anywhere. `NextOid` takes the lowest
free id, so the ids need no symmetry.

For the locks three threads are two that compete and one that finds a table in any state; two
markets are needed for a thread that makes the wrong lock or moves from one to the other. For the paper
broker four trades are a buy and a sale in each of two markets. For the engine three markets are needed
in paper mode (a cluster of two and one outside, two slots), two in live mode. In `cycle_paper` the exit of
market 1 may fail every time and market 2 keeps falling (`Falling`). `cycle_live` has one slot and no
restart: each restart makes a reconciliation due and so only helps.

For the backtest five bars are an entry, an exit, the two bars of the cooldown and a second entry, on two days;
2050 is two slots that one loss turns into one. Around a fill at 1020 (slippage of 4 %, coarse enough for small
prices) the candles reach the stop at 970, the target at 1120 and the levels in between. `MarginsPay`, on which
`WinsAreTargets` rests, is an `ASSUME` of `MCReplay`: TLC evaluates it for the settings of the run. For the
measurement five rows are a round trip with a note, a guard that sells in the middle of a cycle, and a second
purchase; `Cooldown` is two candles and the window of the matching one. `MeasurementAssumption` says what the
matching rests on: the window is at least a candle (`max(1, match_window_candles)`), so that it covers a cycle,
and shorter than the cooldown, as in the default configuration: without that a row could be nearer to the next
purchase. Of the configurations one binds nothing, two bind the second opinion and differ in the judge, one
binds the time stop. For the panel two events are enough for two overlapping edits, an edit with a restart, a
test with a midnight, or two restarts; caps of 2 are full after one edit.

*Fairness* (`live_liveness`). The running operation goes on (`WF` of `Step`): every call has a timeout. The
guard and the reconciliation get the lock again and again when they can run (`SF` of `Protect` and `Reconcile`):
they are scheduled every 60 s and every hour, while the operations that compete for the lock (`buy`, `sell`) end
after a bounded number of calls (`CallEnds` and `CallLength`, proved). Requests land or are lost, the clock
runs, and the exchange ends *market orders*; it need not fill a limit order or fire a stop. There is no fairness
on `Buy`, `Sell`, `Fill` of entries and stops, or on crashes; the faults are bounded.

`locks`: a thread that runs `hold` goes on (`WF`), and the guard of the table, which is held for a dictionary
look-up, is handed to a thread that keeps asking (`SF`). Nothing is assumed of bodies or of the locks of
markets: who waits too long gets `MarketBusy`. That this is enough is `HoldsNotStuck` and `HoldsGoOn`, proved.
`cycle_paper`, `cycle_live`: both jobs are started again and again and go on (`WF`; APScheduler starts them and
every call has a timeout), the clock makes a reconciliation due, and for a market in `Falling` the price feed
answers again and again (`SF` of `Hit`). `Falling` is empty in `cycle_live`. That a job which goes on comes to
the end of its loop is `RunsGoOn` and `RunLength`, proved. There is no fairness on the user, restarts, the
success of a sale, or any answer of the exchange. `panel`: the thread of the cycle runs on and every request
ends in an answer, a failure or a timeout (`WF` of `EndCycle`, `Judge`, `RouterStep` and of the next market).
There is none on the start of a cycle, on edits, tests, the clock or restarts; restarts are bounded, and each
ends the cycle it meets. `CycleGoesOn`, `CycleLength` and `CycleNotStuck` are the proved part of `CycleEnds`.
`measure` and `replay` check safety only, and may stop (`CHECK_DEADLOCK FALSE`): a history ends, and the bound
on rows may leave nothing to do.

## 4. What is proved

`LiveMarketProofs`: for outboxes of every size, amounts of every size and any number of faults and
crashes, `TypeOK`, `BooksFollowExchange` and `RejectedMeansAbsent`. The inductive invariant `IInv`
has two parts. `DataInv` is about the database and the exchange: types, the two properties
themselves, that an unused row is unused everywhere (`FreshInv`), that a request on its way is
younger than the ghost age (`AgeInv`) and that the link names a row (`LinkInv`). `CtlInv` is about
the running operation: the order it works on exists, an order that is about to be sent is
`pending`, not on the exchange and not old, and an order that `_confirm_missing` may declare
missing is past the ghost age. The last two are what makes rejection sound: without them a
`Mark(o, "rejected")` could hit an order that still arrives. There is one lemma per shared
sub-routine (`PollInv`, `QueryInv`, `ConfirmInv`, ...) and one per action that is not one of them,
and `StepInv` puts them together. The proofs use only the named assumptions on the constants.

The second half of the module proves invariants 2 and 3 of `live.py`'s header and that no sale is oversized:
`AtMostOneUnsettled`, `SentIntoQuietMarket`, `LiveStopIsLinked` and `NeverOversized`. They are theorems of
`Spec`, which starts empty; the state an older version may have left (`LegacyInit`) breaks `LiveStopIsLinked` by
construction, and the liveness run shows how it is repaired. None is inductive. `OneInv` adds what the orders
must satisfy together: a final row agrees with the exchange (`ExchangeInv`); every stop but the linked one is
over, which means that it cannot be filled any more and that all it sold is booked (`StopInv`); while an exit
has an open fate there is no linked stop, and neither sells more than the position has left (`ExitInv`). This
holds only because of what the operation asked earlier, so `CallInv` records that per label: what kind of order
it works on (`KindInv`), where it may still rely on a settled market (`QuietInv`), and where the link stands
(`LinkedInv`). The argument is in two layers. A lemma per change of the data (`UpdateStep`, `BookExitStep`,
`NewStep`, `SendStep`, ...) shows `OneInv'` and that the change is `Calm`: no order gets an open fate, and none
that is over comes back. A lemma per action then needs only that (`Kept`) to show `CallInv'`. The new-order and
send steps are the two that are not calm, and they are where the answers of `_settle` are used. The proof shows
why `_book_exit` may drop the row of a position only for a final order or an exact fill: `BookExitStep` has to
show that an order whose position goes is over.

The third part proves the refinement, `AccountImplemented` (`Spec => Account!Spec`), and with it that no coin is
lost or booked twice (`AccountConserved`), that no coin of the user is sold (`UserCoinsSafe`), and that not even
complete fills of all that is open would sell one (`CommittedSales`). The totals of the ledger are sums over the
outbox. `SumTheorems` has what is needed of a sum (`SumExcept`: it changes by what one summand changes; bounds and
monotonicity). The library's induction takes a predicate, so `SubsetInduction` there takes the *set* of the subsets
for which a fact holds, and follows from the well-founded order of the subsets. `StepKinds` sorts the steps of
the order path: a fill, one of three bookings (entry, exit, dust), or a step that leaves all totals
alone (`SameAccount`). Conservation is inductive by itself; that unbooked sales fit in the position is not, it needs
`OrderInv`: by `OneSale` at most one exit or stop can still be filled or booked, and it is no larger than what the
position has left. `AmountInv` (an entry is for the whole amount) bounds the coins by `MaxCoins`.

The last part is about how long a call can take, which the fairness of the live run takes for granted.
`StepsLeft` counts the steps from where the call is: the way from its label to the end (`rank`), 24 for each
order that `_settle` has still to visit, and for `reconcile` 3 for each stop of the sweep and the `_settle` of
the `_protect` behind it. `CallEnds` says that every step of the call lowers it, whatever the exchange answers
and however the call fails, except a poll that asks again while the order is open (`AsksAgain`; in the code
those end at the deadline of `_poll`), and that no step of the exchange, the clock or a crash raises it. The
label of an order that is not a stop counts for more than that of a stop, since its stop is still to come; this
is why the rank alone is no measure. `CallLength` gives the bound, 44 and `3 * MaxOrders + 70` for `reconcile`:
it uses `AtMostOneUnsettled`, by which a `_settle` has one order to visit at most.

`MarketLocksProofs`: `Invariant` shows that types, `LocksFollowHolds` and what they rest on are inductive, for
any number of threads, markets and nested holds: the guard has one thread between `get` and `leave`, different
markets have different locks, a lock that was given to a thread is the one of its market, and the count of a
lock is the depth of its owner. `Exclusion` follows.
`HoldsNotStuck` is freedom from deadlock: a thread in `hold` can take its step, or waits for the guard, and then
the one that has it can take its own. The guard is never kept while waiting for a market; and a thread that has
to make a lock finds one, since a market without a lock leaves at least one of `Locks` unused (`LockToMake`: by
`FS_Surjection` the locks made are fewer than the markets). `HoldsGoOn`: nobody else sets a thread back in
`hold`.

`PaperBrokerProofs`: for any markets, prices and number of trades. The invariant says that a job
inside a call holds the lock of its market, that a job about to write saw the position that is
still there (or the gap that is still there), and that the cash it read covers its order.
`PositionsCorrect`, `FeesCorrect` and `TypeCorrect` (cash is never negative) follow. That the cash is the
sum of the trades is false and is not among them.

`TradingCycleProofs`: `TypeCorrect` and `OneLateBuy` in both modes, `SlotsCorrect` and `ClusterCorrect`
for paper mode, all for any number of markets. `LateInv` says that a cycle which has passed the
switch has not bought since; it is inductive with the types alone. `PaperInv` says that in paper
mode nothing but the cycle opens a position, so the positions the cycle goes by include the open
ones from its last read until it has bought, and that the limits it tested on that copy still
hold. Both are false in live mode, where a settled order adds a position (section 5).

`RunsGoOn` is about the two jobs in both modes: `RunLeft` counts five steps for each market left in the loop of
a job and what is left of the visit, and one for each market to reconcile or to protect before it. Each step of
the job, a failed exit or buy included, lowers it, and the other job, the user, the clock and a restart do not
raise it. `RunLength` bounds it by `6 * |Markets| + 5`. `RunsNotStuck` (`RunInv`) keeps either job away from the
labels of the other.

`ReplayProofs`: `SurvivorsCorrect` needs that levels are numbers and that the close lies between low and high
(`LevelInv`): a bar whose range stayed inside the levels closed inside them. `LimitsAgree` rests on `DateInv`: the
date of the last exit and the date of the last trade differ only for a market with an open position, and
there both copies of the limits refuse. `ReplayTypes` (cash is never negative) needs that an entry spends at most the
cash (`SpendRange`) and that an exit brings in something, which holds because a stop is only filled above zero.
`BooksCorrect` follows from the types and `SumExcept`: every turn changes one summand of the costs and one day of the
profits, by the amount by which it changes the cash. `SlotsCorrect` compares the slots before and after a step.

`WinsCorrect` says that `WinsAreTargets` holds for every history when `MarginsPay` does. It needs to know what a
purchase leaves in a position until its sale (`Entered`, `WinInv`): an order of at least the minimum with its
fee, a stop that is not above the entry, a target that is worth the least edge. Then a sale near the entry
brings in less than it cost (`LowSaleLoses`), so does one at the stop (`StopSaleLoses`), and one at the target
brings in more (`TargetSaleWins`). The arithmetic is in `SmallGain` and `LargeGain`: a product of percentages
times the amount, and what two roundings can take from it. `MarginsPay` is a condition on the settings, and the
property is false without it: with `MinNetPct` = `BeMarginPct` = 4, or with `BeMarginPct` = 8, TLC finds a
history in which the time stop or the breakeven stop wins. Its first two parts say that these exits wait for
less than fees and slippage cost, the others that the least edge of a target costs more. The default percentages
of the program are inside them, narrowly: (1 - 0.0025)^2 * (1 - 0.0005) * 1.0055 = 0.99998 < 1 for the
breakeven stop at its level (the time stop's level is 1.005), and 1.0054 > 1 for a target. The terms for the
rounding are the model's own, because its prices and amounts are whole numbers.

`MeasurementProofs`: `FingerprintSeparates` and `FingerprintKeeps` show that two configurations have one hash
for a gate exactly when they have one population for it. The argument is that the gates whose parameters
are hashed are the binding ones and the gate itself, because each of them puts its own section in scope.
`CohortsCorrect` adds that every row is of a configuration the program was started with. `ShadowCorrect`
needs the types and the property itself: each gate keeps the terms or takes the purchase away when it binds
(`RefuseParts`), and no step changes the configuration while a decision is under way.

The other half of the module is about the matching, for logs of every length and any number of restarts:
`EntryMatchCorrect`, `OneEventCorrect`, `ExitMatchCorrect`. None is inductive. `LogInv` says what the log is:
its times do not decrease; between two purchases there are a sale and the cooldown (`Purchases`); the position is the
last trade, and every other purchase was sold (`Positioned`); a row of an entry gate stands behind the purchase of its
cycle, at most one candle later, and is the only one of that cycle (`EntryRow`); the cycle of an exit row held what
the row says (`ExitRow`). `Running` and `Stage` say why the next row keeps it: a purchase is only on its way, or
unknown, when no position is open and the cooldown is over (`Free`), and a decision with notes reaches `Note` only
after its own purchase (`OwnPurchase`). `OwnPurchaseIsNearest` is then arithmetic with the window and the cooldown,
and `FirstSale` takes the least row after a purchase by well-foundedness. TLC checked the parts as invariants of
`measure` before they were proved.

`PanelProofs`: `ListsCorrect` for any number of editors: whatever an edit is about to write respects the caps,
because it was decided on one reading (`ListInv`). `LoneEditsCorrect` says in `LoneInv` what an edit that has
the lists to itself has read and written. `BudgetCorrect` for any providers and budgets: what the cycle spent is
at most what earlier processes of the day may have spent plus what the counter says, and a request about to be
sent still fits (`BudgetInv`); the allowance of a restart and of midnight is what that sum grows by.
`CycleGoesOn`, `CycleLength` and `CycleNotStuck` are about the end of a cycle. `StepsLeft` counts three steps
for each provider of each market that is left; the steps of the scan, the router and the verdict lower it, and
the edits of the user do not raise it, because the cycle took its markets when it started. The markets of a
cycle are bounded by the cap of the list, the slots and `max_auto`. `CycleHasStep` says which guard is true at
each point of a running cycle (a question belongs to a market, and to a slot that is still free): it stands in
for ENABLED, which the provers do not handle.

Assumptions used: the named ones of the modules, above all that the jobs differ and that the sets of
markets and tickers are finite; `WinsCorrect` alone has a condition of its own, `MarginsPay`.

*Only model-checked:* liveness (`EveryOrderSettles`, `PositionGetsStop`, `WaitEnds`, `EveryExitTried`,
`UnknownIsHandled`, `CycleEnds` and `OrphansAreSwept`). Fairness and ENABLED are out of the prover's reach. What
these properties need of the safety part is proved: that calls, holds, runs and cycles get shorter with each of
their steps, are of bounded length and, for `hold` and the panel's cycle, always have a next step. Every
invariant and action property of a passing run is stated by a theorem.

## 5. Where the text and the code differ

Two runs are there to show a disagreement and end in a violation:

* `paper_cash`: `_sell` and `_buy` of the paper broker read the cash before their first write, that is
  before SQLite starts the transaction, and write the new amount as an absolute value. The lock is
  one of the market, the row is shared. Guard sells A (reads 100), cycle buys B (reads 100, writes
  60), guard writes 100 + 50: the purchase never happened to the cash. `FeesFollowTrades` holds,
  because the fees are read inside the transaction (the flush of the cash precedes them).
* `cycle_cap`: the exposure of live.py:104-106 counts booked positions. An entry of unknown state (or with
  late fills) does not count, and a second one is let through: the header's "hard begrensd" does
  not hold until the orders are settled. The reconciliation of the next cycle pauses buying unless it
  can settle them (`UnknownIsHandled`).

What else the models had to follow the code in, against a comment or a docstring:

* strategy.py:269 says of the breakeven stop that what was far enough in profit "mag geen verlies worden",
  277-280 that its offset makes the exit come out "netto rond break-even ... in plaats van op een verlies na
  kosten"; decision.py:119-123 and config.yaml:69 say the same. The stop fires at any price on or below its level.
  That is looked at when a bar closes (the backtest) or a cycle runs (the engine, every hour), and the sale is at
  that price: in the instance of `replay` a bar after a fill at 1020 reaches 1060 and closes at 1000, and the
  position is sold at 1000. Even a sale at the level loses a little, by the slippage: the level covers the fees and
  a margin of 0.05 %. `WinsAreTargets` says what the code does: every exit of this stop is among the losses.
* The header of live.py (25-28) says that no stop is sent while an entry of the market is open or unknown.
  `_buy` (606-611) and `_finish_order` (350-358) send one for the booked part of such an entry. The code is
  the safer of the two; `SentIntoQuietMarket` states what holds.
* engine.py:179-182 promises that slots and clusters count what the same cycle opened. A live buy that is
  booked in part and then raises `OrderStateUnknownError` skips the refresh at line 323; the next buy of the
  cycle is judged without that position. Only the exposure cap is left then.
* `_exit_failed` pauses "zodat er geen nieuwe positie bijkomt" (580-581). The cycle reads the switch once, before
  correlation, regime and LLM; a buy that has passed it goes out: one at most (`AtMostOneLateBuy`, proved).
* backtest.py:1 says "dezelfde exits". The backtest ignores `exits.time_stop_binding`, which engine.py:410
  honours, gates the costs by addition (336) where the engine asks for the break-even win rate
  (decision.py:258-278), and fills a stop at its level even when the candle opened below it.
* shadow_gate.py:232 counts an exit row without a round trip as an open position; the guard may have sold
  it between the reading of the position and the row. `ExitEventsMeasureTheirPosition` names both cases.
* shadow_gate.py:46-53 expects a row of an earlier gate in every cycle while a later gate binds. A binding skip
  drops the details, and with them the notes: there is no row. `OneEventPerPurchase` holds because of it.
* `match_real_outcome` (veto.py 286-297) may match two shadow vetoes to one later trade when the first buy
  failed, and a binding veto to the purchase that a later agreement allowed. This path is not modelled.
* `apply_second_opinion` treats an agreement below `llm_min_confidence` as a veto; llm.py logs "agree" and
  veto.py:536 reads "veto" only: such a refusal is never measured.
* The engine's defaults of `time_stop_binding` and `llm_veto_binding` are true (410, 307), those of the hash
  (`_is_binding`) false: a configuration that leaves them out acts binding and is hashed as shadow. The
  models take both from one configuration that spells them out.
* llm.py says that `attempt` never raises; an answer with another shape raises `IndexError` or `TypeError`
  (`raised` in `LLMRouter`), which the engine catches per market.
* `build_roundtrips` closes a round trip at the first sale. In live mode an exit that fills in parts has
  several rows; `Measurement` models the paper broker's one row per sale.
* A daily budget is one of a process and a day: the counters start over with a restart, and `probe` neither asks
  the budget nor turns the day. `CycleWithinBudget` states what is left of it.

## 6. State of the plan

Done: the order path with its ledger, locks, paper broker, engine, rules, backtest, gates and
measurement, lists, router, scanner. Each new part is in a run of its own, since they share no state with
the others.

Proved: every safety property of the passing runs, the refinement of the order path, and the termination
measures behind the liveness properties.

What would add most from here: the refinement of the broker steps of `TradingCycle` by the operations of
`LiveMarket`, and the matching of vetoes to real outcomes (`veto.py`) with partial sales in the log.

## 7. Not modelled

* Floating point and indicators (`indicators.py`): a snapshot of their values is an input of `Rules`.
* The HTTP client and the formatting of amounts (`exchange.py`): an answer, a failure or silence
  is what the order path sees; `drop_unclosed` is in `Replay`.
* `optimizer.py`, `calibrate.py`, `analysis/alfa.py`: searches and statistics over floating-point results;
  they change no state that a decision depends on. The old model that `calibrate` compares with is a mode
  of `Replay`.
* The front end, the read-only views of `web.py`, Telegram and MQTT: they read, and a failure of theirs is caught.
* Import of an export (`export.py`): an operation on a stopped program's database. The order in which an
  export reads its tables is in `Measurement` (`Cuts`).
* The percentages, confidence intervals and verdicts of the analyses: arithmetic over the matched rows.

`PROJECT.json` lists the status of every component, and under `hazards` those that no property covers with the
reason why.
