# TLA+ models of crypto_cpp

This directory holds TLA+ specifications of the trading program under
`src/frontend/crypto`, the TLC configurations that model-check them, and proofs
for TLAPS. Paths below are relative to `src/frontend/crypto` unless they start
with `src/`.

1. [The system](#1-the-system)
2. [The modules](#2-the-modules)
3. [The runs](#3-the-runs)
4. [Fairness](#4-fairness)
5. [The proofs](#5-the-proofs)
6. [Where the code and its documentation differ](#6-where-the-code-and-its-documentation-differ)
7. [What is not modelled, and what is left](#7-what-is-not-modelled-and-what-is-left)

To check a model or a proof:

    tlc -config MCOrderManager.cfg MCOrderManager.tla
    tlapm OrderManagerProofs.tla

## 1. The system

A user picks a symbol, a strategy and either a range of history (backtest) or
live trading. A `StrategyInstance` then runs the strategy in an event loop of
its own: prices arrive from a market data gateway, the strategy sends orders
through its `OrderManager` to a trading gateway, and the gateway's answers and
trades come back through channels. Charts listen to what the instance
publishes, in the user interface's thread. An optimizer runs many instances at
once and keeps the best configuration.

| Component | State | Operations | Correct when |
|---|---|---|---|
| Order manager `trading_engine/OrderManager.cpp` | maps of pending market and conditional orders, one TP/SL, one trailing stop | send / cancel of each kind, `on_order_response`, `on_trade`, TP/SL, trailing and conditional updates, unsubscribe callbacks | every execution is counted once; a finished order leaves `pending_orders()`, an unfinished one does not; no order rests at the exchange unknown to anyone |
| Event delivery `util/Event*.h`, `ThreadSafePriorityQueue.h`, `Scheduler.h` | queue of four priorities per loop, subscription lists, delayed events | push, push_delayed, subscribe, destroy a subscriber, pop, barrier | pushes of one thread keep their order, nothing is lost or runs after its owner is gone, a barrier waits for what was queued |
| Object and time series channels `util/EventObjectChannel.h`, `EventTimeseriesChannel.h` | last object / series and subscriber lists | update, subscribe, subscription count callback, end of the channel | a subscriber sees each update once, on top of its snapshot |
| Backtest gateway `gateway/BacktestTradingGateway.cpp` | position, last price, TP/SL, trailing stop, resting orders | one `push_*` per request, `on_new_price` | orders whose price is reached execute once; exits belong to the position they were made for |
| Exit strategies `strategy/TpslExitStrategy.cpp`, `DynamicTrailingStopLossStrategy.cpp`, `TrailingStopStrategy.cpp` | the active exit and its subscription, "position opened" | on_trade, on_updated, on_price | an open position has exactly one exit, a closed one none |
| Strategy instance `StrategyInstance.cpp` | status, position, data generator, pending requests, stop flag, promise | run_async, stop_async, prices, trades, errors, stop, finish | the position agrees with the exchange; a stop leaves nothing open; a panic stays visible; `finish_future` returns |
| Grid strategies `strategy/DynamicGridWithBan.cpp`, `StaticGridWithBan.cpp`, `GridLevels.cpp` | the centre (trend or interval), a `Level` for each price level | price, candle, order and exit updates | each level trades for itself; each open level has both exits |
| Entry strategies `strategy/*.cpp` | windows of indicators, the last signal | price or candle to signal, `try_send_order` | signals follow from the indicators' definitions; no second entry while one is pending or open |
| Technical analysis and candles `ta/*.cpp`, `util/CandleBuiler.cpp` | windows, sums, the open candle | push a value, a trade or a candle | windows agree with the history; candles tile the time line |
| Positions and profit `trading_primitives/Position.cpp`, `PositionManager.cpp` | open and closed part of a position, the result | add a trade, close, `process_position_result` | money and fees are conserved |
| Strategy configuration `strategy/StrategyFactory.cpp`, JSON | none | build a strategy from a configuration | the configured exit belongs to the strategy |
| ByBit trading gateway `gateway/ByBitTradingGateway.cpp` | websocket, REST client | the same requests, answered by the exchange | every request is answered |
| Market data gateway `gateway/ByBitMarketDataGateway.cpp` | live and historical requests, the websocket client | live request, unsubscribe, check, reconnect; historical request | the connection carries what the live requests ask for; every historical request is answered |
| Connection watcher and network `network/ConnectionWatcher.cpp`, `WebSocketClient.cpp` | ping outstanding, connection ready | ping, pong, check, open, close | a dead connection is found, a living one is kept |
| Market data files `util/BybitTradesDownloader.cpp` | a reader's place | read, download | each day of a range, in order |
| Worker threads and optimizer `optimizer/*.cpp` | two counters, the collector | take the next configuration, push its result, join | each configuration is tried once and the best returned |
| User interface `src/frontend/mainwindow.cpp`, `src/frontend/chart_window.cpp` | buttons, the current instance, chart windows | run, stop, status changed, open and close a chart | buttons agree with the instance; a chart shows the series |
| Logging and small utilities | | | |

How they interact:

- **Channels and loops.** Objects talk through `EventChannel` (events),
  `EventObjectChannel` (the last value of an object) and
  `EventTimeseriesChannel`. A push runs in the pusher's thread and ends with an
  event in the queue of each subscriber's loop. Destroying the subscriber object
  is the way to unsubscribe.
- **Synchronous requests.** In a backtest the gateway is an object of the
  instance: a request executes at once, and its response and trade wait in the
  queue of the same loop while the code that sent it runs on. All of the
  program's state (`m_orders`, the position, the exit) is therefore *behind* the
  exchange, by what is in the queue.
- **Priorities.** Prices of a backtest are pushed with priority Low, one at a
  time, so that the answers to an order are handled before the next price;
  a panic and a stop request have priorities of their own.
- **Delayed events.** A delayed event comes back through a channel that is chosen
  by the guid of a loop, and all loops have the same default guid
  (`util/EventLoop.h:102`): each loop of the process executes it.
- **One gateway, many instances.** Prices and historical data are pushed to every
  instance there is; each picks its own by request guid or takes all of them.

What is hard here, and what the properties are about, is listed line by line
under `hazards` in `PROJECT.json`. In short: responses and trades of one order
come in either order; partial executions; cancels that cross an execution; a
subscriber destroyed while events for it are queued, being pushed, or delayed;
decisions on state that is behind the exchange (entries, stops, exits); updates
without a guid applied to a newer object; an order that executes or triggers
*while it is being sent*; a level or an exit removed in its own callback; a
connection that is lost while it is checked, replaced by one thread and used by
another; a stop that overtakes the request it is to cancel; windows and sums that
drift from what they stand for, with quotients of zero by zero; and flags that must all
be cleared before an instance, an optimizer or a click on Stop can finish.

## 2. The modules

Each line is a module and what extends it; `=>` is a refinement.

    OrderManager ──┬─ OrderManagerContract ─┬─ MCOrderManager
                   │        │               └─ OrderManagerProofs
                   │        └=> OrderLedger
                   ├─ ExitStrategies ─────┐
    BacktestTradingGateway ──┬────────────┴─ StrategyInstance ─┬─ MCStrategyInstance
                             │                                 └─ StrategyInstanceProofs
                             └─ GridBacktest ─┬─ MCGridBacktest
                   OrderManager ───┤    │     └─ GridBacktestProofs
                   GridLevels ─────┘    └=> LevelPositions
    Queues ── EventDelivery ─┬─ MCEventDelivery
         ├─ QueueProofs ─────┼─ EventDeliveryProofs
         │                   ├─ StrategyInstanceProofs
         │                   ├─ GridBacktestProofs
         │                   └─ TimeseriesChartsProofs
         └─ TimeseriesCharts ─┬─ MCTimeseriesCharts
                              └─ TimeseriesChartsProofs
    MarketDataGateway ── MarketData ─┬─ MCMarketData
                                     └─ MarketDataProofs
    ConfigGenerator, MarketDataFiles ── Optimizer ─┬─ MCOptimizer
                                                   └─ OptimizerProofs
    Doubles ─┬─ Indicators ── Signals ── MCSignals
             └─ Positions ── MCPositions

`PROJECT.json` maps every definition to the lines it stands for. Names follow the
code (`m_orders`, `on_trade`, `try_send_order`); a name that ends in `_Something`
with the comment "Mutant" is the wrong variant of the definition below it and is
used by no specification. A history variable or a bound is named as such where
it is declared.

**OrderManager** is the state of the class and one operator per method, without a
caller. `m_orders` is the set of guids that have an entry; `acked`, `traded` are
the two flags of an entry, kept after it is erased; `subscribed` says whose object
channel has a subscriber; the fields of the order objects, which are shared by
pointer and outlive the entry, are functions (`target`, `filled`,
`suspendedVolume`). `m_take_profits` and `m_stop_losses` are handled twice by the
same code and are one set. Errors that the class raises are the history
`unsolicited` and `strayResponses`. The TP/SL and the trailing stop are in
ExitStrategies, next to their only callers.

**OrderManagerContract** puts that table between *any* strategy and *any* gateway:
orders are executed lot by lot, what is left may be withdrawn (IOC), up to
`Responses` responses arrive with any verdict, trades and responses travel
independently, conditional orders trigger, are cancelled, or are cancelled too
late, and a subscriber may leave at any moment. It is the contract that both
gateways and the test doubles fit.

**OrderLedger** is what the owner of a manager may rely on, without its tables: an
order is known from the moment it is sent until it is forgotten, once, and each lot
executed is in the end filled in the order or reported as unsolicited, never both.
The refinement mapping reads `sent` and `known` off the manager's maps, `filled`
off the order objects.

**EventDelivery** has a step for each stretch of code between two points where
another thread can interfere: the mutex of the subscription list and the
reference count of a subscription. A producer locks, walks the list, promotes
each `weak_ptr`, enqueues, and releases; if it releases the last reference, the
subscription's destructor locks again, in the same thread (`"stuck"`). A
destruction is in phases (list cleared, events discarded). Delayed events
wait in the scheduler's multimap and come back as an event of every loop that wraps
them (`Hop`). A barrier is the lowest priority.

**TimeseriesCharts** is `EventTimeseriesChannel` between the thread of a strategy,
which pushes, and that of the user interface, which opens charts (the entry, then
the snapshot, under two mutexes), closes them, and destroys the instance with its
channels while the loop may still push: `m_event_loop` is the first member of
`StrategyInstance` and so the last to go. A chart that closes while a push shares
its subscription leaves the push with a consumer that is gone, and then with the
last reference, whose destructor waits for the mutex its own thread holds. The
comment at `util/EventTimeseriesChannel.h:104` ("it can't be nullptr, unsub always
happens before") does not hold for that chart.

**BacktestTradingGateway** has no variables: the gateway is called synchronously, so
a request is a function from one gateway record to the next, with the events it
pushes in `events`. `try_trigger_conditionals` is modelled with the iterator it
has: after `erase` in the loop the iterator is advanced once more, and `++end()`
of a `std::list` is its first element in libstdc++. The order behind a triggered
one thus executes one price or one request later.

**ExitStrategies** has the event loop of an instance (one list per priority), the
gateway behind it, the exit's half of OrderManager and both exits. Distances are
constants in place of percentages and fees.

**StrategyInstance** is a backtest from `run_async` to the finish promise: an action
for each kind of event the loop executes, for the owner (run, stop) and for the
market data gateway (an answer to this instance and to another one on the same
channel). What a price makes the strategy *want* is an input; whether an order
follows is the code's decision. After a stop has cleared the generator, a queued
price calls `get_next` on an empty optional: that is undefined, and the model has
three outcomes (a price, the end of the data, a crash).

**GridLevels** and **GridBacktest** are the grids over OrderManager and
BacktestTradingGateway: prices, candles, the trade of an entry (which sends both
exits, any of which may execute at once), and the updates of exits, which erase
the level and cancel the other exit in the callback of the object that is
destroyed. `DynamicGridAdx` takes trend and ban as inputs; `StaticGrid` computes
the limits of its interval from the prices, hands over to the next interval, and is
banned by a price beyond the limits. Levels of an older interval keep their keys. A
level's width is a constant instead of a percentage of the centre.

**LevelPositions** is what a grid promises: each level trades one lot as if there were
no other, a price may close any of the levels that hold one, each once, and the
account moves by what the levels take and give back.

**MarketDataGateway** is `ByBitMarketDataGateway` with the ConnectionWatcher it
supervises and the WebSocketClient it owns: live requests, checks, pings, lost and
silent connections, reconnection. A step is what runs between two points where
another thread can interfere (the gateway's loop, the client's thread, callers of
`unsubscribe_from_live`, and the loop of a strategy, which executes the delayed
checks as well). Three consequences of the code are outcomes of the model rather
than left out: a second execution of one check finds `m_pong_received` reset by the
first and replaces a living connection; a loop that polls `wait_until_ready` of a
client another loop has replaced reads freed memory; a live request handled while
the client is not open throws in `subscribe`. The last two are `crashed`.

**MarketData** adds who asks: the main window's buttons and the statuses it is
shown, and the live half of StrategyInstance (one request, stop, panic, promise).
If the window no longer listens when the instance stops, its Stop button stays
enabled, and a second click retrieves the future twice, which throws (`crashed`).

**ConfigGenerator**, **MarketDataFiles** and **Optimizer** are an optimisation: the
grid of configurations, the threads that share a counter and the collector, and for
each configuration an instance whose historical request goes to the one gateway,
whose answers go to all instances. A file that cannot be had gives a reader without
trades, and the instance never finishes; a configuration whose strategy cannot be
built never finishes either (`stuck`).

**Doubles** are exact fractions with NaN. **Indicators** and **Signals** are the candle
builder, the indicators and the entry strategies: every trade is a price, and completes the
candles before it. A strategy is a record of its members. The indicators are
modelled with what they do at their borders: moving averages drop one value per
push at most; the trend of the bands excludes the current value while the deviation
includes it; a directional movement of the first candle is taken against zero; a
flat market gives zero by zero.

**Positions** is OpenedPosition, ClosedPosition, PositionManager and
`process_position_result` under any sequence of trades: a trade may increase the
position, close a part, turn it, or have no volume at all. The snap of a volume
below 1e-8 to zero is abstracted.

## 3. The runs

`CHECK_DEADLOCK FALSE` is set throughout: every system ends (an instance that
has finished, a producer that has pushed all it may, a bound). That nothing stops *too
early* is what the liveness properties are for.

| Run | Instance | Result |
|---|---|---|
| `order_manager` | one market and one take profit order, up to 2 lots, 2 responses | 60 102 states, holds |
| `grid` | dynamic: 5 prices out of 7, 2 trends; static: 7 prices out of 5, intervals of 3 candles; 2 levels per side and the centre | 2 509 776 states, holds |
| `strategy_instance` | 4 strategies (two per exit, one on prices and one on candles), 4 prices out of 3 values, a user's stop, a foreign answer | 256 175 states, holds |
| `event_delivery` | two producers (3 pushes, 1 delayed), two subscribers of different priority, one loop | 552 041 states, holds |
| `timeseries` | 4 values, two at one time, capacities none, 0 and 1, two charts | 151 269 states, holds |
| `market_data` | 2 live requests of different symbols, the gateway started with and without a first connection, a panic | 8 978 954 states, holds |
| `optimizer` | two threads, three grids of 2 to 4 configurations, three days, five ranges | 40 449 states, holds |
| `signals` | six trades out of six kinds, candles of two units, averages over two | 55 987 states, holds |
| `positions` | four trades of -2 to 2 lots at three prices, with and without fees | 108 564 states, holds |
| `stop_flat`, `late_event`, `partial_close` | one property each that a doc or a test states | violated, see section 6 |

What each holds, and why it could fail:

*order_manager.* `KeepsTheLedger`: the manager in its environment implements
OrderLedger, its liveness included. `EveryExecutionAccounted`: a lot executed is on
its way, counted, or reported; a duplicate or a trade for an erased entry would
break the sum. `NoFinishedOrderIsKept`: an entry answered and traded is gone
whichever of the three events (response, trade, departure of the subscriber) came
last: each of the three handlers has its own erase. `AlarmsExplained`: an
"unsolicited" error only for orders that an earlier pair completed.
`NoOrphanAtExchange`: a conditional order the manager forgets has a cancel on its
way. `QuietStatusTellsTheCrossing`: what a conditional order reads once all about it is
handled. It is not always what happened to it: see section 6 for a cancel that meets an
execution. The property says which status comes of which order of trade and cancel, so
that Pending, which then lasts, is exactly the mark of a trade handled after the latest
request. `ExecutedOrdersLeave`: the table does not
keep an executed order for ever. *Bounds:* entries of different orders share
nothing, so one order of each class has all the interleavings; 2 lots give a
partial execution, 2 responses a duplicate. Take profits and stop losses go through
the same operators. The safety properties are proved without bounds (section 5).

*grid.* `LevelsAreIndependent`: the grid implements LevelPositions, whichever orders a
price jumps over or one order of another sets off, and though events wait behind the
gateway. For a static grid it says so of gateways that pass over no order that is reached
(`Missed`): its stop loss lies beyond the limits of the interval, not a distance from the
entry, so it may be reached when it is sent. Should the iterator of
`try_trigger_conditionals` then step over it, the next price may execute both exits
of the level, and the grid would hold a lot that no level knows of.
`EveryLevelHasBothExits`: between two prices the gateway, the order manager and the levels
have the same exits. `LevelsCloseAwayFromEntry`: the trend may move between an order and
its trade, still no level is closed next to its entry. `NoGridErrors`: none of the
errors a grid reports is ever met.
*Bounds:* the prices lie on the borders of levels and inside them and jump over all
of them at once, as far as a stop loss; five prices open, move the trend, close, open
again and close again; the seven of a static grid fill an interval, hand over, and
leave the limits. Six entries are more than there are levels; a run that has used the
six guids opens no further level.
The four properties are proved without bounds (section 5).

*strategy_instance.* `PositionAgrees`: the position computed from trades plus what
is queued is the exchange's, also across stops that close twice.
`NoAdditionalOrders`, `PositionIsProtected`, `NothingLeftBehind`: one entry at a time,
each with its exit in all three places (gateway, manager, strategy), none left
over. `StopLossShownIsCurrent`: responses carry no guid, still the stop shown is
the stop that executes. `NoAlarms`, `PanicIsKept`, and `BacktestFinishes`.
*Bounds:* four prices, because the end of the data is right behind the last one:
entry, replacement of the trailing stop or exit, the next entry, and its exit. The
values 1, 2 and 4 reach a take profit, a stop loss, a trailing stop with and without
the tighter one, for both sides. 2 candles in one price give two signals against one
position. No run uses up the five guids of either kind. "Quiet" in these
properties means that the loop has nothing left but the next price.

*event_delivery.* `PushesRunInOrder` (for one producer and one subscriber, in the
order of the pushes, delayed ones aside), `NoEventIsLost` (what was pushed to a living
subscriber ran or is on its way, whoever else is being destroyed), `BarrierFlushes`
(when a barrier returns, what the same thread pushed before it has run),
`BarrierReturns`, `SurvivorsMeanDeadlock` (apart from delayed events, an event outlives
its subscriber only if its push held the last reference to the subscription, and
that push is then stuck on the mutex it holds). *Bounds:* two producers race for the
lock and for the last reference; two subscribers let one die while the other must not
lose anything, at two priorities.

*timeseries.* `ChartsShowTheSeries`: a chart opened at any moment of a push shows every
value that was not too old and every later one, in order and none missing; only the
value being pushed when it opened may come twice. `ChartsCatchUp`: a value pushed
while a chart is open is drawn in the end, whatever the other windows do. *Bounds:*
with two charts one may close while the other is served; two values at one time are
at the border of the capacity. `ChartsShowTheSeries` is also proved, without bounds.

*market_data.* `SubscriptionsAreTheRequests`: between replacements of the client,
exactly the live requests are subscribed on the connection, though requests,
reconnection and cancellation are handled in three threads. `RequestsHaveOwners`: a
request is kept no longer than its strategy wants prices, apart from two ways, which
the property names: the stop overtakes the request in the gateway's queue, or the
strategy is replaced while it runs. Such a request blocks every later one.
`AnsweringConnectionsAreKept`: a gateway whose loop is the only one gives up a
connection that answers only if a pong fell between a ping and the reset behind it.
`WatchGoesOn`: from the first connection on there is always a next check. (A gateway
whose constructor gives up on its first connection schedules none, and never
connects.) *Bounds:* `MaxChecks` caps counters of checks, of which more of the same
change nothing (`WatchGoesOn` is proved for every cap); one outstanding ping
tells an answering connection from a silent one; two requests are an old and a new one.

*optimizer.* `BestOfTheGrid`: each configuration is tried once and the best given back,
whatever the threads and their order. `BacktestsReadTheirDays`: each backtest handles
the trades of its days once and in order, though the answers of the others arrive as
well. `OptimizerReturns`, if every strategy can be built, every file can be had and
there is a trade. *Bounds:* two threads race for the counter and the collector; the
ranges start and end inside days, and one ends at an earlier time of day than it
starts, so that the code leaves out its last day; a day without trades lies first, in between
or alone.

*signals.* `CandlesAreTheTrades`: the candles tile the time line and are made of the
trades of their period. `IndicatorsAgree`: what the indicators keep from push to push
amounts to their definition over the whole history, undefined values included.
`SignalsTakeTurns`: three strategies alternate, a fourth gives no second signal before
the trend was crossed. `UndefinedAdxBansNoMore`: once the ADX is 0/0 its sum stays so
and the grid is never banned again. *Bounds:* six trades with gaps of up to four candles are
enough for an ADX over two, which takes five.

*positions.* `PositionsAreConserved`: no money and no fee is lost or counted twice
between the closed and the open part, whether trades increase a position, close it in
parts or turn it. `WholeClosesAreTheProfit`: as long as each position is closed by one
trade, the result is the money of all trades less the fees. `PriceLevelsBreakEven`:
at the no-loss price an unturned position breaks even. *Bounds:* two lots give parts,
three prices give averages that are fractions, four trades an increase, a partial
close, a flip and an end.

Every property has a mutant in `PROJECT.json`: a definition replaced by a
plausible mistake in the code it models, under which the same run finds the
property violated.

## 4. Fairness

- *OrderManagerContract*: weak fairness of `DeliverResponse` for each order and of
  `DeliverTrade` for each guid. Every branch of the gateway's `process_event` pushes
  a response, and a loop's thread runs while its queue is not empty. The exchange
  is not obliged to execute anything, nor a strategy to send or leave. OrderLedger
  asks for as much: `Settle` of each order is weakly fair.
- *EventDelivery*: weak fairness of each loop's pop and of its return from a
  callback (callbacks terminate). Producers and destructors owe nothing, except
  that their own steps are not needed by the property.
- *StrategyInstance*: weak fairness of the loop, and of the market data gateway's
  answer to this instance's request while the instance has not crashed. The
  owner is never obliged to stop it.
- *TimeseriesCharts*: weak fairness of a push once begun, of drawing in the user
  interface's loop, and of the second half of opening or closing a window, as long as
  nothing has crashed. Nobody has to open, close or destroy anything.
- *Optimizer*: weak fairness of each thread of the pool (the loop of its instance
  included), of the gateway's loop and of the return behind the join.
- *MarketData* states no liveness: it depends on the network.

## 5. The proofs

Proved by TLAPS for every value of the constants that satisfies the named
assumptions (`GuidsAreUnique`, `MaxVolumeIsPositive`, `ResponsesIsPositive`,
`BoundsArePositive`, `BoundsAreNumbers`, `PricesAreNumbers`, `DistancesAreNumbers`,
`ExitGuidsAreUnique`, `NoneIsNoGuid`, `NoneIsNoRequest`, `PoolIsNotEmpty`, `ScoresAreIntegers`,
`WidthIsPositive`, `SidesHaveLevels`, `StrategiesAreKnown`, `PricesAreIntegers`,
`PricesHaveALimit`, `CandlesAreCounted`, `SubscribersHaveALoop`,
`SubscribersHaveAPriority`, `EveryoneSubscribed`, `ThreadsAreProducers`,
`FilesHoldTrades`, `RangesAreTimes`, `TimesAreNumbers`, `TimeIsMonotone`):

| Theorem | Statement |
|---|---|
| `TypeCorrect` | `Spec => []TypeOK` for OrderManagerContract |
| `ExecutionsAreAccounted` | `Spec => []EveryExecutionAccounted` |
| `FinishedOrdersAreErased` | `Spec => []NoFinishedOrderIsKept` |
| `AlarmsHaveAReason` | `Spec => []AlarmsExplained` |
| `NoConditionalIsOrphaned` | `Spec => []NoOrphanAtExchange` |
| `SingleTradesRaiseNoAlarm` | with one lot and one response for each order, `Spec => []NoFalseAlarm` |
| `ImplementsLedger` | `Spec => Ledger!Spec`: OrderManagerContract refines OrderLedger |
| `QuietOrdersTellTheCrossing` | `Spec => []QuietStatusTellsTheCrossing` |
| `InstanceKnowsItsPosition` | `Spec => []PositionAgrees` for StrategyInstance |
| `PanicStays` | `Spec => PanicIsKept` |
| `ShownStopWillExecute` | `Spec => []StopLossShownIsCurrent` |
| `OneEntryAtATime` | `Spec => []NoAdditionalOrders` |
| `OpenPositionsAreProtected` | `Spec => []PositionIsProtected` |
| `ClosedPositionsLeaveNothing` | `Spec => []NothingLeftBehind` |
| `NothingIsUnsolicited` | `Spec => []NoAlarms` |
| `TheWatchGoesOn` | `Spec => []WatchGoesOn` for MarketData |
| `ConnectionCarriesTheRequests` | `Spec => []SubscriptionsAreTheRequests` |
| `AnswersKeepTheConnection` | `Spec => AnsweringConnectionsAreKept` |
| `LiveRequestsHaveOwners` | `Spec => []RequestsHaveOwners` |
| `TheBestIsReturned` | if the generator yields the grid, `Spec => []BestOfTheGrid` |
| `EachBacktestReadsItsDays` | `Spec => []BacktestsReadTheirDays` for Optimizer |
| `RunInOrder` | `Spec => []PushesRunInOrder` for EventDelivery |
| `NoPushIsLost` | `Spec => []NoEventIsLost` |
| `BarriersFlush` | `Spec => []BarrierFlushes` |
| `SurvivorsAreStuck` | `Spec => []SurvivorsMeanDeadlock` |
| `WithoutSelects` | discarding events leaves exactly the others, in their order |
| `OrdersInTurn` | `Spec => []IInv` for GridBacktest |
| `GridsMeetNoErrors` | `Spec => []NoGridErrors` |
| `LevelsHaveBothExits` | `Spec => []EveryLevelHasBothExits` |
| `OrdersArePriced` | `Spec => []Prices` |
| `ClosedAwayFromEntry` | `Spec => LevelsCloseAwayFromEntry` |
| `GridsAreIndependentLevels` | `Spec => LevelsAreIndependent`: GridBacktest refines LevelPositions |
| `PositionIsWhatLevelsHold` | `Spec => []PositionIsHeld`: the position of a dynamic grid is the sum of its levels' lots |
| `ChartsAreInStep` | `Spec => []IInv` for TimeseriesCharts |
| `ChartsShowEverything` | `Spec => []ChartsShowTheSeries` |
| `PriceIsInItsLevel` | a price lies between the borders of its level |
| `TakeProfitGains`, `StopLossLoses` | the exits of a grid level are on their sides of the entry, whatever the trend has become |

**OrderManagerProofs.** The order manager's theorems follow from one inductive
invariant, `IInv`: `InitIInv`, then `StepIInv` with a step for each action, after
`TypeStep` for the types alone. The properties of the run are not inductive as they
stand, so three conjuncts are added:

- `UnsentIsUnknown`: an order not yet sent has no trace. Without it, sending an
  order could meet flags or executions left from before.
- `ForgottenIsComplete`: what the manager erased by itself, with the subscriber
  still there, was both answered and traded. `AlarmsExplained` needs it at the
  moment a response or a trade finds no entry.
- `ConditionalsAreWatched`: every conditional entry has its subscriber. Without it
  the erase that follows a trade could apply to a conditional order that still
  rests, and `NoOrphanAtExchange` would not be preserved.

`SingleTradesRaiseNoAlarm` adds `SingleInv` (a complete order has nothing to come).

`ImplementsLedger` is a step-by-step refinement under `IInv`. `LedgerStep` maps each
action to one of the ledger or to a stutter: a response either completes the order
(`Forget`) or leaves no trace; a trade is a `Fill` or a `Report` of the lots
delivered, which are underway because of `EveryExecutionAccounted`; a conditional
order that triggers executes all that is open. It is the safety half of
`KeepsTheLedger`; the run also checks the fairness half.

`QuietOrdersTellTheCrossing` adds `ConditionalsInv`: of an order that the exchange is done
with, the last update, handled or still underway, says so; an entry that was not
cancelled wants exactly what rests or was executed; one that was cancelled never wants
more than was filled, and less exactly when a trade crossed the cancel.

**StrategyInstanceProofs.** All of the instance's state goes through the lists of its
event loop, so the invariants speak of lists. The module begins with lemmas about them,
on top of QueueProofs (`LotsConcat`, `LotsTail`, `LotsWithout`): what
the gateway's operations return (`PriceAtGateway`, `OrderAtGateway`) and how many lots
their events carry (`Moves`), and what each handler leaves of the list and pushes behind
it (`OthersPush`, `OrdersPush`, `TradePush`, `PricePush`, ...). The invariants are

- `BooksAgree`: before its start the instance is idle (`Before`); afterwards `Shapes` (the
  lists hold the kinds of events they may, the gateway has no pending event) and
  `PositionAgrees` hold. This one is inductive because the gateway moves its position and
  pushes the trade in one step, and because discarding events never takes a trade;
- `PanicNoted`: a panic that is shown is also remembered in `m_status_on_stop`;
- `Stops`: `Final(list, kind, e0, e)` says that `e` is what a reader of the list will
  have seen last, starting from `e0`. Started from the stop that the order object shows,
  the reader ends with the stop of the gateway, whenever both have one. The guid of the
  object must be the gateway's, so exit guids are fresh (`issued`);
- `Alone`: as long as nobody has stopped the instance, a signal in the list stands before
  every event that could let the strategy enter (`EarlyLate`), or there is none (`Late`),
  and if the strategy may enter then the gateway has no position; and the last news of
  the position in the list is true (`NewsIsTrue`). `NoAdditionalOrders` fails without
  them when the news of a closed position and an old signal are both queued.

*A position and its exits*, the second half of the module: the three properties follow
from `LifeIsKept` and `Ledger`, on top of `Alone`.

- `Life`: `Core(list)` is what a list says of the position and its exit; signals, market
  orders and the like are left out (`Noise`), and taking or pushing them changes no core
  (`CoreConcat`, `CoreTail`, `CoreDiscards`). Until a stop, the state and the core are in
  one of a few phases: without a position (`Free`), with an entry of which the exit still
  has to hear (`Entering`), with a TP/SL (`Covered`) that executes (`Taken`), with a
  trailing stop that is pulled up or replaced (`Trails`) and executes (`StoppedOut`,
  `StoppedTold`). Each phase lists the cores it allows, so the head of a core determines
  the next phase (`NextNews`, `NextTrade`, ..., then `LivesNews`, `LivesTrade`, ...: one
  lemma for each handler). When the list is empty only `Free`, `Covered` and `Trails`
  remain, and they are the two properties.
- `Priced`: a price goes to the gateway at once, but to the trailing stop's owner only as
  the first entry of the list. In between the gateway may have executed the stop that
  this very price would replace. That the handler then sends no second stop, for a
  position that is gone, is arithmetic: `Near` and `FirstStop` relate the stop at the
  gateway to the level without loss, so a price that reaches the stop is not `Far`
  (`ReachedIsNotFar`), and one that pulls it up keeps it `Near` (`PullsNear`). It needs
  that distances are not negative (`DistancesAreNumbers`).
- `Leaving`: until the strategy has heard that an exit closed its position no signal can
  enter; otherwise an entry could meet the exit of the position before.
- `Ledger`: `Due(list, open, done)` says that a list speaks of orders of the manager's
  table only, and of none behind its trade: the gateway pushes the response before the
  trade, and the trade is what lets the manager forget the order. It holds with stops
  too, so the market orders' half of `NoAlarms` does; the exits' half follows from `Life`.

**MarketDataProofs.** `WatchGoesOn` is not inductive: a check that is queued in the
loop of a strategy goes with that loop, so it must not count as the only one.
`WatchInv` strengthens it by

- `WatchIsHeld`: the next check is with the scheduler, in the queue of the gateway's
  own loop, or some loop is at a point of `reconnect_ws_client` behind which it is
  delayed again;
- `StartsAlone`: while the constructor waits for its first connection there is no
  watch and no other loop. Without it the constructor that gives up could be the one
  that held a watch;
- `WatchTypes`: the types of the variables the watch depends on. The others change
  without effect on it, which `StutterWatchInv` says once for all.

The connection and its requests: `SubsInv`: the gateway has one live request at most (so a
cancellation cannot take a topic that another request needs), a client was asked for
nothing but live requests, and a client the watcher has may lack one only while some
loop is about to ask. `AnsweringInv`: a single loop never sees the pong flag cleared
without an answer on its way, or lost between the ping and the reset; the conjunct on
`"verified"` says the same of the flag about to be cleared.

The owners of the requests: a request passes through two queues, so `OwnersInv` speaks of
both: `StartsOnce` (the start is the first event of an instance that has asked for
nothing), `AskedOnce` (no request is made twice, so none comes back once it is
cancelled), `OwnedOrExcused` (the property, for the requests in the gateway's queue
too), and `StopLeavesNothing`: once a stop is on its way the request is gone from the
gateway and from its queue, or excused. Without the last the instance could forget a
request that is still live.

**OptimizerProofs.** `OptInv`: the counter gives each configuration to one thread
(`TrialsAreDistinct`, `PushedOnce`), none that it has passed is forgotten
(`NoneIsSkipped`), a thread ends only behind the last one (`EndedAtTheEnd`), and the
collector holds the best of what was pushed (`BestOfThePushed`). That
`get_possible_configs` returns the grid is the hypothesis of `TheBestIsReturned`, checked
by the run: it is computed by a fold.

`EachBacktestReadsItsDays` rests on `ReadInv`, one conjunct for each thread
(`OneThreadReads`): what is queued for a thread are readers of the days of its range
(or of none, where a file is missing), and of a reader in use, what was handled and what
it has loaded are together the first files, the rest of which are its `m_files`
(`Reads`). The days a range touches are counted by arithmetic (`DaysAreCounted`); that
files without trades are passed over, and nothing else, is `FirstIsFirst` and
`ReaderGoesOn`.

**EventDeliveryProofs.** `QueueSteps` sorts the steps by what they do to the queues:
four kinds matter (a new call, a barrier, a discard, a pop), the others are `Quiet`.
None of the four properties is inductive; `IInv` adds

- `Holding`: who holds a subscription, and that a push visits each only once. A push
  holds the one it is at, and nobody but its owner holds it besides: so the release that
  follows a destruction is the last, and gets stuck (`HeldStays`);
- `Placed`: the loop and the list an event waits in are those of its subscriber;
- `Bounded`: what a subscriber has of a thread is not of a push that has still to reach
  it, so the next call is later than all before it. With it `InTheirOrder` (what ran,
  and what waits behind it, are in order) is preserved, and `PushesRunInOrder` follows;
- `NothingIsLost`: a push arrived, or is on its way to the subscriber
  (`NoEventIsLost` only speaks of finished ones);
- `Barriers`: each waiting thread has one barrier in one place. A second one would
  release it while the first is still queued.

**GridBacktestProofs.** The grid, the order manager, the queue and the gateway each
hold a part of what becomes of an order, and every handler moves several orders at
once. The module goes from data to behaviour:

- *Lists.* The walk with the iterator that steps once too far, its repetition from the
  start (`ScanSplits`) and the execution of what it took out are recursive functions;
  induction over the list says what each step of them keeps (`IsWalk`, `IsScan`,
  `IsExecution`): what is executed is reached, everything else stays, in its order, and
  two events are pushed for each executed order. `Lots`, the sum over the levels, changes
  by the lot of the level that changes.
- *The invariant* `IInv`. `InTurn`: candles, updates of entries and of exits follow each
  other in the queue in a certain turn only, so that a handler never finds an event that
  an earlier one should have forestalled. `EntriesInTurn` and `ExitsInTurn`: what the
  manager has of an order, what rests at the gateway and what the queue says of it
  (`News`, `About`) are at one of a few points of its life (`EntryState`, `ExitState`).
  `NothingElse`: of a cancelled order only the gateway's word is left. `LevelsMade`,
  `Known`: the level's record names its orders and no others. `NoGridErrors` is a
  conjunct and needs all of this; `QuietLevels` reads `EveryLevelHasBothExits` off
  an empty queue.
- *The prices* `Prices`: an entry not known to be traded was made at the last price, an
  exit that rests, or was executed, lies `Away` from the entry of its level, by
  `TakeProfitGains` and `StopLossLoses`.
- *Five kinds of steps.* `StepsAre`: a step serves a price (`Priced`), enters a level,
  opens it (its entry is traded and its exits are sent, which may execute at once,
  others with them), closes it, or leaves all levels. The refinement and the preservation
  of `Prices` are one lemma for each kind. That one price does not execute both exits
  of a level (`NeverBoth`) is arithmetic on `Prices` for a dynamic grid, and
  the hypothesis `Missed = {}` for a static one.

`PositionIsHeld` is proved along with the refinement: it is what keeps the sum of the
lots equal to the position, not only its changes.

The assumptions say that prices are numbers, that those of a static grid have a largest
one (they are doubles; `Limits` starts from the largest), and that there are two grids.

**TimeseriesChartsProofs.** `ChartsShowTheSeries` only speaks of what is drawn, while a
value passes from the series to the list of the push, to the queue of the user
interface and then to the chart. `IInv` adds what is on the way:

- `ShownInOrder`: what a chart has drawn, with the values queued for it, is its snapshot
  and the values behind it up to `Reached`, the last that was due: the one being pushed,
  or the one before it while the push has still to come to this chart (`Waits`). The
  values begin with the one being pushed when the chart opened, or the next: the entry
  is made before the snapshot is taken, so that value may come twice and none is missed.
  One lemma for each of the three ways a chart is told something (`ToldNext`,
  `ToldMore`, `ToldAtOnce`), and two for what is drawn (`SnapshotIsDrawn`,
  `IncrementIsDrawn`).
- `Turns`: who holds the mutex of the subscriptions, and that one window opens or closes
  at a time; `Listed`: an open window has its entry until the channel is destroyed, and
  nothing is queued for a closed one.
- `DataIsSnapshot`: the series is what is left of all values without the outdated ones.
  Each push drops what is too old *then*; that this is what is too old *now*
  (`SnapshotGrows`) needs times that never decrease, which is `TimeIsMonotone`: the
  series of a strategy are pushed in the order of their timestamps.

**QueueProofs.** `discard_events` is a recursive function, so what it leaves is proved
by induction over the list, with `WFMin` of the library, which takes sets
(`InductionOnNat`). The rest are facts about lists of events that several of the proofs
need: parts of a list, the kinds of events in it (`Kinds`), the last event of a kind
(`Final`), the lots that its trades add up to (`LotsIn`).

Only model-checked: everything about Signals and Positions, and the liveness properties
(`ExecutedOrdersLeave`, the fairness of `KeepsTheLedger`, `BarrierReturns`,
`BacktestFinishes`, `ChartsCatchUp`, `OptimizerReturns`). Liveness under fairness and
`ENABLED` are out of the prover's reach, and so are the induction theorems of the
library that take an operator, with what they would say of a fold of the community
modules (indicators, the grid of configurations), and modules with RECURSIVE operators.
No module here declares one.

## 6. Where the code and its documentation differ

Three runs end in a counterexample, each against a sentence of the repository;
`findings` in `PROJECT.json` has the quotes.

- `late_event`: `util/EventLoopSubscriber.h:20` guarantees that no event is executed
  after the destructor. A delayed event is not in the queue that the destructor
  cleans (it is in the scheduler, or wrapped in an event of the loop), so it is.
- `stop_flat`: a stop closes the position of the trades *handled*. An entry whose
  trade waits behind the stop request stays open in an instance that has
  finished, where `tests/StrategyInstanceTest.cpp` says that it closes first.
- `partial_close`: a position closed in parts reports its profit with each part, and
  `process_position_result` forgets after each part what it has counted already (an
  empty close time differs from 0 ms as well), and never takes back the fees. The first
  parts of a position are counted more than once; the grids close in parts all the time.

One more has no run of its own, as the property of `order_manager` states what the code
does: `trading_primitives/MarketOrder.h:83` says of `m_target_volume` "eventually ->
active(always 0) + filled", and the tests of a cancelled order expect the two to be equal
(`trading_engine/tests/OrderManagerTest.cpp:365-366`, where nothing is executed).
`ConditionalMarketOrder::cancel` takes what is filled so far for the target. A trade that
is handled after it makes them differ for good, and `status()` reads Pending for ever
(`trading_primitives/ConditionalOrders.cpp:24-27`), although the whole order was
executed; an order cancelled after its trade was handled reads Cancelled. No strategy
stumbles over it: the grids drop a level in the same callback that cancels, before any
later status of the order could be read.

Behaviour that no sentence of the repository denies is in the models as it is, and the
properties say what holds in spite of it: the checks executed by every loop, the
order behind a triggered one that waits for the next price or request (in a static
grid the price that comes next may then execute both exits of one level), the live request that
stays after its strategy, the last day of a range that ends earlier in the day than it
starts, `output_iter.fetch_add` showing one configuration less than have passed, an
RSI of a flat market that is neither above nor below and signals a sale.

## 7. What is not modelled, and what is left

Not modelled:

- **Live orders.** Live trading with `ByBitTradingGateway` cannot start at this commit:
  its `stop_loss_update_channel` and `take_profit_update_channel` throw
  (`gateway/ByBitTradingGateway.cpp:377-386`), and OrderManager's constructor calls
  both. Its answers to orders are the environment of OrderManagerContract; its TP/SL,
  trailing stop and messages have no caller that can run.
- **The end of a loop and of an EventChannel**, and subscribing to an EventChannel
  while others push. The loops of the models run for ever, except where a strategy's
  loop is replaced in MarketDataGateway.
- **What is only drawn**: `OrdinaryLeastSquares`, the time in profit, MultiSeriesChart,
  the result views. The incremental updates of two channels throw "not implemented"
  when their chart is open (`src/frontend/chart_window.cpp:91-155`).
- **Input and output**: JSON parsing, messages of the exchange, downloading and
  unpacking files, `RestClient` and the vendored `restincurl.h`, logging. They keep no
  state a property is about; their failures are outcomes of the models.
- **The normalisation** of indicators for charts, `maybe_send_market_state_update`, the
  filters of the optimizer's collector.

Modelled, but without a property of its own:

- the signals of DSMADiff, CandleBollinger, RateOfChange, TrendCatcher, VolumeImbalance
  and RelativeStrengthIndex. The indicators they compare with their thresholds are
  checked (`IndicatorsAgree`), what they conclude from them is translated and no more;
- responses that reject an order which was executed (the REST timeout): its lots are
  accounted for, nothing is said of its mark;
- what is named above as an exemption of `RequestsHaveOwners` and
  `AnsweringConnectionsAreKept`, a second loop's replacement of a connection that
  answers, and the last day that `DaysIn` leaves out as the code does.

**MarketData** has more behaviours than the user can have at this commit: a
ByBitMarketDataGateway is built without a live connection by default
(`gateway/ByBitMarketDataGateway.h:37`, `start = false`), and `mainwindow.h:137` takes the
default, so `m_ws_client` is never made and every live request is refused ("websocket is
not ready"). This is `Starts = {FALSE}`; the run also has `TRUE`, for which the class is
written, and what it says of connections is about that half.

Abstracted: fees and percentages in the gateway, the exits and the grids (Positions
has fees, Signals percentages); timestamps where only the order counts; flooring of
volumes (only that it can fail); the two price channels of a candle-based strategy
are one input to StrategyInstance; EventDelivery has one channel.

Left, most important first:

1. The loops' and channels' ends in EventDelivery, composed with TimeseriesCharts.
2. A second strategy loop next to the gateway's in MarketDataGateway.
3. More proofs: `PositionsAreConserved` and `PriceLevelsBreakEven` over lemmas on
   fractions (uniqueness of the reduced form), then Signals.
4. An abstract FIFO per subscriber that EventDelivery implements.
5. Live orders, once a gateway can serve them.
