----------------------------- MODULE GridBacktest -----------------------------
(***************************************************************************)
(* The grid strategies of src/frontend/crypto/strategy in a backtest: a    *)
(* grid keeps one position per price level, each with a take profit and a  *)
(* stop loss of its own, through the order manager, at                     *)
(* BacktestTradingGateway.                                                 *)
(*                                                                         *)
(* DynamicGridAdx (DynamicGridWithBan.cpp) has its levels around a moving  *)
(* average and is banned now and then; average and ban are inputs here.    *)
(* DynamicGrid (DynamicGridStrategy.cpp) is the case without a ban.        *)
(* StaticGrid (StaticGridWithBan.cpp) has its levels around the middle of  *)
(* the prices of the interval before, and is banned by a price out of it.  *)
(* All three handle their orders with the same code.                       *)
(*                                                                         *)
(* Each price is served when the event loop has nothing more urgent; what  *)
(* it sets off are events of one priority, in the order of their pushes.   *)
(* An order is one lot.                                                    *)
(***************************************************************************)
EXTENDS OrderManager, BacktestTradingGateway, GridLevels, FiniteSets

CONSTANTS
  Strategies,      \* of DynamicGridAdx and StaticGrid
  PricesOf,        \* values of the prices each strategy is tried with
  Trends,          \* values of the moving average
  Interval,        \* m_interval: candles in an interval of a static grid
  MaxPrices,       \* bound for each strategy: prices of one run
  MaxCandles       \* bound: candles one price may complete

ASSUME NoneIsNoGuid == None \notin Fillable
ASSUME StrategiesAreKnown == Strategies \subseteq {"DynamicGridAdx", "StaticGrid"}
ASSUME PricesAreIntegers ==
  Trends \subseteq Int /\ \A s \in {"DynamicGridAdx", "StaticGrid"} : PricesOf[s] \subseteq Int
ASSUME PricesHaveALimit ==
  \E limit \in PricesOf["StaticGrid"] : \A price \in PricesOf["StaticGrid"] : price <= limit
ASSUME CandlesAreCounted == MaxCandles \in Nat

VARIABLES
  queue,               \* the loop's events of priority Normal
  gateway,             \* BacktestTradingGateway
  strategy,            \* the strategy of this run
  m_last_trend_value,
  interval,            \* a static grid's limits and the age of its interval
  m_orders_by_levels,  \* None, or the Level of each price level
  watchedFor,          \* price_level captured by the callback of each subscription
  gridErrors,          \* history: the LOG_ERROR branches taken
  pricesSeen           \* history: a count for the bound

centreVars == <<strategy, m_last_trend_value, interval>>
gridVars   == <<centreVars, m_orders_by_levels, watchedFor, gridErrors, pricesSeen>>
vars       == <<omVars, queue, gateway, gridVars>>

Levels == (1 - LevelsPerSide) .. (LevelsPerSide - 1)

(* Limits{}: the highest of the prices for numeric_limits<double>::max() *)
EmptyLimits == [min_price |-> Max(PricesOf["StaticGrid"]), max_price |-> 0]

(* m_previous_limits and m_next_limits; age is the time since m_current_interval_start_ts
   in candles, -1 as long as there was none; outOfBounds says that
   m_last_out_of_bounds_price_ts is later than that start. *)
FirstInterval ==
  [previous |-> None, next |-> EmptyLimits, age |-> -1, outOfBounds |-> FALSE]

Init ==
  /\ Init_OrderManager
  /\ queue = <<>> /\ gateway = EmptyGateway
  /\ strategy \in Strategies
  /\ m_last_trend_value = 0 /\ interval = FirstInterval
  /\ m_orders_by_levels = [l \in Levels |-> None]
  /\ watchedFor = [g \in Fillable |-> 0]
  /\ gridErrors = {} /\ pricesSeen = 0

Magnitude(x) == IF x < 0 THEN -x ELSE x

-----------------------------------------------------------------------------
(* The event loop *)

Runs(event) == queue # <<>> /\ Head(queue).event = event

(* EventObjectChannel::update: the entry's subscriber, if there is one, is told. *)
Notified(q, g) ==
  IF g \in subscribed THEN Append(q, [event |-> "Updated", guid |-> g]) ELSE q

(* ~EventSubcriber discards what is queued for it. *)
Discarded(q, guids) == Without(q, {[event |-> "Updated", guid |-> g] : g \in guids})

Calls(q, gw) ==
  /\ gateway' = [gw EXCEPT !.events = <<>>]
  /\ queue' = q \o gw.events

(* The gateway is called before the strategy hears of the price; a candle that ends with
   it, and the empty ones that fill a gap, closed at the price before. *)
NewPrice(price, candles) ==
  /\ queue = <<>> /\ pricesSeen < MaxPrices[strategy]
  /\ pricesSeen' = pricesSeen + 1
  /\ candles > 0 => pricesSeen > 0
  /\ LET gw == on_new_price(gateway, price) IN
       /\ gateway' = [gw EXCEPT !.events = <<>>]
       /\ queue' = gw.events \o
            [i \in 1 .. candles |-> [event |-> "Candle", close |-> gateway.m_last_price]]
  /\ UNCHANGED <<omVars, centreVars, m_orders_by_levels, watchedFor, gridErrors>>

(* The order manager's handlers of what the gateway pushed. *)
OrderManagerHandles ==
  LET e == Head(queue) IN
  /\ queue # <<>>
  /\ \/ /\ Runs("OrderResponse")
        /\ on_order_response(e.guid, "ack")
        /\ queue' = Tail(queue)
     \/ /\ Runs("Trade")
        /\ on_trade(e.guid, Magnitude(e.volume))
        /\ queue' = Notified(Tail(queue), e.guid)
     \/ /\ Runs("ConditionalUpdated")
        /\ on_conditional_response(e.guid, e.active)
        /\ queue' = Notified(Tail(queue), e.guid)
  /\ UNCHANGED <<gateway, gridVars>>

-----------------------------------------------------------------------------
(* The candles *)

NextGuid(guids) == CHOOSE g \in guids \ created : TRUE

(* Mutant: a level that is open gets a second order. *)
WantsOrder_OpenLevelToo(level, banned) ==
  ~banned /\ level # 0 /\ Magnitude(level) < LevelsPerSide

WantsOrder(level, banned) ==
  /\ ~banned
  /\ level # 0
  /\ Magnitude(level) < LevelsPerSide
  /\ m_orders_by_levels[level] = None

(* The entry of a level, or nothing *)
Enters(level, banned) ==
  LET side == -Sign(level)
      o    == NextGuid(Orders)
  IN IF WantsOrder(level, banned)
     THEN /\ Orders \ created # {}
          /\ send_market_order(o, 1, TRUE)
          /\ Calls(Tail(queue), push_order_request(gateway, o, side))
          /\ m_orders_by_levels' =
               [m_orders_by_levels EXCEPT ![level] =
                  [mo |-> o, side |-> side, price |-> gateway.m_last_price,
                   tp |-> None, sl |-> None]]
          /\ watchedFor' = [watchedFor EXCEPT ![o] = level]
     ELSE /\ queue' = Tail(queue)
          /\ UNCHANGED <<omVars, gateway, m_orders_by_levels, watchedFor>>

(* DynamicGridWithBan::push_candle; before the average has a value nothing happens, as
   under a ban. *)
push_candle(trend, banned) ==
  /\ strategy = "DynamicGridAdx" /\ Runs("Candle")
  /\ m_last_trend_value' = trend
  /\ Enters(get_level_number(Head(queue).close, trend), banned)
  /\ UNCHANGED <<strategy, interval, gridErrors, pricesSeen>>

(* Limits of even prices, so that the middle is an integer too. *)
mid_price(limits) == limits.min_price + (limits.max_price - limits.min_price) \div 2

update_prices(limits, price) ==
  [min_price |-> Min({limits.min_price, price}), max_price |-> Max({limits.max_price, price})]

(* The candle is the first, one of the interval, or the first of the next one. *)
try_interval_handover(i) ==
  IF i.age + 1 < Interval THEN [i EXCEPT !.age = @ + 1]
  ELSE [previous |-> i.next, next |-> EmptyLimits, age |-> 0, outOfBounds |-> FALSE]

OutOfLimits(limits, price) == price < limits.min_price \/ limits.max_price < price

(* StaticGridStrategy::is_banned: a price out of the limits bans the rest of the interval,
   unless it was the interval's first. *)
is_banned(i) == i.outOfBounds

(* StaticGridWithBan::push_candle; the levels within the limits are fewer than
   LevelsPerSide. *)
push_candle_static ==
  LET close == Head(queue).close
      i     == try_interval_handover(interval)
      level == IF i.previous = None THEN 0
               ELSE get_level_number(close, mid_price(i.previous))
      out   == level # 0 /\ OutOfLimits(i.previous, close)
  IN /\ strategy = "StaticGrid" /\ Runs("Candle")
     /\ interval' = [i EXCEPT !.next = update_prices(@, close),
                              !.outOfBounds = @ \/ (out /\ i.age > 0)]
     /\ Enters(level, out \/ is_banned(i))
     /\ UNCHANGED <<strategy, m_last_trend_value, gridErrors, pricesSeen>>

-----------------------------------------------------------------------------
(* The callbacks of the orders' channels.  DynamicGridStrategy, DynamicGridWithBan and
   StaticGridWithBan each have their own, statement for statement the same. *)

Ignored ==
  /\ queue' = Tail(queue)
  /\ UNCHANGED <<omVars, gateway, m_orders_by_levels, watchedFor, gridErrors>>

Reports(error) ==
  /\ gridErrors' = gridErrors \cup {error}
  /\ queue' = Tail(queue)
  /\ UNCHANGED <<omVars, gateway, m_orders_by_levels, watchedFor>>

(* send_take_profit, then send_stop_loss; each is subscribed to before the next event
   runs. *)
TpAndSlSent(tp, sl, vol) ==
  /\ created' = created \cup {tp, sl}
  /\ m_conditionals' = m_conditionals \cup {tp, sl}
  /\ subscribed' = subscribed \cup {tp, sl}
  /\ target' = [target EXCEPT ![tp] = vol, ![sl] = vol]
  /\ UNCHANGED <<m_orders, acked, traded, filled, suspendedVolume, rejected,
                 cancelRequested, unsolicited, strayResponses>>

(* The price level 0 is around *)
Centre ==
  IF strategy = "StaticGrid" THEN mid_price(interval.previous) ELSE m_last_trend_value

StopPriceOf(level) ==
  IF strategy = "StaticGrid"
  THEN calc_sl_price_static(interval.previous.min_price, interval.previous.max_price, level.side)
  ELSE calc_sl_price(level.price, level.side)

(* order.price() is the price of the trade, which the gateway made when the order was
   sent. *)
on_order_traded(level) ==
  LET l   == m_orders_by_levels[level]
      tp  == NextGuid(TakeProfits)
      sl  == NextGuid(StopLosses)
      vol == filled[l.mo]
      TP  == [guid |-> tp, side |-> -l.side, volume |-> vol,
              trigger |-> calc_tp_price(l.price, l.side, Centre)]
      SL  == [guid |-> sl, side |-> -l.side, volume |-> vol,
              trigger |-> StopPriceOf(l)]
  IN IF l = None THEN Reports("Can't find orders for price level")
     ELSE IF l.tp # None \/ l.sl # None THEN Reports("There already are tp or sl")
     ELSE /\ TakeProfits \ created # {} /\ StopLosses \ created # {}
          /\ TpAndSlSent(tp, sl, vol)
          /\ Calls(Tail(queue),
                   push_stop_loss_request(push_take_profit_request(gateway, TP), SL))
          /\ m_orders_by_levels' =
               [m_orders_by_levels EXCEPT ![level].tp = tp, ![level].sl = sl]
          /\ watchedFor' = [watchedFor EXCEPT ![tp] = level, ![sl] = level]
          /\ UNCHANGED gridErrors

(* The Level goes: its subscribers leave, so the order manager cancels what rests and
   forgets all three orders. *)
LevelErased(mo, conditionals) ==
  LET known == conditionals \cap m_conditionals IN
  /\ m_orders' = m_orders \ {mo}
  /\ m_conditionals' = m_conditionals \ conditionals
  /\ subscribed' = subscribed \ (conditionals \cup {mo})
  /\ cancelRequested' = cancelRequested \cup known
  /\ target' = [g \in Fillable |-> IF g \in known THEN filled[g] ELSE target[g]]
  /\ UNCHANGED <<created, acked, traded, filled, suspendedVolume, rejected, unsolicited,
                 strayResponses>>

(* Mutant: only the order that traded is cancelled. *)
OrdersCancelled_Traded(gw, l, g) ==
  IF g = l.tp THEN cancel_take_profit_request(gw, g) ELSE cancel_stop_loss_request(gw, g)

(* cancel_stop_loss after a take profit, cancel_take_profit after a stop loss; then the
   subscribers of both leave, and the gateway does not find what it does not have. *)
OrdersCancelled(gw, l, g) ==
  cancel_take_profit_request(cancel_stop_loss_request(gw, l.sl), l.tp)

(* on_take_profit_traded and on_stop_loss_traded, for the order g *)
on_exit_traded(level, g) ==
  LET l == m_orders_by_levels[level] IN
  IF l = None THEN Reports("Can't find level")
  ELSE /\ LevelErased(l.mo, {l.tp, l.sl})
       /\ Calls(Discarded(Tail(queue), {l.mo, l.tp, l.sl}), OrdersCancelled(gateway, l, g))
       /\ m_orders_by_levels' = [m_orders_by_levels EXCEPT ![level] = None]
       /\ UNCHANGED <<watchedFor, gridErrors>>

(* The status is the one the order has when the callback runs. *)
OrderUpdated ==
  LET g == Head(queue).guid IN
  /\ Runs("Updated")
  /\ IF status(g) # "Filled" THEN Ignored
     ELSE IF g \in Orders THEN on_order_traded(watchedFor[g])
     ELSE on_exit_traded(watchedFor[g], g)
  /\ UNCHANGED <<centreVars, pricesSeen>>

-----------------------------------------------------------------------------
Next ==
  \/ \E price \in PricesOf[strategy], candles \in 0 .. MaxCandles : NewPrice(price, candles)
  \/ \E trend \in Trends, banned \in BOOLEAN : push_candle(trend, banned)
  \/ push_candle_static
  \/ OrderManagerHandles
  \/ OrderUpdated

Spec == Init /\ [][Next]_vars

-----------------------------------------------------------------------------
(* The event loop has nothing left but the next price. *)
Quiet == queue = <<>>

OpenLevels == {l \in Levels : m_orders_by_levels[l] # None}

RestingGuids == {o.guid : o \in ToSet(gateway.m_take_profits) \cup ToSet(gateway.m_stop_losses)}

(* The lot of a level is held from the order's execution until one of its exits is
   executed. *)
HeldBy(l) ==
  LET o == m_orders_by_levels[l] IN
  IF o # None /\ (o.tp = None \/ {o.tp, o.sl} \subseteq RestingGuids) THEN o.side ELSE 0

Independent == INSTANCE LevelPositions WITH
  Lowest <- 1 - LevelsPerSide, Highest <- LevelsPerSide - 1,
  held <- [l \in Levels |-> HeldBy(l)], position <- gateway.m_pos_volume

(* Resting orders that the gateway has passed over though their price is reached *)
Missed ==
  {o \in ToSet(gateway.m_stop_losses) : StopLossReached(o, gateway.m_last_price)}
    \cup {o \in ToSet(gateway.m_take_profits) : TakeProfitReached(o, gateway.m_last_price)}

(* The grids implement independent levels: the position at the gateway is at any moment
   the sum of the lots of the levels, a level that holds its lot is not entered again and
   no lot is closed twice, whichever orders a price jumps over, one order of another sets
   off, or a callback cancels while its own event is in the queue.  For a static grid
   this is said of gateways that pass over no order only: its stop may be reached when it
   is sent, and if it then rests, one price may execute both exits of the level. *)
LevelsAreIndependent ==
  /\ Independent!Init
  /\ [][strategy = "DynamicGridAdx" \/ Missed = {} => Independent!Next]_Independent!levelVars

(* Between two prices each open level has its take profit and its stop loss resting at
   the gateway, known to the order manager as Suspended, and nothing else rests. *)
EveryLevelHasBothExits ==
  Quiet =>
    /\ RestingGuids =
         UNION {{m_orders_by_levels[l].tp, m_orders_by_levels[l].sl} : l \in OpenLevels}
    /\ RestingGuids = m_conditionals
    /\ \A c \in m_conditionals : c \in subscribed /\ status(c) = "Suspended"

(* calc_tp_sl_prices works with the level of the trade's price and with the trend of
   the last candle, either of which may differ from what the order was sent for: still
   a level of a dynamic grid is closed only by a price to its gain, or by one further away
   than all the levels of a side, never by the price it was opened at.  (In a static grid
   the price an order executes at may be beyond the limits its stop is made from, and the
   level closes at once.) *)
LevelsCloseAwayFromEntry ==
  [][\A l \in Levels :
       strategy = "DynamicGridAdx" /\ m_orders_by_levels[l] # None
         /\ m_orders_by_levels'[l] = None =>
         LET o    == m_orders_by_levels[l]
             gain == (gateway.m_last_price - o.price) * o.side
         IN gain > 0 \/ gain < -(LevelsPerSide * LevelWidth)]_vars

(* None of the strategy's error branches is ever taken and no event of the gateway is
   reported as unsolicited: an order that executes while it is being sent, one that a
   later order sets off, one that is cancelled in the same callback. *)
NoGridErrors ==
  /\ gridErrors = {} /\ strayResponses = {}
  /\ \A g \in Fillable : unsolicited[g] = 0
=============================================================================
