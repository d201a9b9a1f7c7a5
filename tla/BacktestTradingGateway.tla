------------------------ MODULE BacktestTradingGateway ------------------------
(***************************************************************************)
(* src/frontend/crypto/gateway/BacktestTradingGateway.cpp: the exchange of *)
(* a backtest.  It is called synchronously, by the order manager and by    *)
(* the price channel, so its operations are functions from one state of    *)
(* the gateway to the next; what an operation pushes into the gateway's    *)
(* channels is appended to "events", and the caller hands these to the     *)
(* event loop.                                                             *)
(*                                                                         *)
(* A side is 1 (buy) or -1 (sell); a signed volume is a number of lots;    *)
(* prices are integers; fees and timestamps are left out.                  *)
(***************************************************************************)
EXTENDS Integers, Sequences, SequencesExt, Queues

None == [none |-> TRUE]

Sign(x) == IF x > 0 THEN 1 ELSE IF x < 0 THEN -1 ELSE 0

(* SignedVolume::as_unsigned_and_side: a zero volume has side Buy. *)
SideOf(vol) == IF vol < 0 THEN -1 ELSE 1

(* What the channels carry.  A trade's volume is signed here; an optional price is a
   set of at most one price. *)
OrderResponseEvent(g)      == [event |-> "OrderResponse", guid |-> g]
TradeEvent(g, vol, price)  ==
  [event |-> "Trade", guid |-> g, volume |-> vol, price |-> price]
TpslUpdatedEvent(g, setUp, triggered, reject) ==
  [event |-> "TpslUpdated", guid |-> g, set_up |-> setUp, triggered |-> triggered,
   reject |-> reject]
TrailingUpdatedEvent(stop) == [event |-> "TrailingUpdated", stop_loss |-> stop]
ConditionalUpdatedEvent(g, active) ==
  [event |-> "ConditionalUpdated", guid |-> g, active |-> active]

(* tpsl: [guid, take_profit, stop_loss]; trailing: [guid, side, distance, stop] where
   side is the one of the closing trade; conditional orders: [guid, side, trigger,
   volume]. *)
EmptyGateway ==
  [m_pos_volume |-> 0, m_last_price |-> 0, m_tpsl |-> None, m_trailing_stop |-> None,
   m_stop_losses |-> <<>>, m_take_profits |-> <<>>, events |-> <<>>]

Pushed(gw, events) == [gw EXCEPT !.events = @ \o events]

-----------------------------------------------------------------------------
(* Take profit and stop loss for the full position *)

(* Mutant: the position is not reset with its TP/SL. *)
ClosedByTpsl_KeepsPosition(gw) == [gw EXCEPT !.m_tpsl = None]

ClosedByTpsl(gw) == [gw EXCEPT !.m_pos_volume = 0, !.m_tpsl = None]

try_trade_tpsl(gw) ==
  LET side      == SideOf(gw.m_pos_volume)
      takes     == gw.m_last_price * side >= gw.m_tpsl.take_profit * side
      stops     == gw.m_last_price * side <= gw.m_tpsl.stop_loss * side
      price     == IF takes THEN gw.m_tpsl.take_profit ELSE gw.m_tpsl.stop_loss
      g         == gw.m_tpsl.guid
  IN IF gw.m_tpsl = None \/ ~(takes \/ stops)
     THEN gw
     ELSE ClosedByTpsl(Pushed(gw, <<TpslUpdatedEvent(g, FALSE, TRUE, FALSE),
                                    TradeEvent(g, -gw.m_pos_volume, price)>>))

push_tpsl_request(gw, tpsl) ==
  IF gw.m_pos_volume = 0
  THEN Pushed(gw, <<TpslUpdatedEvent(tpsl.guid, TRUE, FALSE, TRUE)>>)
  ELSE [Pushed(gw, <<TpslUpdatedEvent(tpsl.guid, TRUE, FALSE, FALSE)>>)
        EXCEPT !.m_tpsl = tpsl]

-----------------------------------------------------------------------------
(* Trailing stop *)

(* TrailingStopLoss::calc_new_stop_loss: the stop a price asks for, and whether it
   is closer to the market than the previous one. *)
StopPrice(side, distance, price) == price + distance * side
PullsUp(side, new, previous)     == new * side < previous * side

(* BacktestTrailingStopLoss::on_price_updated and its caller *)
try_trade_trailing_stop(gw) ==
  LET t       == gw.m_trailing_stop
      new     == StopPrice(t.side, t.distance, gw.m_last_price)
      long    == SideOf(gw.m_pos_volume) = 1
      reached == IF long THEN gw.m_last_price < t.stop ELSE gw.m_last_price > t.stop
  IN IF t = None THEN gw
     ELSE IF PullsUp(t.side, new, t.stop)
     THEN [Pushed(gw, <<TrailingUpdatedEvent({new})>>) EXCEPT !.m_trailing_stop.stop = new]
     ELSE IF reached
     THEN [Pushed(gw, <<TradeEvent(t.guid, -gw.m_pos_volume, t.stop),
                        TrailingUpdatedEvent({})>>)
           EXCEPT !.m_pos_volume = 0, !.m_trailing_stop = None]
     ELSE gw

push_trailing_stop_request(gw, g, side, distance) ==
  LET stop == StopPrice(side, distance, gw.m_last_price)
  IN [Pushed(gw, <<TrailingUpdatedEvent({stop})>>)
      EXCEPT !.m_trailing_stop =
               [guid |-> g, side |-> side, distance |-> distance, stop |-> stop]]

-----------------------------------------------------------------------------
(* Conditional orders *)

(* A sell stop and a buy take profit trigger at or below their price, a buy stop and
   a sell take profit at or above it. *)
StopLossReached(o, price)   == price * o.side >= o.trigger * o.side
TakeProfitReached(o, price) == price * o.side <= o.trigger * o.side

(* One walk over a list, given the orders whose price is reached.  "it = erase(it);
   continue" moves on by two: the order after an erased one is not looked at. *)
Walk(orders, reached) ==
  LET walk[i \in 0 .. Len(orders)] ==
        IF i = 0 THEN [kept |-> <<>>, fired |-> <<>>, skip |-> FALSE]
        ELSE IF ~walk[i - 1].skip /\ orders[i] \in reached
        THEN [walk[i - 1] EXCEPT !.fired = Append(@, orders[i]), !.skip = TRUE]
        ELSE [walk[i - 1] EXCEPT !.kept = Append(@, orders[i]), !.skip = FALSE]
  IN walk[Len(orders)]

(* After the erasure of the last order, ++ on end() of a std::list is its first
   element: the walk starts again. *)
Scan(orders, reached) ==
  LET scan[i \in 0 .. Len(orders)] ==
        IF i = 0 THEN [kept |-> orders, fired |-> <<>>, again |-> TRUE]
        ELSE IF ~scan[i - 1].again THEN scan[i - 1]
        ELSE LET walk == Walk(scan[i - 1].kept, reached)
             IN [kept |-> walk.kept, fired |-> scan[i - 1].fired \o walk.fired,
                 again |-> walk.skip]
  IN scan[Len(orders)]

(* The position moves by each order that triggers. *)
Execute(gw, orders) ==
  LET after[i \in 0 .. Len(orders)] ==
        IF i = 0 THEN gw
        ELSE LET o == orders[i]
             IN [Pushed(after[i - 1],
                        <<TradeEvent(o.guid, o.volume * o.side, o.trigger),
                          ConditionalUpdatedEvent(o.guid, FALSE)>>)
                 EXCEPT !.m_pos_volume = @ + o.volume * o.side]
  IN after[Len(orders)]

try_trigger_conditionals(gw) ==
  LET price == gw.m_last_price
      sl == Scan(gw.m_stop_losses,
                 {o \in ToSet(gw.m_stop_losses) : StopLossReached(o, price)})
      tp == Scan(gw.m_take_profits,
                 {o \in ToSet(gw.m_take_profits) : TakeProfitReached(o, price)})
  IN Execute([gw EXCEPT !.m_stop_losses = sl.kept, !.m_take_profits = tp.kept],
             sl.fired \o tp.fired)

push_stop_loss_request(gw, order) ==
  try_trigger_conditionals(
    [Pushed(gw, <<ConditionalUpdatedEvent(order.guid, TRUE)>>)
     EXCEPT !.m_stop_losses = Append(@, order)])

push_take_profit_request(gw, order) ==
  try_trigger_conditionals(
    [Pushed(gw, <<ConditionalUpdatedEvent(order.guid, TRUE)>>)
     EXCEPT !.m_take_profits = Append(@, order)])

Has(orders, g)     == \E i \in DOMAIN orders : orders[i].guid = g

(* Mutant: the order is found, announced and left where it is. *)
Erased_Nothing(orders, g) == orders

Erased(orders, g) == Without(orders, {o \in ToSet(orders) : o.guid = g})

cancel_stop_loss_request(gw, g) ==
  IF Has(gw.m_stop_losses, g)
  THEN [Pushed(gw, <<ConditionalUpdatedEvent(g, FALSE)>>)
        EXCEPT !.m_stop_losses = Erased(@, g)]
  ELSE gw

cancel_take_profit_request(gw, g) ==
  IF Has(gw.m_take_profits, g)
  THEN [Pushed(gw, <<ConditionalUpdatedEvent(g, FALSE)>>)
        EXCEPT !.m_take_profits = Erased(@, g)]
  ELSE gw

-----------------------------------------------------------------------------
(* Market orders, and the price *)

(* The order is acknowledged and executed at the last price at once.  A position
   that becomes zero announces the end of its TP/SL, which m_tpsl still holds. *)
push_order_request(gw, g, vol) ==
  LET pos      == gw.m_pos_volume + vol
      removed  == IF pos = 0 /\ gw.m_tpsl # None
                  THEN <<TpslUpdatedEvent(gw.m_tpsl.guid, FALSE, FALSE, FALSE)>>
                  ELSE <<>>
  IN [Pushed(gw, <<OrderResponseEvent(g)>> \o removed
                 \o <<TradeEvent(g, vol, gw.m_last_price)>>)
      EXCEPT !.m_pos_volume = pos]

on_new_price(gw, price) ==
  try_trigger_conditionals(
    try_trade_trailing_stop(
      try_trade_tpsl([gw EXCEPT !.m_last_price = price])))
=============================================================================
