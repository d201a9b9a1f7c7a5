---------------------------- MODULE ExitStrategies ----------------------------
(***************************************************************************)
(* How a position gets its way out: the exit strategies (TpslExitStrategy, *)
(* DynamicTrailingStopLossStrategy and its base), the part of OrderManager *)
(* that keeps their one order (m_tpsl, m_trailing_stop), and the event     *)
(* loop of the strategy instance in which both live.                       *)
(*                                                                         *)
(* An exit order is an object shared by pointer: m_tpsl, m_trailing_stop   *)
(* and the strategy hold its guid here, exitOrder its fields.  The         *)
(* gateway's answers to market orders go to the OrderManager module's      *)
(* operations; a module that extends this one has the callers.             *)
(***************************************************************************)
EXTENDS OrderManager, BacktestTradingGateway

CONSTANTS
  ExitOrders,     \* guids of TpslFullPos and TrailingStopLoss objects
  Strategies,     \* names of the strategies an instance may be built with
  ProfitDistance, \* take profit's distance from the entry price
  RiskDistance,   \* stop loss's distance from it, and the trailing stop's
  NoLossDistance  \* distance of the trailing stop once the position cannot lose

ASSUME ExitGuidsAreUnique == ExitOrders \cap Orders = {}

ASSUME NoneIsNoGuid == None \notin ExitOrders

ASSUME DistancesAreNumbers == RiskDistance \in Nat /\ NoLossDistance \in Nat

(* StrategyFactory: which exit a strategy has, which channel its entry listens to,
   and whether it forwards its exit's errors (only MockStrategy does). *)
HasTpsl(s)        == s \in {"Mock", "TrendCatcher"}
ListensToPrice(s) == s \in {"Mock", "DebugEveryTick"}
ForwardsErrors(s) == s = "Mock"

VARIABLES
  queue,              \* m_queue_map of m_event_loop: a list for each priority
  strategy,           \* the strategy this instance was built with
  gateway,            \* BacktestTradingGateway
  exitOrder,          \* fields of each exit order object
  issued,             \* guids of the exit orders made so far
  m_tpsl, m_trailing_stop, m_last_tpsl_guid,  \* OrderManager
  exitErrors,         \* history: errors OrderManager raised about exit orders
  m_is_pos_opened,    \* the exit strategy's view of the position
  m_active_exit,      \* m_active_tpsl / m_active_stop_loss
  m_exit_sub,         \* the exit order m_tpsl_sub / m_tsl_sub is subscribed to
  m_triggered_once,
  no_loss_price       \* m_last_pos_price_levels.no_loss_price

omExitVars == <<exitOrder, issued, m_tpsl, m_trailing_stop, m_last_tpsl_guid, exitErrors>>
exitVars   == <<m_is_pos_opened, m_active_exit, m_exit_sub, m_triggered_once,
                no_loss_price>>

NoOrder == [kind |-> "none"]

Init_ExitStrategies ==
  /\ Init_OrderManager
  /\ queue = [high |-> <<>>, normal |-> <<>>, low |-> <<>>]
  /\ strategy \in Strategies
  /\ gateway = EmptyGateway
  /\ exitOrder = [g \in ExitOrders |-> NoOrder]
  /\ issued = {}
  /\ m_tpsl = None /\ m_trailing_stop = None /\ m_last_tpsl_guid = None
  /\ exitErrors = {}
  /\ m_is_pos_opened = FALSE /\ m_active_exit = None /\ m_exit_sub = None
  /\ m_triggered_once = FALSE /\ no_loss_price = 0

-----------------------------------------------------------------------------
(* The event loop *)

(* wait_and_pop: the first event of the most urgent list that has one. *)
Next_Event ==
  CASE queue.high # <<>>   -> Head(queue.high)
    [] queue.high = <<>> /\ queue.normal # <<>> -> Head(queue.normal)
    [] queue.high = <<>> /\ queue.normal = <<>> /\ queue.low # <<>> -> Head(queue.low)
    [] OTHER -> [event |-> "none"]

Popped ==
  CASE queue.high # <<>> -> [queue EXCEPT !.high = Tail(@)]
    [] queue.high = <<>> /\ queue.normal # <<>> -> [queue EXCEPT !.normal = Tail(@)]
    [] OTHER -> [queue EXCEPT !.low = Tail(@)]

WithNormal(q, events) == [q EXCEPT !.normal = @ \o events]

Runs(event) == Next_Event.event = event

(* An event of the gateway, as the entries of its subscribers: the order manager
   subscribed to the trades before the strategy instance did. *)
Delivered(e) ==
  IF e.event = "Trade"
  THEN <<e, [event |-> "InstanceTrade", volume |-> e.volume, price |-> e.price]>>
  ELSE <<e>>

Entries(events) == FlattenSeq([i \in DOMAIN events |-> Delivered(events[i])])

(* The gateway is left in state gw, and its pushes go to the end of queue q. *)
Calls(q, gw) ==
  /\ gateway' = [gw EXCEPT !.events = <<>>]
  /\ queue' = WithNormal(q, Entries(gw.events))

(* ~EventSubcriber of m_tpsl_sub / m_tsl_sub discards what is queued for it. *)
Discarded(q) ==
  [q EXCEPT !.normal = Without(@, {e \in ToSet(@) : e.event = "ExitUpdated"})]

-----------------------------------------------------------------------------
(* OrderManager: the orders of the exits *)

NextGuid(guids, used) == CHOOSE g \in guids \ used : TRUE

(* EventObjectChannel::update: the subscriber, if there is one, gets the pointer. *)
Notified(q, g, object) ==
  IF m_exit_sub = g THEN WithNormal(q, <<[event |-> "ExitUpdated", guid |-> object]>>) ELSE q

(* send_tpsl and send_trailing_stop replace the channel and with it the subscription;
   the caller's new subscriber replaces the old one, after the gateway's answer is
   queued. *)
NewExitOrder(g, fields) ==
  /\ issued' = issued \cup {g}
  /\ exitOrder' = [exitOrder EXCEPT ![g] = fields]
  /\ m_exit_sub' = g

send_tpsl(takeProfit, stopLoss) ==
  LET g == NextGuid(ExitOrders, issued) IN
    /\ issued # ExitOrders
    /\ NewExitOrder(g, [kind |-> "tpsl", acked |-> FALSE, rejected |-> FALSE,
                        suspended |-> FALSE, triggered |-> FALSE])
    /\ m_tpsl' = g
    /\ Calls(Discarded(Popped),
             push_tpsl_request(gateway, [guid |-> g, take_profit |-> takeProfit,
                                         stop_loss |-> stopLoss]))
    /\ UNCHANGED <<m_trailing_stop, m_last_tpsl_guid, exitErrors>>

send_trailing_stop(side, distance) ==
  LET g == NextGuid(ExitOrders, issued) IN
    /\ issued # ExitOrders
    /\ NewExitOrder(g, [kind |-> "trailing", side |-> side, distance |-> distance,
                        active |-> {}])
    /\ m_trailing_stop' = g
    /\ Calls(Discarded(Popped), push_trailing_stop_request(gateway, g, side, distance))
    /\ UNCHANGED <<m_tpsl, m_last_tpsl_guid, exitErrors>>

(* Mutant: a TP/SL that triggered stays. *)
TpslDone_Never(r) == FALSE

TpslDone(r) == ~r.set_up /\ r.triggered

(* Mutant: the guid of the TP/SL that triggered goes with it. *)
LastTpslGuid_NotKept(r) == m_last_tpsl_guid

(* Its trade is still to come, so the guid of the last TP/SL is remembered. *)
LastTpslGuid(r) == IF TpslDone(r) THEN m_tpsl ELSE m_last_tpsl_guid

(* The response says nothing of which exit order it is about, or it is not looked
   at ("TODO check guid"): it is applied to the one there is. *)
on_tpsl_reposnse ==
  LET r == Next_Event
      unsolicited_response == m_tpsl = None
  IN /\ Runs("TpslUpdated")
     /\ IF unsolicited_response
        THEN /\ exitErrors' = exitErrors \cup {"Unsolicited tpsl response"}
             /\ queue' = Popped
             /\ UNCHANGED <<exitOrder, m_tpsl, m_last_tpsl_guid>>
        ELSE /\ exitOrder' = [exitOrder EXCEPT ![m_tpsl] =
                  [@ EXCEPT !.acked = TRUE, !.rejected = r.reject,
                            !.suspended = r.set_up, !.triggered = r.triggered]]
             /\ queue' = Notified(Popped, m_tpsl, m_tpsl)
             /\ m_last_tpsl_guid' = LastTpslGuid(r)
             /\ m_tpsl' = IF TpslDone(r) THEN None ELSE m_tpsl
             /\ UNCHANGED exitErrors
     /\ UNCHANGED <<omVars, gateway, strategy, issued, m_trailing_stop, exitVars>>

(* Mutant: the price of the first response stays. *)
WithActiveStop_First(g, stop) ==
  IF exitOrder[g].active # {} THEN exitOrder ELSE [exitOrder EXCEPT ![g].active = stop]

WithActiveStop(g, stop) == [exitOrder EXCEPT ![g].active = stop]

on_trailing_stop_response ==
  LET stop == Next_Event.stop_loss
  IN /\ Runs("TrailingUpdated")
     /\ IF m_trailing_stop = None
        THEN /\ exitErrors' = exitErrors \cup {"Unsolicited trailing stop response"}
             /\ queue' = Popped
             /\ UNCHANGED <<exitOrder, m_trailing_stop>>
        ELSE /\ exitOrder' = IF stop = {} THEN exitOrder
                             ELSE WithActiveStop(m_trailing_stop, stop)
             /\ queue' = Notified(Popped, m_trailing_stop,
                                  IF stop = {} THEN None ELSE m_trailing_stop)
             /\ m_trailing_stop' = IF stop = {} THEN None ELSE m_trailing_stop
             /\ UNCHANGED exitErrors
     /\ UNCHANGED <<omVars, gateway, strategy, issued, m_tpsl, m_last_tpsl_guid, exitVars>>

(* The branch of OrderManager::on_trade for the trade of an exit order. *)
on_exit_trade ==
  LET g == Next_Event.guid
  IN /\ Runs("Trade") /\ g \in ExitOrders
     /\ exitErrors' = IF g \in {m_trailing_stop, m_tpsl, m_last_tpsl_guid} THEN exitErrors
                      ELSE exitErrors \cup {"unsolicited TradeEvent"}
     /\ queue' = Popped
     /\ UNCHANGED <<omVars, gateway, strategy, exitOrder, issued, m_tpsl, m_trailing_stop,
                    m_last_tpsl_guid, exitVars>>

-----------------------------------------------------------------------------
(* The exit strategies *)

exit_on_opened_pos ==
  /\ Runs("OpenedPosToExit")
  /\ m_is_pos_opened' = Next_Event.opened
  /\ queue' = Popped
  /\ UNCHANGED <<omVars, omExitVars, gateway, strategy, m_active_exit, m_exit_sub,
                 m_triggered_once, no_loss_price>>

exit_on_price_levels ==
  /\ Runs("PriceLevels")
  /\ no_loss_price' = Next_Event.no_loss_price
  /\ queue' = Popped
  /\ UNCHANGED <<omVars, omExitVars, gateway, strategy, m_is_pos_opened, m_active_exit,
                 m_exit_sub, m_triggered_once>>

(* TpslExitStrategy::on_trade looks at m_active_tpsl, TrailigStopLossStrategy::on_trade
   at m_tsl_sub, to see that the position has its exit already. *)
HasExit == IF HasTpsl(strategy) THEN m_active_exit # None ELSE m_exit_sub # None

exit_on_trade ==
  LET side  == SideOf(Next_Event.volume)
      price == Next_Event.price
  IN /\ Runs("TradeToExit")
     /\ IF m_is_pos_opened /\ ~HasExit
        THEN IF HasTpsl(strategy)
             THEN send_tpsl(price + ProfitDistance * side, price - RiskDistance * side)
             ELSE send_trailing_stop(-side, RiskDistance)
        ELSE /\ queue' = Popped
             /\ UNCHANGED <<omExitVars, gateway, m_exit_sub>>
     /\ UNCHANGED <<omVars, strategy, m_is_pos_opened, m_active_exit, m_triggered_once,
                    no_loss_price>>

(* TpslFullPos::status *)
tpsl_status(o) ==
  IF o.rejected THEN "Rejected" ELSE IF o.triggered THEN "Filled"
  ELSE IF o.suspended THEN "Suspended" ELSE IF o.acked THEN "Cancelled" ELSE "Pending"

(* Mutant: a TP/SL that triggered is still taken for the position's exit. *)
TpslOver_CancelledOnly(o) == tpsl_status(o) = "Cancelled"

TpslOver(o) == tpsl_status(o) \in {"Filled", "Cancelled"}

(* TpslExitStrategy::on_updated; the object is read when the event runs. *)
tpsl_on_updated ==
  LET order == exitOrder[Next_Event.guid]
      over  == TpslOver(order)
      error == IF tpsl_status(order) = "Rejected" /\ ForwardsErrors(strategy)
               THEN <<[event |-> "ExitError"]>> ELSE <<>>
  IN /\ Runs("ExitUpdated") /\ HasTpsl(strategy)
     /\ m_active_exit' = IF over THEN None ELSE Next_Event.guid
     /\ m_exit_sub' = IF over THEN None ELSE m_exit_sub
     /\ queue' = WithNormal(IF over THEN Discarded(Popped) ELSE Popped, error)
     /\ UNCHANGED <<omVars, omExitVars, gateway, strategy, m_is_pos_opened,
                    m_triggered_once, no_loss_price>>

(* TrailigStopLossStrategy::on_trailing_stop_updated *)
on_trailing_stop_updated ==
  LET g    == Next_Event.guid
      over == g = None \/ exitOrder[g].active = {}
  IN /\ Runs("ExitUpdated") /\ ~HasTpsl(strategy)
     /\ m_active_exit' = IF over THEN None ELSE g
     /\ m_exit_sub' = IF over THEN None ELSE m_exit_sub
     /\ queue' = IF over THEN Discarded(Popped) ELSE Popped
     /\ UNCHANGED <<omVars, omExitVars, gateway, strategy, m_is_pos_opened,
                    m_triggered_once, no_loss_price>>

(* DynamicTrailingStopLossStrategy::on_price_changed: once the price is far enough
   from the level without loss, a tighter trailing stop replaces the first one. *)
on_price_changed ==
  LET price    == Next_Event.price
      order    == exitOrder[m_active_exit]
      longSide == -order.side
      far      == (price - (no_loss_price + NoLossDistance * longSide)) * longSide >= 0
      covered  == m_exit_sub # None /\ m_active_exit # None
  IN /\ Runs("PriceToExit")
     /\ IF covered /\ ~m_triggered_once /\ far
        THEN /\ send_trailing_stop(order.side, NoLossDistance)
             /\ m_triggered_once' = TRUE
        ELSE /\ queue' = Popped
             /\ m_triggered_once' = (covered /\ m_triggered_once)
             /\ UNCHANGED <<omExitVars, gateway, m_exit_sub>>
     /\ UNCHANGED <<omVars, strategy, m_is_pos_opened, m_active_exit, no_loss_price>>

ExitHandlers ==
  \/ on_tpsl_reposnse \/ on_trailing_stop_response \/ on_exit_trade
  \/ exit_on_opened_pos \/ exit_on_price_levels \/ exit_on_trade
  \/ tpsl_on_updated \/ on_trailing_stop_updated \/ on_price_changed
=============================================================================
