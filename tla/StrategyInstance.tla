--------------------------- MODULE StrategyInstance ---------------------------
(***************************************************************************)
(* src/frontend/crypto/StrategyInstance.cpp in a backtest: one strategy,   *)
(* its order manager and its exit, in the event loop of the instance, with *)
(* BacktestTradingGateway as the exchange (MainWindow::on_pb_run_clicked   *)
(* and Optimizer build it so).  Other threads are the owner, who starts    *)
(* the instance and may ask it to stop, and the market data gateway, which *)
(* answers the request for historical prices and publishes the answers to  *)
(* other instances' requests in the same channel.                          *)
(*                                                                         *)
(* What a price makes a strategy want is an input: any side or none.       *)
(* Statistics (StrategyResult), charts and the live mode are left out.     *)
(***************************************************************************)
EXTENDS ExitStrategies, FiniteSets

CONSTANTS
  Prices,      \* prices of the historical data
  MaxPrices,   \* bound: historical prices of one backtest
  MaxCandles,  \* bound: candles one price may complete
  MaxStops,    \* bound: stop_async calls of the owner
  MaxForeign   \* bound: answers to other instances' requests

ASSUME BoundsAreNumbers == MaxPrices \in Nat /\ MaxCandles \in Nat

ASSUME PricesAreNumbers == Prices \subseteq Int

VARIABLES
  started,                    \* run_async was called
  unread,                     \* prices the reader of the generator still has
  m_pending_request,          \* m_pending_requests is not empty
  m_historical_md_generator,  \* has_value
  m_backtest_in_progress,
  m_opened_position,          \* PositionManager: None, or the volume and its entry
  m_has_opened_pos,           \* StrategyBase
  m_stop_request_handled,
  m_status, m_status_on_stop,
  m_stopped,                  \* m_finish_promise has its value
  crashed,                    \* an exception left the event loop's thread, or worse
  hadData,                    \* history: the reader was not empty
  userStops, foreign          \* history: counts for the bounds

mdVars   == <<unread, m_pending_request, m_historical_md_generator, m_backtest_in_progress>>
stopVars == <<m_stop_request_handled, m_status_on_stop>>
endVars  == <<m_status, m_stopped>>
envVars  == <<started, hadData, userStops, foreign>>
instanceVars == <<mdVars, stopVars, endVars, envVars, m_opened_position,
                  m_has_opened_pos, crashed>>
vars == <<omVars, omExitVars, exitVars, queue, strategy, gateway, instanceVars>>

Init ==
  /\ Init_ExitStrategies
  /\ started = FALSE
  /\ unread \in 0 .. MaxPrices /\ hadData = (unread > 0)
  /\ m_pending_request = FALSE /\ m_historical_md_generator = FALSE
  /\ m_backtest_in_progress = FALSE
  /\ m_opened_position = None /\ m_has_opened_pos = FALSE
  /\ m_stop_request_handled = FALSE
  /\ m_status = "Stopped" /\ m_status_on_stop = "Stopped"
  /\ m_stopped = FALSE /\ crashed = FALSE
  /\ userStops = 0 /\ foreign = 0

Push(list, events) == queue' = [queue EXCEPT ![list] = @ \o events]
E(name) == [event |-> name]

-----------------------------------------------------------------------------
(* Other threads *)

run_async ==
  /\ ~started /\ started' = TRUE
  /\ Push("normal", <<E("Start")>>)
  /\ UNCHANGED <<omVars, omExitVars, exitVars, strategy, gateway, mdVars, stopVars,
                 endVars, hadData, userStops, foreign, m_opened_position,
                 m_has_opened_pos, crashed>>

stop_async ==
  /\ started /\ userStops < MaxStops
  /\ userStops' = userStops + 1
  /\ Push("normal", <<E("Stop")>>)
  /\ UNCHANGED <<omVars, omExitVars, exitVars, strategy, gateway, mdVars, stopVars,
                 endVars, started, hadData, foreign, m_opened_position,
                 m_has_opened_pos, crashed>>

(* The market data gateway answers this instance once, or somebody else. *)
AnswerOwn ==
  /\ E("GeneratorOwn") \notin {queue.low[i] : i \in DOMAIN queue.low}
  /\ m_pending_request
  /\ Push("low", <<E("GeneratorOwn")>>)
  /\ UNCHANGED <<omVars, omExitVars, exitVars, strategy, gateway, instanceVars>>

AnswerForeign ==
  /\ foreign < MaxForeign /\ foreign' = foreign + 1
  /\ Push("low", <<E("GeneratorForeign")>>)
  /\ UNCHANGED <<omVars, omExitVars, exitVars, strategy, gateway, mdVars, stopVars,
                 endVars, started, hadData, userStops, m_opened_position,
                 m_has_opened_pos, crashed>>

-----------------------------------------------------------------------------
(* After every event of the instance *)

ready_to_finish ==
  /\ m_opened_position = None
  /\ ~m_pending_request /\ ~m_backtest_in_progress /\ ~m_historical_md_generator

(* base: the status the handler itself pushed.  Conjoined last to a handler. *)
after_every_event(base) ==
  /\ m_status' = IF ready_to_finish' THEN m_status_on_stop' ELSE base
  /\ m_stopped' = (m_stopped \/ (m_stop_request_handled' /\ ready_to_finish'))

-----------------------------------------------------------------------------
(* Start, and the historical data *)

HandleStart ==
  /\ Runs("Start")
  /\ queue' = Popped
  /\ m_pending_request' = TRUE
  /\ UNCHANGED <<omVars, omExitVars, exitVars, strategy, gateway, unread,
                 m_historical_md_generator, m_backtest_in_progress, stopVars, envVars,
                 m_opened_position, m_has_opened_pos, crashed>>
  /\ after_every_event("Backtesting")

(* get_next of a reader that has a price puts it in the queue. *)
NextPrice(q) ==
  /\ unread > 0 /\ unread' = unread - 1
  /\ queue' = [q EXCEPT !.low = Append(@, E("Price"))]

HandleGenerator ==
  /\ Runs("GeneratorOwn") \/ Runs("GeneratorForeign")
  /\ IF m_historical_md_generator \/ Runs("GeneratorForeign")
     THEN /\ queue' = Popped
          /\ UNCHANGED mdVars
     ELSE /\ m_pending_request' = FALSE
          /\ m_historical_md_generator' = TRUE
          /\ \/ NextPrice(Popped) /\ m_backtest_in_progress' = TRUE
             \/ /\ unread = 0 /\ queue' = Popped
                /\ UNCHANGED <<unread, m_backtest_in_progress>>
  /\ UNCHANGED <<omVars, omExitVars, exitVars, strategy, gateway, stopVars, envVars,
                 m_opened_position, m_has_opened_pos, crashed>>
  /\ after_every_event(m_status)

(* MDPriceEvent: the subscribers of the price in their order, the gateway (the last
   one, called at once), then the candles. *)
PriceEvents(price) ==
  (IF HasTpsl(strategy) THEN <<>> ELSE <<[event |-> "PriceToExit", price |-> price]>>) \o
  (IF ListensToPrice(strategy) THEN <<E("SignalToEntry")>> ELSE <<>>)

CandleEvents(n) ==
  IF ListensToPrice(strategy) THEN <<>> ELSE [i \in 1 .. n |-> E("SignalToEntry")]

AfterPrice(price, candles) ==
  WithNormal(Popped, PriceEvents(price) \o Entries(on_new_price(gateway, price).events)
                       \o CandleEvents(candles))

(* HistoricalMDPriceEvent.  The handler of a stop has emptied the generator, but not
   the queue: get_next of an empty optional is undefined, and its reader may be gone,
   give a price, or be at its end. *)
HandlePrice(price, candles) ==
  LET q == AfterPrice(price, candles) IN
  /\ Runs("Price")
  /\ gateway' = [on_new_price(gateway, price) EXCEPT !.events = <<>>]
  /\ \/ /\ NextPrice(q)
        /\ UNCHANGED <<m_historical_md_generator, crashed>>
     \/ /\ unread = 0 \/ ~m_historical_md_generator
        /\ queue' = WithNormal(q, <<E("Stop")>>)
        /\ m_historical_md_generator' = FALSE
        /\ UNCHANGED <<unread, crashed>>
     \/ /\ ~m_historical_md_generator
        /\ crashed' = TRUE
        /\ queue' = q
        /\ UNCHANGED <<unread, m_historical_md_generator>>
  /\ UNCHANGED <<omVars, omExitVars, exitVars, strategy, m_pending_request,
                 m_backtest_in_progress, stopVars, envVars, m_opened_position,
                 m_has_opened_pos>>
  /\ after_every_event(m_status)

-----------------------------------------------------------------------------
(* The strategy's entry *)

(* Mutant: the pending order is not looked at. *)
MaySendOrder_DespitePending == ~m_has_opened_pos

(* StrategyBase::try_send_order *)
MaySendOrder == m_orders = {} /\ ~m_has_opened_pos

(* send_market_order at the synchronous gateway *)
SendOrder(q, vol) ==
  LET o == NextGuid(Orders, created)
      size == IF vol < 0 THEN -vol ELSE vol
  IN /\ created # Orders
     /\ send_market_order(o, size, FALSE)
     /\ Calls(q, push_order_request(gateway, o, vol))

(* side is 0 when the strategy sees nothing to do. *)
HandleSignal(side) ==
  /\ Runs("SignalToEntry")
  /\ IF side # 0 /\ MaySendOrder
     THEN SendOrder(Popped, side)
     ELSE queue' = Popped /\ UNCHANGED <<omVars, gateway>>
  /\ UNCHANGED <<omExitVars, exitVars, strategy, instanceVars>>

HandleOpenedPos ==
  /\ Runs("OpenedPosToEntry")
  /\ m_has_opened_pos' = Next_Event.opened
  /\ queue' = Popped
  /\ UNCHANGED <<omVars, omExitVars, exitVars, strategy, gateway, mdVars, stopVars,
                 endVars, envVars, m_opened_position, crashed>>

-----------------------------------------------------------------------------
(* Order responses and trades *)

HandleOrderResponse ==
  /\ Runs("OrderResponse")
  /\ on_order_response(Next_Event.guid, "ack")
  /\ queue' = Popped
  /\ UNCHANGED <<omExitVars, exitVars, strategy, gateway, instanceVars>>

HandleOrderTrade ==
  /\ Runs("Trade") /\ Next_Event.guid \in Orders
  /\ on_trade(Next_Event.guid,
              IF Next_Event.volume < 0 THEN -Next_Event.volume ELSE Next_Event.volume)
  /\ queue' = Popped
  /\ UNCHANGED <<omExitVars, exitVars, strategy, gateway, instanceVars>>

(* PositionManager::on_trade_received and OpenedPosition::on_trade: a trade against
   the position leaves the entry price alone, even where it turns the position. *)
PositionAfter(pos, vol, price) ==
  IF pos = None
  THEN [volume |-> vol, entry |-> IF vol = 0 THEN 0 ELSE price]
  ELSE IF vol = 0 THEN pos
  ELSE IF pos.volume = 0 \/ Sign(vol) = Sign(pos.volume)
  THEN [volume |-> pos.volume + vol,
        entry  |-> (pos.entry * pos.volume + price * vol) \div (pos.volume + vol)]
  ELSE IF pos.volume + vol = 0 THEN None
  ELSE [pos EXCEPT !.volume = @ + vol]

HandleTrade ==
  LET vol    == Next_Event.volume
      price  == Next_Event.price
      pos    == PositionAfter(m_opened_position, vol, price)
      opened == pos # None
      levels == IF opened /\ ~HasTpsl(strategy)
                THEN <<[event |-> "PriceLevels", no_loss_price |-> pos.entry]>> ELSE <<>>
  IN /\ Runs("InstanceTrade")
     /\ m_opened_position' = pos
     /\ queue' = WithNormal(Popped, levels \o
                   <<[event |-> "OpenedPosToEntry", opened |-> opened],
                     [event |-> "OpenedPosToExit", opened |-> opened],
                     [event |-> "TradeToExit", volume |-> vol, price |-> price]>>)
     /\ UNCHANGED <<omVars, omExitVars, exitVars, strategy, gateway, mdVars, stopVars,
                    envVars, m_has_opened_pos, crashed>>
     /\ after_every_event(m_status)

-----------------------------------------------------------------------------
(* Stop *)

HoldsZeroVolume == m_opened_position # None /\ m_opened_position.volume = 0

(* Mutant: the stop empties the generator only. *)
BacktestEnded_GeneratorOnly ==
  m_historical_md_generator' = FALSE /\ UNCHANGED m_backtest_in_progress

BacktestEnded == m_historical_md_generator' = FALSE /\ m_backtest_in_progress' = FALSE

(* close_position reads the position of the last trade handled. *)
HandleStop ==
  /\ Runs("Stop")
  /\ ~HoldsZeroVolume
  /\ IF m_opened_position = None
     THEN queue' = Popped /\ UNCHANGED <<omVars, gateway>>
     ELSE SendOrder(Popped, -m_opened_position.volume)
  /\ BacktestEnded
  /\ m_stop_request_handled' = TRUE
  /\ UNCHANGED <<omExitVars, exitVars, strategy, unread, m_pending_request,
                 m_status_on_stop, envVars, m_opened_position, m_has_opened_pos, crashed>>
  /\ after_every_event(m_status)

(* To close a position of zero volume: send_market_order takes a SignedVolume out of
   a variant that holds the error, and the exception ends the loop's thread. *)
HandleStopThrows ==
  /\ Runs("Stop")
  /\ HoldsZeroVolume
  /\ crashed' = TRUE
  /\ queue' = Popped
  /\ UNCHANGED <<omVars, omExitVars, exitVars, strategy, gateway, mdVars, stopVars,
                 endVars, envVars, m_opened_position, m_has_opened_pos>>

(* An error of the exit, forwarded by the strategy to its own error channel, which
   the instance listens to with priority High. *)
ForwardError ==
  /\ Runs("ExitError")
  /\ queue' = [Popped EXCEPT !.high = Append(@, E("Error"))]
  /\ UNCHANGED <<omVars, omExitVars, exitVars, strategy, gateway, instanceVars>>

(* Mutant: the panic is shown, but not remembered for the stop. *)
HandleError_ShownOnly ==
  /\ Runs("Error")
  /\ m_status' = "Panic"
  /\ queue' = WithNormal(Popped, <<E("Stop")>>)
  /\ UNCHANGED <<omVars, omExitVars, exitVars, strategy, gateway, mdVars, envVars,
                 stopVars, m_stopped, m_opened_position, m_has_opened_pos, crashed>>

HandleError ==
  /\ Runs("Error")
  /\ m_status' = "Panic" /\ m_status_on_stop' = "Panic"
  /\ queue' = WithNormal(Popped, <<E("Stop")>>)
  /\ UNCHANGED <<omVars, omExitVars, exitVars, strategy, gateway, mdVars, envVars,
                 m_stop_request_handled, m_stopped, m_opened_position,
                 m_has_opened_pos, crashed>>

-----------------------------------------------------------------------------
LoopStep ==
  /\ ~crashed
  /\ \/ HandleStart \/ HandleGenerator
     \/ \E price \in Prices, candles \in 0 .. MaxCandles : HandlePrice(price, candles)
     \/ \E side \in {-1, 0, 1} : HandleSignal(side)
     \/ HandleOpenedPos \/ HandleOrderResponse \/ HandleOrderTrade \/ HandleTrade
     \/ HandleStop \/ HandleStopThrows \/ ForwardError \/ HandleError
     \/ ExitHandlers /\ UNCHANGED instanceVars

Next ==
  \/ LoopStep
  \/ ~crashed /\ (run_async \/ stop_async \/ AnswerOwn \/ AnswerForeign)

(* The loop's thread runs what it has, and the market data gateway answers. *)
Fairness == WF_vars(LoopStep) /\ WF_vars(~crashed /\ AnswerOwn)

Spec == Init /\ [][Next]_vars /\ Fairness

-----------------------------------------------------------------------------
Quiet == queue.high = <<>> /\ queue.normal = <<>>

UnseenVolume == LotsIn(queue.normal)

(* The position the instance computes from trades is the gateway's position, up to the
   trades that wait in the loop: whatever is closed by an exit, a stop or two stops. *)
PositionAgrees ==
  (IF m_opened_position = None THEN 0 ELSE m_opened_position.volume) + UnseenVolume
    = gateway.m_pos_volume

(* StrategyInstanceTest, ManyPricesReceivedWhileOrderIsPending_NoAdditionalOrders: a
   strategy never holds more than one entry, however many prices and candles signal
   while the order, its trade or the news of the position is still in the queue. *)
NoAdditionalOrders ==
  ~m_stop_request_handled =>
    /\ gateway.m_pos_volume \in -1 .. 1
    /\ Cardinality(m_orders) <= 1

(* Between two prices an open position has its exit in the market, a trailing stop on the
   side that closes it, and the order manager and the exit strategy know it. *)
PositionIsProtected ==
  Quiet /\ ~m_stop_request_handled /\ m_opened_position # None =>
    IF HasTpsl(strategy)
    THEN gateway.m_tpsl # None /\ m_tpsl = gateway.m_tpsl.guid /\ m_active_exit = m_tpsl
    ELSE /\ gateway.m_trailing_stop # None
         /\ m_trailing_stop = gateway.m_trailing_stop.guid
         /\ m_active_exit = m_trailing_stop
         /\ gateway.m_trailing_stop.side = -SideOf(m_opened_position.volume)

(* Between two prices, while nothing has stopped the instance, a closed position has
   left no exit behind in any of the three places, so the next one can have its own. *)
NothingLeftBehind ==
  Quiet /\ ~m_stop_request_handled /\ m_opened_position = None =>
    /\ gateway.m_tpsl = None /\ gateway.m_trailing_stop = None
    /\ m_tpsl = None /\ m_trailing_stop = None
    /\ m_active_exit = None /\ m_exit_sub = None

(* on_trailing_stop_response applies a response to whatever trailing stop there is:
   when the responses are handled, the stop shown is the one that will execute, also
   after the no-loss stop replaced the first one with a response in between. *)
StopLossShownIsCurrent ==
  Quiet /\ m_trailing_stop # None /\ gateway.m_trailing_stop # None =>
    /\ gateway.m_trailing_stop.guid = m_trailing_stop
    /\ exitOrder[m_trailing_stop].active = {gateway.m_trailing_stop.stop}

(* No response and no trade of a market order is ever "unsolicited", nor, until a stop
   closes the position behind the exit's back, one of an exit order. *)
NoAlarms ==
  /\ strayResponses = {} /\ \A o \in Orders : unsolicited[o] = 0
  /\ ~m_stop_request_handled => exitErrors = {}

(* A panic is never turned into a plain "Stopped" by the stop it asks for. *)
PanicIsKept == [][m_status = "Panic" => m_status' = "Panic"]_vars

(* An instance whose data is not empty finishes: its owner waits in finish_future. *)
BacktestFinishes == (started /\ hadData) ~> (m_stopped \/ crashed)

(* StrategyInstanceTest.cpp:389-392, "strategy sends close order req [...] stragety
   stops": an instance that has finished holds no position. *)
StoppedMeansFlat == m_stopped => gateway.m_pos_volume = 0
=============================================================================
