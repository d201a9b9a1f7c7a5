----------------------------- MODULE OrderManager -----------------------------
(***************************************************************************)
(* src/frontend/crypto/trading_engine/OrderManager.cpp: the table of the   *)
(* orders one strategy has in the market.  This module is the component's  *)
(* state and its operations; a module that extends it says who calls them  *)
(* and what the gateway answers (OrderManagerContract: any gateway;        *)
(* GridBacktest: BacktestTradingGateway behind the event queue).           *)
(*                                                                         *)
(* A guid is a member of one of the constant sets; volumes are natural     *)
(* numbers of lots.  The two maps m_take_profits and m_stop_losses are     *)
(* handled by the same code twice, so they are one set here, m_conditionals*)
(* and a guid's kind is the constant set it belongs to.  A request to the  *)
(* gateway (the last statement of each send and cancel) is what the        *)
(* extending module conjoins to the operation.                             *)
(***************************************************************************)
EXTENDS Integers

CONSTANTS
  Orders,       \* guids of MarketOrder objects
  TakeProfits,  \* guids of TakeProfitMarketOrder objects
  StopLosses,   \* guids of StopLossMarketOrder objects
  MaxVolume     \* bound: the largest volume of an order, in lots

Conditionals == TakeProfits \cup StopLosses
Fillable     == Orders \cup Conditionals
Volume       == 0 .. MaxVolume

ASSUME GuidsAreUnique ==
  /\ Orders \cap Conditionals = {}
  /\ TakeProfits \cap StopLosses = {}

ASSUME MaxVolumeIsPositive == MaxVolume \in Nat \ {0}

VARIABLES
  created,          \* guids handed out by xg::newGuid so far
  m_orders,         \* keys of m_orders
  acked, traded,    \* the orders whose entry has, or had when erased, the flag set
  m_conditionals,   \* keys of m_take_profits and m_stop_losses
  subscribed,       \* entries whose EventObjectChannel has a subscription
  target,           \* m_target_volume of each order object
  filled,           \* m_filled_volume
  suspendedVolume,  \* m_suspended_volume of each conditional order
  rejected,         \* orders with a non-empty m_reject_reason
  cancelRequested,  \* conditional orders with m_cancel_requested
  unsolicited,      \* lots of each guid reported as "unsolicited TradeEvent"
  strayResponses    \* guids whose response had no entry: the other errors pushed

omVars == <<created, m_orders, acked, traded, m_conditionals, subscribed, target,
            filled, suspendedVolume, rejected, cancelRequested, unsolicited,
            strayResponses>>

Init_OrderManager ==
  /\ created = {} /\ m_orders = {} /\ acked = {} /\ traded = {}
  /\ m_conditionals = {} /\ subscribed = {}
  /\ target = [g \in Fillable |-> 0]
  /\ filled = [g \in Fillable |-> 0]
  /\ suspendedVolume = [c \in Conditionals |-> 0]
  /\ rejected = {} /\ cancelRequested = {}
  /\ unsolicited = [g \in Fillable |-> 0]
  /\ strayResponses = {}

-----------------------------------------------------------------------------
(* Market orders *)

(* watched: the caller subscribes to the returned channel before it returns to
   the event loop (the grids do, StrategyBase::try_send_order and
   StrategyInstance::close_position do not). *)
send_market_order(o, vol, watched) ==
  /\ o \in Orders \ created
  /\ created' = created \cup {o}
  /\ m_orders' = m_orders \cup {o}
  /\ subscribed' = IF watched THEN subscribed \cup {o} ELSE subscribed
  /\ target' = [target EXCEPT ![o] = vol]
  /\ UNCHANGED <<acked, traded, m_conditionals, filled, suspendedVolume, rejected,
                 cancelRequested, unsolicited, strayResponses>>

(* Dropping the entry destroys its channel, which clears the subscription's
   back pointer: a later unsubscription then reaches nobody. *)
EraseOrder(o) ==
  /\ m_orders' = m_orders \ {o}
  /\ subscribed' = subscribed \ {o}

(* The last subscriber of an order's channel goes away. *)
order_unsubscribed(o) ==
  /\ o \in m_orders \cap subscribed
  /\ EraseOrder(o)
  /\ UNCHANGED <<created, acked, traded, m_conditionals, target, filled,
                 suspendedVolume, rejected, cancelRequested, unsolicited,
                 strayResponses>>

(* Mutant: the entry is left to the trade, which may have come already. *)
ResponseCompletes_Never(o) == FALSE

(* "traded" of the entry: its order is done with this response. *)
ResponseCompletes(o) == o \in traded

(* verdict: "ack", "reject" (reject_reason set) or "retry" (reject_reason and
   retry set: the order is treated as acknowledged). *)
on_order_response(o, verdict) ==
  /\ IF o \notin m_orders
     THEN /\ strayResponses' = strayResponses \cup {o}
          /\ UNCHANGED <<m_orders, acked, subscribed, rejected>>
     ELSE /\ rejected' = IF verdict = "reject" THEN rejected \cup {o} ELSE rejected
          /\ acked' = acked \cup {o}
          /\ IF ResponseCompletes(o) THEN EraseOrder(o)
             ELSE UNCHANGED <<m_orders, subscribed>>
          /\ UNCHANGED strayResponses
  /\ UNCHANGED <<created, traded, m_conditionals, target, filled, suspendedVolume,
                 cancelRequested, unsolicited>>

(* Mutant: each trade replaces the volume of the one before. *)
object_on_trade_LastOnly(g, vol) == filled' = [filled EXCEPT ![g] = vol]

(* MarketOrder::on_trade, ConditionalMarketOrder::on_trade *)
object_on_trade(g, vol) == filled' = [filled EXCEPT ![g] = @ + vol]

(* Mutants: the entry goes before its response came, or is never dropped here. *)
TradeCompletes_Unacked(o) == o \notin subscribed
TradeCompletes_Never(o)   == FALSE

(* Nobody listens to the entry and its response came: this trade completes it. *)
TradeCompletes(o) == o \notin subscribed /\ o \in acked

try_trade_market_order(o, vol) ==
  /\ o \in m_orders
  /\ object_on_trade(o, vol)
  /\ traded' = traded \cup {o}
  /\ IF TradeCompletes(o)
     THEN EraseOrder(o)
     ELSE UNCHANGED <<m_orders, subscribed>>
  /\ UNCHANGED <<created, acked, m_conditionals, target, suspendedVolume, rejected,
                 cancelRequested, unsolicited, strayResponses>>

-----------------------------------------------------------------------------
(* Take profits and stop losses *)

(* send_take_profit and send_stop_loss ("Subscribe for the channel"). *)
send_conditional(c, vol) ==
  /\ c \in Conditionals \ created
  /\ created' = created \cup {c}
  /\ m_conditionals' = m_conditionals \cup {c}
  /\ subscribed' = subscribed \cup {c}
  /\ target' = [target EXCEPT ![c] = vol]
  /\ UNCHANGED <<m_orders, acked, traded, filled, suspendedVolume, rejected,
                 cancelRequested, unsolicited, strayResponses>>

(* Mutant: the target stays, so the order reads Pending for ever. *)
CancelObject_KeepsTarget(c) ==
  /\ cancelRequested' = cancelRequested \cup {c}
  /\ UNCHANGED target

(* ConditionalMarketOrder::cancel: what is not filled is no longer wanted. *)
CancelObject(c) ==
  /\ cancelRequested' = cancelRequested \cup {c}
  /\ target' = [target EXCEPT ![c] = filled[c]]

(* cancel_take_profit and cancel_stop_loss *)
cancel_conditional(c) ==
  /\ IF c \in m_conditionals
     THEN CancelObject(c)
     ELSE UNCHANGED <<cancelRequested, target>>
  /\ UNCHANGED <<created, m_orders, acked, traded, m_conditionals, subscribed, filled,
                 suspendedVolume, rejected, unsolicited, strayResponses>>

(* The last subscriber goes away: cancel, then forget. *)
conditional_unsubscribed(c) ==
  /\ c \in m_conditionals \cap subscribed
  /\ CancelObject(c)
  /\ m_conditionals' = m_conditionals \ {c}
  /\ subscribed' = subscribed \ {c}
  /\ UNCHANGED <<created, m_orders, acked, traded, filled, suspendedVolume, rejected,
                 unsolicited, strayResponses>>

(* on_take_profit_response and on_stop_loss_reposnse *)
on_conditional_response(c, active) ==
  /\ IF c \in m_conditionals
     THEN /\ suspendedVolume' =
               [suspendedVolume EXCEPT ![c] = IF active THEN target[c] ELSE 0]
          /\ UNCHANGED strayResponses
     ELSE /\ strayResponses' = IF active THEN strayResponses \cup {c}
                                         ELSE strayResponses
          /\ UNCHANGED suspendedVolume
  /\ UNCHANGED <<created, m_orders, acked, traded, m_conditionals, subscribed, target,
                 filled, rejected, cancelRequested, unsolicited>>

(* try_trade_take_profit and try_trade_stop_loss; UnsignedVolume::operator-=
   leaves a value alone that is smaller than what is subtracted. *)
try_trade_conditional(c, vol) ==
  /\ c \in m_conditionals
  /\ object_on_trade(c, vol)
  /\ suspendedVolume' =
       [suspendedVolume EXCEPT ![c] = IF @ >= vol THEN @ - vol ELSE @]
  /\ m_conditionals' = IF c \in subscribed THEN m_conditionals
                                           ELSE m_conditionals \ {c}
  /\ UNCHANGED <<created, m_orders, acked, traded, subscribed, target, rejected,
                 cancelRequested, unsolicited, strayResponses>>

(* Mutant: the trade of an order without an entry is dropped. *)
on_trade_Dropped(g, vol) ==
  \/ try_trade_market_order(g, vol)
  \/ try_trade_conditional(g, vol)
  \/ g \notin m_orders \cup m_conditionals /\ UNCHANGED omVars

(* A TradeEvent goes to the entry of its order, or is reported. *)
on_trade(g, vol) ==
  \/ try_trade_market_order(g, vol)
  \/ try_trade_conditional(g, vol)
  \/ /\ g \notin m_orders \cup m_conditionals
     /\ unsolicited' = [unsolicited EXCEPT ![g] = @ + vol]
     /\ UNCHANGED <<created, m_orders, acked, traded, m_conditionals, subscribed,
                    target, filled, suspendedVolume, rejected, cancelRequested,
                    strayResponses>>

(* MarketOrder::status and ConditionalMarketOrder::status *)
status(g) ==
  IF g \in rejected THEN "Rejected"
  ELSE IF g \in cancelRequested
       THEN IF target[g] # filled[g] THEN "Pending" ELSE "Cancelled"
  ELSE IF g \in Conditionals /\ suspendedVolume[g] > 0 THEN "Suspended"
  ELSE IF filled[g] < target[g] THEN "Pending" ELSE "Filled"
=============================================================================
