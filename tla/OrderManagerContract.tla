------------------------- MODULE OrderManagerContract -------------------------
(***************************************************************************)
(* The order manager in front of any gateway that keeps the contract of    *)
(* ITradingGateway: the channels of the gateway deliver independently of   *)
(* each other (trading_engine/tests/OrderManagerTest.cpp drives a response *)
(* before the trade and the trade before the response), an order may be    *)
(* executed in several trades, the rest of an order may be withdrawn (IOC),*)
(* and a response may say "rejected" of an order that was executed (the    *)
(* REST timeout of ByBitTradingGateway::process_event).                    *)
(* The callers are strategies: an order's subscriber may leave at any time,*)
(* a conditional order may be cancelled at any time.                       *)
(***************************************************************************)
EXTENDS OrderManager, Sequences

CONSTANT Responses   \* OrderResponseEvents the gateway sends for one request

ASSUME ResponsesIsPositive == Responses \in Nat \ {0}

VARIABLES
  unanswered,   \* responses still to come for each order
  atExchange,   \* lots of each order the exchange still works
  inFlight,     \* lots executed whose TradeEvent is not handled yet
  executed,     \* history: lots executed so far
  updates,      \* Take-/StopLossUpdatedEvents of each order, in the channel's order
  cancels,      \* cancel requests on their way
  abandoned,    \* history: orders whose subscriber left while they were pending
  crossed       \* history: conditional orders traded after their latest cancel request

envVars == <<unanswered, atExchange, inFlight, executed, updates, cancels, abandoned,
             crossed>>
vars    == <<omVars, envVars>>

Init ==
  /\ Init_OrderManager
  /\ unanswered = [o \in Orders |-> 0]
  /\ atExchange = [g \in Fillable |-> 0]
  /\ inFlight = [g \in Fillable |-> 0]
  /\ executed = [g \in Fillable |-> 0]
  /\ updates = [c \in Conditionals |-> <<>>]
  /\ cancels = {} /\ abandoned = {} /\ crossed = {}

-----------------------------------------------------------------------------
(* The strategy *)

SendOrder(o, vol, watched) ==
  /\ send_market_order(o, vol, watched)
  /\ unanswered' = [unanswered EXCEPT ![o] = Responses]
  /\ atExchange' = [atExchange EXCEPT ![o] = vol]
  /\ UNCHANGED <<inFlight, executed, updates, cancels, abandoned, crossed>>

LeaveOrder(o) ==
  /\ order_unsubscribed(o)
  /\ abandoned' = abandoned \cup {o}
  /\ UNCHANGED <<unanswered, atExchange, inFlight, executed, updates, cancels, crossed>>

SendConditional(c, vol) ==
  /\ send_conditional(c, vol)
  /\ atExchange' = [atExchange EXCEPT ![c] = vol]
  /\ updates' = [updates EXCEPT ![c] = Append(@, TRUE)]
  /\ UNCHANGED <<unanswered, inFlight, executed, cancels, abandoned, crossed>>

CancelConditional(c) ==
  /\ c \in created \ cancels
  /\ cancel_conditional(c)
  /\ cancels' = IF c \in m_conditionals THEN cancels \cup {c} ELSE cancels
  /\ crossed' = IF c \in m_conditionals THEN crossed \ {c} ELSE crossed
  /\ UNCHANGED <<unanswered, atExchange, inFlight, executed, updates, abandoned>>

(* Mutant: the entry is forgotten without a cancel request. *)
LeaveConditional_NoCancel(c) ==
  /\ conditional_unsubscribed(c)
  /\ UNCHANGED envVars

LeaveConditional(c) ==
  /\ conditional_unsubscribed(c)
  /\ cancels' = cancels \cup {c} /\ crossed' = crossed \ {c}
  /\ UNCHANGED <<unanswered, atExchange, inFlight, executed, updates, abandoned>>

-----------------------------------------------------------------------------
(* The exchange, through the gateway *)

(* One lot of a market order is executed. *)
ExecuteLot(o) ==
  /\ atExchange[o] > 0
  /\ atExchange' = [atExchange EXCEPT ![o] = @ - 1]
  /\ inFlight' = [inFlight EXCEPT ![o] = @ + 1]
  /\ executed' = [executed EXCEPT ![o] = @ + 1]
  /\ UNCHANGED <<omVars, unanswered, updates, cancels, abandoned, crossed>>

(* The exchange refuses an order, or drops what an IOC order could not fill. *)
Withdraw(o) ==
  /\ atExchange[o] > 0
  /\ atExchange' = [atExchange EXCEPT ![o] = 0]
  /\ UNCHANGED <<omVars, unanswered, inFlight, executed, updates, cancels, abandoned,
                 crossed>>

(* A conditional order is executed whole and stops resting. *)
Trigger(c) ==
  /\ atExchange[c] > 0
  /\ atExchange' = [atExchange EXCEPT ![c] = 0]
  /\ inFlight' = [inFlight EXCEPT ![c] = @ + atExchange[c]]
  /\ executed' = [executed EXCEPT ![c] = @ + atExchange[c]]
  /\ updates' = [updates EXCEPT ![c] = Append(@, FALSE)]
  /\ UNCHANGED <<omVars, unanswered, cancels, abandoned, crossed>>

(* A cancel request finds the order resting, or finds nothing. *)
HandleCancel(c) ==
  /\ c \in cancels
  /\ cancels' = cancels \ {c}
  /\ atExchange' = [atExchange EXCEPT ![c] = 0]
  /\ updates' = IF atExchange[c] > 0 THEN [updates EXCEPT ![c] = Append(@, FALSE)]
                                     ELSE updates
  /\ UNCHANGED <<omVars, unanswered, inFlight, executed, abandoned, crossed>>

-----------------------------------------------------------------------------
(* The event loop hands an event of the gateway to the manager *)

DeliverResponse(o, verdict) ==
  /\ unanswered[o] > 0
  /\ unanswered' = [unanswered EXCEPT ![o] = @ - 1]
  /\ on_order_response(o, verdict)
  /\ UNCHANGED <<atExchange, inFlight, executed, updates, cancels, abandoned, crossed>>

TradeVolume(g) == IF g \in Orders THEN 1 ELSE inFlight[g]

DeliverTrade(g) ==
  /\ inFlight[g] > 0
  /\ inFlight' = [inFlight EXCEPT ![g] = @ - TradeVolume(g)]
  /\ on_trade(g, TradeVolume(g))
  /\ crossed' = IF g \in cancelRequested THEN crossed \cup {g} ELSE crossed
  /\ UNCHANGED <<unanswered, atExchange, executed, updates, cancels, abandoned>>

DeliverUpdate(c) ==
  /\ updates[c] # <<>>
  /\ updates' = [updates EXCEPT ![c] = Tail(@)]
  /\ on_conditional_response(c, Head(updates[c]))
  /\ UNCHANGED <<unanswered, atExchange, inFlight, executed, cancels, abandoned, crossed>>

Verdicts == {"ack", "reject", "retry"}

Next ==
  \/ \E o \in Orders :
       \/ \E vol \in 1 .. MaxVolume, watched \in BOOLEAN : SendOrder(o, vol, watched)
       \/ LeaveOrder(o)
       \/ ExecuteLot(o)
       \/ Withdraw(o)
       \/ \E verdict \in Verdicts : DeliverResponse(o, verdict)
  \/ \E c \in Conditionals :
       \/ \E vol \in 1 .. MaxVolume : SendConditional(c, vol)
       \/ CancelConditional(c)
       \/ LeaveConditional(c)
       \/ Trigger(c)
       \/ HandleCancel(c)
       \/ DeliverUpdate(c)
  \/ \E g \in Fillable : DeliverTrade(g)

(* The gateway answers every request (each branch of process_event pushes a
   response) and the event loop runs every event it was given; nothing obliges
   the exchange to execute, nor a strategy to do anything. *)
Fairness ==
  /\ \A o \in Orders : WF_vars(\E verdict \in Verdicts : DeliverResponse(o, verdict))
  /\ \A g \in Fillable : WF_vars(DeliverTrade(g))

Spec     == Init /\ [][Next]_vars
FairSpec == Spec /\ Fairness

-----------------------------------------------------------------------------
TypeOK ==
  /\ created \subseteq Fillable
  /\ m_orders \subseteq Orders /\ acked \subseteq Orders /\ traded \subseteq Orders
  /\ m_conditionals \subseteq Conditionals
  /\ subscribed \subseteq m_orders \cup m_conditionals
  /\ target \in [Fillable -> Nat]
  /\ filled \in [Fillable -> Nat]
  /\ suspendedVolume \in [Conditionals -> Nat]
  /\ rejected \subseteq Orders /\ cancelRequested \subseteq Conditionals
  /\ unsolicited \in [Fillable -> Nat]
  /\ strayResponses \subseteq Fillable
  /\ unanswered \in [Orders -> 0 .. Responses]
  /\ atExchange \in [Fillable -> Nat]
  /\ inFlight \in [Fillable -> Nat]
  /\ executed \in [Fillable -> Nat]
  /\ updates \in [Conditionals -> Seq(BOOLEAN)]
  /\ cancels \subseteq Conditionals
  /\ abandoned \subseteq Orders /\ crossed \subseteq Conditionals

(* No execution is lost: each lot the exchange executed is on its way, counted in
   its order object, or reported as unsolicited (OrderManager::on_trade). *)
EveryExecutionAccounted ==
  \A g \in Fillable : executed[g] = inFlight[g] + filled[g] + unsolicited[g]

(* pending_orders() gates StrategyBase::try_send_order, so an entry that stays
   for ever stops the strategy from trading: a market order that is answered and
   traded, and that nobody watches, is never left in the table, whichever of the
   response, the trade and the subscriber's departure came last. *)
NoFinishedOrderIsKept ==
  \A o \in m_orders : o \in acked /\ o \in traded => o \in subscribed

(* An "unsolicited" error is raised only for an order whose subscriber left, or
   whose entry an earlier response and an earlier lot had already completed. *)
AlarmsExplained ==
  \A o \in Orders \ abandoned :
    unsolicited[o] > 0 \/ o \in strayResponses => o \in acked /\ o \in traded

(* What the gateways of the tests rely on: with one trade and one response for each
   order, a strategy that waits for its orders never sees an "unsolicited" error. *)
NoFalseAlarm ==
  \A o \in Orders \ abandoned : unsolicited[o] = 0 /\ o \notin strayResponses

(* cancel_take_profit / cancel_stop_loss on the way out: an order that still rests
   at the exchange is known to the manager, or its cancellation is on its way. *)
NoOrphanAtExchange ==
  \A c \in Conditionals : atExchange[c] > 0 => c \in m_conditionals \cup cancels

(* What a conditional order that is still known reads for good, once the exchange is done
   with it and the manager handled every event of both channels, in whatever order they
   came.  Without a cancel request it is Filled.  With one it is never Filled, even if it
   was executed: ConditionalMarketOrder::cancel makes what is filled so far the target, so
   an order reads Cancelled when its trade was handled before the (latest) request or
   never came, and Pending, until somebody cancels it again, exactly when a trade was
   handled after the request. *)
QuietStatusTellsTheCrossing ==
  \A c \in m_conditionals :
    atExchange[c] = 0 /\ inFlight[c] = 0 /\ updates[c] = <<>> =>
      /\ c \notin cancelRequested => status(c) = "Filled"
      /\ c \in cancelRequested \ crossed => status(c) = "Cancelled"
      /\ c \in cancelRequested \cap crossed => status(c) = "Pending"

Ledger == INSTANCE OrderLedger WITH
  Guids <- Fillable, sent <- created, known <- m_orders \cup m_conditionals,
  open <- atExchange, reported <- unsolicited

(* The order manager implements the ledger, whatever its tables of answers, subscribers
   and cancellations do in between: an order that is forgotten does not come back, each
   trade goes to the order while it is known and is reported otherwise, and no lot stays
   unsettled. *)
KeepsTheLedger == Ledger!FairSpec

(* Once some of an order is executed, it leaves pending_orders() or somebody still
   watches its channel. *)
ExecutedOrdersLeave ==
  \A o \in Orders :
    executed[o] > 0 ~> (o \notin m_orders \/ o \in subscribed)
=============================================================================
