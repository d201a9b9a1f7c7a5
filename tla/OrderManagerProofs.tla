-------------------------- MODULE OrderManagerProofs --------------------------
(***************************************************************************)
(* The safety of OrderManagerContract, for every set of orders, every      *)
(* volume and every number of responses.                                   *)
(***************************************************************************)
EXTENDS OrderManagerContract, SequenceTheorems, TLAPS

(* An order nobody has sent yet has no trace anywhere. *)
UnsentIsUnknown ==
  /\ \A o \in Orders \ created :
       /\ o \notin m_orders /\ o \notin acked /\ o \notin traded
       /\ unanswered[o] = 0
  /\ \A g \in Fillable \ created : atExchange[g] = 0 /\ inFlight[g] = 0

(* What the manager forgot of its own accord was answered and traded. *)
ForgottenIsComplete ==
  \A o \in (Orders \cap created) \ (m_orders \cup abandoned) :
    o \in acked /\ o \in traded

(* Every conditional order in the table is watched: a trade never erases it. *)
ConditionalsAreWatched == m_conditionals \subseteq subscribed

IInv ==
  /\ TypeOK
  /\ UnsentIsUnknown
  /\ EveryExecutionAccounted
  /\ NoFinishedOrderIsKept
  /\ ForgottenIsComplete
  /\ AlarmsExplained
  /\ ConditionalsAreWatched
  /\ NoOrphanAtExchange

-----------------------------------------------------------------------------
(* The initial state satisfies the invariant. *)
LEMMA InitIInv == Init => IInv
BY ResponsesIsPositive
   DEF Init, Init_OrderManager, IInv, TypeOK, UnsentIsUnknown, EveryExecutionAccounted,
   NoFinishedOrderIsKept, ForgottenIsComplete, AlarmsExplained, ConditionalsAreWatched,
   NoOrphanAtExchange, Fillable, Conditionals

(* The type invariant is inductive by itself. *)
LEMMA TypeStep == TypeOK /\ [Next]_vars => TypeOK'
<1> SUFFICES ASSUME TypeOK, [Next]_vars PROVE TypeOK'
  OBVIOUS
<1> USE GuidsAreUnique, MaxVolumeIsPositive, ResponsesIsPositive
<1> USE DEF TypeOK, Fillable, Conditionals
<1>1. ASSUME NEW o \in Orders, NEW vol \in 1 .. MaxVolume, NEW watched \in BOOLEAN,
             SendOrder(o, vol, watched)
      PROVE  TypeOK'
  BY <1>1 DEF SendOrder, send_market_order
<1>2. ASSUME NEW o \in Orders, LeaveOrder(o) PROVE TypeOK'
  BY <1>2 DEF LeaveOrder, order_unsubscribed, EraseOrder
<1>3. ASSUME NEW o \in Orders, ExecuteLot(o) PROVE TypeOK'
  BY <1>3 DEF ExecuteLot, omVars
<1>4. ASSUME NEW o \in Orders, Withdraw(o) PROVE TypeOK'
  BY <1>4 DEF Withdraw, omVars
<1>5. ASSUME NEW o \in Orders, NEW verdict \in Verdicts, DeliverResponse(o, verdict)
      PROVE  TypeOK'
  BY <1>5 DEF DeliverResponse, on_order_response, ResponseCompletes, EraseOrder
<1>6. ASSUME NEW c \in Conditionals, NEW vol \in 1 .. MaxVolume, SendConditional(c, vol)
      PROVE  TypeOK'
  BY <1>6, SMTT(20) DEF SendConditional, send_conditional
<1>7. ASSUME NEW c \in Conditionals, CancelConditional(c) PROVE TypeOK'
  BY <1>7 DEF CancelConditional, cancel_conditional, CancelObject
<1>8. ASSUME NEW c \in Conditionals, LeaveConditional(c) PROVE TypeOK'
  BY <1>8 DEF LeaveConditional, conditional_unsubscribed, CancelObject
<1>9. ASSUME NEW c \in Conditionals, Trigger(c) PROVE TypeOK'
  <2>1. updates' \in [Conditionals -> Seq(BOOLEAN)]
    BY <1>9 DEF Trigger
  <2>2. atExchange[c] \in Nat /\ inFlight[c] + atExchange[c] \in Nat
                             /\ executed[c] + atExchange[c] \in Nat
    OBVIOUS
  <2>3. /\ inFlight' \in [Fillable -> Nat] /\ executed' \in [Fillable -> Nat]
        /\ atExchange' \in [Fillable -> Nat]
    BY <1>9, <2>2 DEF Trigger
  <2> QED BY <1>9, <2>1, <2>3 DEF Trigger, omVars
<1>10. ASSUME NEW c \in Conditionals, HandleCancel(c) PROVE TypeOK'
  BY <1>10, SMTT(20) DEF HandleCancel, omVars
<1>11. ASSUME NEW c \in Conditionals, DeliverUpdate(c) PROVE TypeOK'
  <2>1. updates' \in [Conditionals -> Seq(BOOLEAN)]
    <3>1. updates[c] \in Seq(BOOLEAN) /\ updates[c] # <<>>
      BY <1>11 DEF DeliverUpdate
    <3>2. Tail(updates[c]) \in Seq(BOOLEAN)
      BY <3>1, HeadTailProperties
    <3> QED BY <1>11, <3>2 DEF DeliverUpdate
  <2>2. on_conditional_response(c, Head(updates[c]))
    BY <1>11 DEF DeliverUpdate
  <2>3. target[c] \in Nat
    OBVIOUS
  <2>4. suspendedVolume' \in [Conditionals -> Nat]
    <3> DEFINE v == IF Head(updates[c]) THEN target[c] ELSE 0
    <3>1. v \in Nat
      BY <2>3
    <3>2. \/ suspendedVolume' = [suspendedVolume EXCEPT ![c] = v]
          \/ UNCHANGED suspendedVolume
      BY <2>2 DEF on_conditional_response
    <3> HIDE DEF v
    <3> QED BY <3>1, <3>2, ZenonT(40)
  <2>5. strayResponses' \subseteq Fillable
    BY <2>2 DEF on_conditional_response
  <2> QED BY <1>11, <2>1, <2>4, <2>5 DEF DeliverUpdate, on_conditional_response
<1>12. ASSUME NEW g \in Fillable, DeliverTrade(g) PROVE TypeOK'
  <2>0. TradeVolume(g) \in Nat /\ inFlight[g] - TradeVolume(g) \in Nat
    BY <1>12 DEF DeliverTrade, TradeVolume
  <2>c. crossed' \subseteq Conditionals
    BY <1>12 DEF DeliverTrade
  <2>1. CASE try_trade_market_order(g, TradeVolume(g))
    <3>1. filled' \in [Fillable -> Nat] /\ inFlight' \in [Fillable -> Nat]
      BY <1>12, <2>0, <2>1 DEF DeliverTrade, try_trade_market_order, object_on_trade
    <3> QED BY <1>12, <2>1, <2>c, <3>1 DEF DeliverTrade, try_trade_market_order,
       TradeCompletes, EraseOrder
  <2>2. CASE try_trade_conditional(g, TradeVolume(g))
    <3>1. g \in Conditionals
      BY <2>2 DEF try_trade_conditional, object_on_trade
    <3>2. filled' \in [Fillable -> Nat] /\ inFlight' \in [Fillable -> Nat]
      BY <1>12, <2>0, <2>2 DEF DeliverTrade, try_trade_conditional, object_on_trade
    <3>3. suspendedVolume' \in [Conditionals -> Nat]
      BY <2>0, <2>2, <3>1 DEF try_trade_conditional, object_on_trade
    <3>4. subscribed' \subseteq m_orders' \cup m_conditionals'
      BY <2>2 DEF try_trade_conditional, object_on_trade
    <3> QED BY <1>12, <2>2, <2>c, <3>2, <3>3, <3>4 DEF DeliverTrade, try_trade_conditional,
       object_on_trade
  <2>3. CASE g \notin m_orders \cup m_conditionals
    <3>1. /\ unsolicited' = [unsolicited EXCEPT ![g] = @ + TradeVolume(g)]
          /\ UNCHANGED <<created, m_orders, acked, traded, m_conditionals, subscribed,
                         target, filled, suspendedVolume, rejected, cancelRequested,
                         strayResponses>>
      BY <1>12, <2>3 DEF DeliverTrade, on_trade, try_trade_market_order, object_on_trade,
         TradeCompletes, try_trade_conditional, object_on_trade
    <3>2. unsolicited' \in [Fillable -> Nat] /\ inFlight' \in [Fillable -> Nat]
      BY <1>12, <2>0, <3>1 DEF DeliverTrade
    <3> QED BY <1>12, <2>c, <3>1, <3>2 DEF DeliverTrade
  <2> QED BY <1>12, <2>1, <2>2, <2>3 DEF DeliverTrade, on_trade
<1>13. CASE UNCHANGED vars
  BY <1>13 DEF vars, omVars, envVars
<1> HIDE DEF TypeOK, Fillable, Conditionals
<1> QED BY <1>1, <1>2, <1>3, <1>4, <1>5, <1>6, <1>7, <1>8, <1>9, <1>10, <1>11, <1>12,
           <1>13 DEF Next

(* Each step keeps the invariant: one case for each action, and in it the conjuncts
   the action can disturb. *)
LEMMA StepIInv == IInv /\ [Next]_vars => IInv'
<1> SUFFICES ASSUME IInv, [Next]_vars PROVE IInv'
  OBVIOUS
<1> USE GuidsAreUnique, MaxVolumeIsPositive
<1> USE DEF IInv
<1>0. TypeOK'
  BY TypeStep
<1>1. ASSUME NEW o \in Orders, NEW vol \in 1 .. MaxVolume, NEW watched \in BOOLEAN,
            SendOrder(o, vol, watched)
     PROVE  IInv'
  <2>1. UnsentIsUnknown'
    BY <1>1 DEF SendOrder, send_market_order,
       UnsentIsUnknown, TypeOK, Fillable, Conditionals
  <2>2. EveryExecutionAccounted'
    BY <1>1 DEF SendOrder, send_market_order,
       EveryExecutionAccounted, TypeOK, Fillable, Conditionals
  <2>3. NoFinishedOrderIsKept' /\ ForgottenIsComplete' /\ AlarmsExplained'
    BY <1>1 DEF SendOrder, send_market_order,
       NoFinishedOrderIsKept, ForgottenIsComplete, AlarmsExplained, UnsentIsUnknown,
       TypeOK, Fillable, Conditionals
  <2>4. ConditionalsAreWatched' /\ NoOrphanAtExchange'
    BY <1>1 DEF SendOrder, send_market_order,
       ConditionalsAreWatched, NoOrphanAtExchange, TypeOK, Fillable, Conditionals
  <2> QED BY <1>0, <2>1, <2>2, <2>3, <2>4
<1>2. ASSUME NEW o \in Orders, LeaveOrder(o) PROVE IInv'
  <2>1. UnsentIsUnknown'
    BY <1>2 DEF LeaveOrder, order_unsubscribed, EraseOrder,
       UnsentIsUnknown, TypeOK, Fillable, Conditionals
  <2>2. EveryExecutionAccounted'
    BY <1>2 DEF LeaveOrder, order_unsubscribed, EraseOrder,
       EveryExecutionAccounted, TypeOK, Fillable, Conditionals
  <2>3. NoFinishedOrderIsKept' /\ ForgottenIsComplete' /\ AlarmsExplained'
    BY <1>2 DEF LeaveOrder, order_unsubscribed, EraseOrder,
       NoFinishedOrderIsKept, ForgottenIsComplete, AlarmsExplained, UnsentIsUnknown,
       TypeOK, Fillable, Conditionals
  <2>4. ConditionalsAreWatched' /\ NoOrphanAtExchange'
    BY <1>2 DEF LeaveOrder, order_unsubscribed, EraseOrder,
       ConditionalsAreWatched, NoOrphanAtExchange, TypeOK, Fillable, Conditionals
  <2> QED BY <1>0, <2>1, <2>2, <2>3, <2>4
<1>3. ASSUME NEW o \in Orders, ExecuteLot(o) PROVE IInv'
  <2>1. UnsentIsUnknown'
    BY <1>3 DEF ExecuteLot, omVars,
       UnsentIsUnknown, TypeOK, Fillable, Conditionals
  <2>2. EveryExecutionAccounted'
    BY <1>3 DEF ExecuteLot, omVars,
       EveryExecutionAccounted, TypeOK, Fillable, Conditionals
  <2>3. NoFinishedOrderIsKept' /\ ForgottenIsComplete' /\ AlarmsExplained'
    BY <1>3 DEF ExecuteLot, omVars,
       NoFinishedOrderIsKept, ForgottenIsComplete, AlarmsExplained, UnsentIsUnknown,
       TypeOK, Fillable, Conditionals
  <2>4. ConditionalsAreWatched' /\ NoOrphanAtExchange'
    BY <1>3 DEF ExecuteLot, omVars,
       ConditionalsAreWatched, NoOrphanAtExchange, TypeOK, Fillable, Conditionals
  <2> QED BY <1>0, <2>1, <2>2, <2>3, <2>4
<1>4. ASSUME NEW o \in Orders, Withdraw(o) PROVE IInv'
  <2>1. UnsentIsUnknown'
    BY <1>4 DEF Withdraw, omVars,
       UnsentIsUnknown, TypeOK, Fillable, Conditionals
  <2>2. EveryExecutionAccounted'
    BY <1>4 DEF Withdraw, omVars,
       EveryExecutionAccounted, TypeOK, Fillable, Conditionals
  <2>3. NoFinishedOrderIsKept' /\ ForgottenIsComplete' /\ AlarmsExplained'
    BY <1>4 DEF Withdraw, omVars,
       NoFinishedOrderIsKept, ForgottenIsComplete, AlarmsExplained, UnsentIsUnknown,
       TypeOK, Fillable, Conditionals
  <2>4. ConditionalsAreWatched' /\ NoOrphanAtExchange'
    BY <1>4 DEF Withdraw, omVars,
       ConditionalsAreWatched, NoOrphanAtExchange, TypeOK, Fillable, Conditionals
  <2> QED BY <1>0, <2>1, <2>2, <2>3, <2>4
<1>5. ASSUME NEW o \in Orders, NEW verdict \in Verdicts, DeliverResponse(o, verdict)
     PROVE  IInv'
  <2>1. UnsentIsUnknown'
    BY <1>5 DEF DeliverResponse, on_order_response, ResponseCompletes, EraseOrder,
       UnsentIsUnknown, TypeOK, Fillable, Conditionals
  <2>2. EveryExecutionAccounted'
    BY <1>5 DEF DeliverResponse, on_order_response, ResponseCompletes, EraseOrder,
       EveryExecutionAccounted, TypeOK, Fillable, Conditionals
  <2>0. o \in created /\ UNCHANGED <<created, traded, unsolicited, abandoned>>
    BY <1>5 DEF DeliverResponse, on_order_response, ResponseCompletes, UnsentIsUnknown,
       TypeOK
  <2>3. NoFinishedOrderIsKept' /\ ForgottenIsComplete' /\ AlarmsExplained'
    <3>1. CASE o \in m_orders
      BY <2>0, <1>5, <3>1 DEF DeliverResponse, on_order_response, ResponseCompletes,
         EraseOrder, NoFinishedOrderIsKept, ForgottenIsComplete, AlarmsExplained, TypeOK
    <3>2. CASE o \notin m_orders
      BY <2>0, <1>5, <3>2 DEF DeliverResponse, on_order_response, ResponseCompletes,
         NoFinishedOrderIsKept, ForgottenIsComplete, AlarmsExplained, TypeOK
    <3> QED BY <3>1, <3>2
  <2>4. ConditionalsAreWatched' /\ NoOrphanAtExchange'
    BY <1>5 DEF DeliverResponse, on_order_response, ResponseCompletes, EraseOrder,
       ConditionalsAreWatched, NoOrphanAtExchange, TypeOK, Fillable, Conditionals
  <2> QED BY <1>0, <2>1, <2>2, <2>3, <2>4
<1>6. ASSUME NEW c \in Conditionals, NEW vol \in 1 .. MaxVolume, SendConditional(c, vol)
     PROVE  IInv'
  <2>1. UnsentIsUnknown'
    BY <1>6 DEF SendConditional, send_conditional,
       UnsentIsUnknown, TypeOK, Fillable, Conditionals
  <2>2. EveryExecutionAccounted'
    BY <1>6 DEF SendConditional, send_conditional,
       EveryExecutionAccounted, TypeOK, Fillable, Conditionals
  <2>3. NoFinishedOrderIsKept' /\ ForgottenIsComplete' /\ AlarmsExplained'
    <3>1. /\ Orders \cap created' = Orders \cap created
          /\ UNCHANGED <<m_orders, acked, traded, unsolicited, strayResponses, abandoned>>
          /\ subscribed \subseteq subscribed'
      BY <1>6 DEF SendConditional, send_conditional
    <3> QED BY <3>1 DEF NoFinishedOrderIsKept, ForgottenIsComplete, AlarmsExplained
  <2>4. ConditionalsAreWatched' /\ NoOrphanAtExchange'
    BY <1>6 DEF SendConditional, send_conditional,
       ConditionalsAreWatched, NoOrphanAtExchange, TypeOK, Fillable, Conditionals
  <2> QED BY <1>0, <2>1, <2>2, <2>3, <2>4
<1>7. ASSUME NEW c \in Conditionals, CancelConditional(c) PROVE IInv'
  <2>1. UnsentIsUnknown'
    BY <1>7 DEF CancelConditional, cancel_conditional, CancelObject,
       UnsentIsUnknown, TypeOK, Fillable, Conditionals
  <2>2. EveryExecutionAccounted'
    BY <1>7 DEF CancelConditional, cancel_conditional, CancelObject,
       EveryExecutionAccounted, TypeOK, Fillable, Conditionals
  <2>3. NoFinishedOrderIsKept' /\ ForgottenIsComplete' /\ AlarmsExplained'
    BY <1>7 DEF CancelConditional, cancel_conditional, CancelObject,
       NoFinishedOrderIsKept, ForgottenIsComplete, AlarmsExplained, UnsentIsUnknown,
       TypeOK, Fillable, Conditionals
  <2>4. ConditionalsAreWatched' /\ NoOrphanAtExchange'
    BY <1>7 DEF CancelConditional, cancel_conditional, CancelObject,
       ConditionalsAreWatched, NoOrphanAtExchange, TypeOK, Fillable, Conditionals
  <2> QED BY <1>0, <2>1, <2>2, <2>3, <2>4
<1>8. ASSUME NEW c \in Conditionals, LeaveConditional(c) PROVE IInv'
  <2>1. UnsentIsUnknown'
    BY <1>8 DEF LeaveConditional, conditional_unsubscribed, CancelObject,
       UnsentIsUnknown, TypeOK, Fillable, Conditionals
  <2>2. EveryExecutionAccounted'
    BY <1>8 DEF LeaveConditional, conditional_unsubscribed, CancelObject,
       EveryExecutionAccounted, TypeOK, Fillable, Conditionals
  <2>3. NoFinishedOrderIsKept' /\ ForgottenIsComplete' /\ AlarmsExplained'
    BY <1>8 DEF LeaveConditional, conditional_unsubscribed, CancelObject,
       NoFinishedOrderIsKept, ForgottenIsComplete, AlarmsExplained, UnsentIsUnknown,
       TypeOK, Fillable, Conditionals
  <2>4. ConditionalsAreWatched' /\ NoOrphanAtExchange'
    BY <1>8 DEF LeaveConditional, conditional_unsubscribed, CancelObject,
       ConditionalsAreWatched, NoOrphanAtExchange, TypeOK, Fillable, Conditionals
  <2> QED BY <1>0, <2>1, <2>2, <2>3, <2>4
<1>9. ASSUME NEW c \in Conditionals, Trigger(c) PROVE IInv'
  <2>1. UnsentIsUnknown'
    BY <1>9 DEF Trigger, omVars,
       UnsentIsUnknown, TypeOK, Fillable, Conditionals
  <2>2. EveryExecutionAccounted'
    BY <1>9 DEF Trigger, omVars,
       EveryExecutionAccounted, TypeOK, Fillable, Conditionals
  <2>3. NoFinishedOrderIsKept' /\ ForgottenIsComplete' /\ AlarmsExplained'
    BY <1>9 DEF Trigger, omVars,
       NoFinishedOrderIsKept, ForgottenIsComplete, AlarmsExplained, UnsentIsUnknown,
       TypeOK, Fillable, Conditionals
  <2>4. ConditionalsAreWatched' /\ NoOrphanAtExchange'
    BY <1>9 DEF Trigger, omVars,
       ConditionalsAreWatched, NoOrphanAtExchange, TypeOK, Fillable, Conditionals
  <2> QED BY <1>0, <2>1, <2>2, <2>3, <2>4
<1>10. ASSUME NEW c \in Conditionals, HandleCancel(c) PROVE IInv'
  <2>1. UnsentIsUnknown'
    BY <1>10 DEF HandleCancel, omVars,
       UnsentIsUnknown, TypeOK, Fillable, Conditionals
  <2>2. EveryExecutionAccounted'
    BY <1>10 DEF HandleCancel, omVars,
       EveryExecutionAccounted, TypeOK, Fillable, Conditionals
  <2>3. NoFinishedOrderIsKept' /\ ForgottenIsComplete' /\ AlarmsExplained'
    BY <1>10 DEF HandleCancel, omVars,
       NoFinishedOrderIsKept, ForgottenIsComplete, AlarmsExplained, UnsentIsUnknown,
       TypeOK, Fillable, Conditionals
  <2>4. ConditionalsAreWatched' /\ NoOrphanAtExchange'
    BY <1>10 DEF HandleCancel, omVars,
       ConditionalsAreWatched, NoOrphanAtExchange, TypeOK, Fillable, Conditionals
  <2> QED BY <1>0, <2>1, <2>2, <2>3, <2>4
<1>11. ASSUME NEW c \in Conditionals, DeliverUpdate(c) PROVE IInv'
  <2>1. UnsentIsUnknown'
    BY <1>11 DEF DeliverUpdate, on_conditional_response,
       UnsentIsUnknown, TypeOK, Fillable, Conditionals
  <2>2. EveryExecutionAccounted'
    BY <1>11 DEF DeliverUpdate, on_conditional_response,
       EveryExecutionAccounted, TypeOK, Fillable, Conditionals
  <2>3. NoFinishedOrderIsKept' /\ ForgottenIsComplete' /\ AlarmsExplained'
    BY <1>11, ZenonT(40) DEF DeliverUpdate, on_conditional_response,
       NoFinishedOrderIsKept, ForgottenIsComplete, AlarmsExplained, UnsentIsUnknown,
       TypeOK, Fillable, Conditionals
  <2>4. ConditionalsAreWatched' /\ NoOrphanAtExchange'
    BY <1>11 DEF DeliverUpdate, on_conditional_response,
       ConditionalsAreWatched, NoOrphanAtExchange, TypeOK, Fillable, Conditionals
  <2> QED BY <1>0, <2>1, <2>2, <2>3, <2>4
<1>12. ASSUME NEW g \in Fillable, DeliverTrade(g) PROVE IInv'
  <2> DEFINE v == TradeVolume(g)
  <2>0. /\ inFlight[g] > 0 /\ g \in created /\ v \in Nat \ {0} /\ inFlight[g] - v \in Nat
        /\ inFlight' = [inFlight EXCEPT ![g] = @ - v]
        /\ UNCHANGED <<unanswered, atExchange, executed, updates, cancels, abandoned>>
    BY <1>12 DEF DeliverTrade, TradeVolume, UnsentIsUnknown, TypeOK
  <2> HIDE DEF v
  <2>1. CASE try_trade_market_order(g, v)
    <3>1. UnsentIsUnknown' /\ EveryExecutionAccounted'
      <4>1. UnsentIsUnknown'
        BY <2>0, <2>1 DEF try_trade_market_order, object_on_trade, TradeCompletes,
           EraseOrder, UnsentIsUnknown, TypeOK
      <4>2. EveryExecutionAccounted'
        BY <2>0, <2>1 DEF try_trade_market_order, object_on_trade, TradeCompletes,
           EveryExecutionAccounted, TypeOK
      <4> QED BY <4>1, <4>2
    <3>2. NoFinishedOrderIsKept' /\ ForgottenIsComplete' /\ AlarmsExplained'
      BY <2>0, <2>1 DEF try_trade_market_order, object_on_trade, TradeCompletes,
         EraseOrder, NoFinishedOrderIsKept, ForgottenIsComplete, AlarmsExplained, TypeOK
    <3>3. ConditionalsAreWatched' /\ NoOrphanAtExchange'
      BY <2>0, <2>1 DEF try_trade_market_order, object_on_trade, TradeCompletes,
         EraseOrder, ConditionalsAreWatched, NoOrphanAtExchange, TypeOK
    <3> QED BY <1>0, <3>1, <3>2, <3>3
  <2>2. CASE try_trade_conditional(g, v)
    <3>1. g \in Conditionals /\ g \in subscribed
      BY <2>2 DEF try_trade_conditional, object_on_trade, TypeOK, ConditionalsAreWatched
    <3>2. UnsentIsUnknown' /\ EveryExecutionAccounted'
      BY <2>0, <2>2 DEF try_trade_conditional, object_on_trade, UnsentIsUnknown,
         EveryExecutionAccounted, TypeOK, Fillable
    <3>3. NoFinishedOrderIsKept' /\ ForgottenIsComplete' /\ AlarmsExplained'
      BY <2>0, <2>2 DEF try_trade_conditional, object_on_trade, NoFinishedOrderIsKept,
         ForgottenIsComplete, AlarmsExplained
    <3>4. ConditionalsAreWatched' /\ NoOrphanAtExchange'
      BY <2>0, <2>2, <3>1 DEF try_trade_conditional, object_on_trade,
         ConditionalsAreWatched, NoOrphanAtExchange
    <3> QED BY <1>0, <3>2, <3>3, <3>4
  <2>3. CASE g \notin m_orders \cup m_conditionals
    <3>1. /\ unsolicited' = [unsolicited EXCEPT ![g] = @ + v]
          /\ UNCHANGED <<created, m_orders, acked, traded, m_conditionals, subscribed,
                         filled, strayResponses>>
      BY <1>12, <2>3 DEF v, DeliverTrade, on_trade, try_trade_market_order,
         object_on_trade, TradeCompletes, try_trade_conditional
    <3>2. UnsentIsUnknown' /\ EveryExecutionAccounted'
      BY <2>0, <3>1 DEF UnsentIsUnknown, EveryExecutionAccounted, TypeOK, Fillable
    <3>3. NoFinishedOrderIsKept' /\ ForgottenIsComplete'
      BY <2>0, <3>1 DEF NoFinishedOrderIsKept, ForgottenIsComplete
    <3>4. AlarmsExplained'
      BY <2>0, <2>3, <3>1 DEF AlarmsExplained, ForgottenIsComplete, TypeOK, Fillable
    <3>5. ConditionalsAreWatched' /\ NoOrphanAtExchange'
      BY <2>0, <3>1 DEF ConditionalsAreWatched, NoOrphanAtExchange
    <3> QED BY <1>0, <3>2, <3>3, <3>4, <3>5
  <2> QED BY <1>12, <2>1, <2>2, <2>3 DEF v, DeliverTrade, on_trade
<1>13. CASE UNCHANGED vars
  BY <1>0, <1>13 DEF vars, omVars, envVars, UnsentIsUnknown, EveryExecutionAccounted,
     NoFinishedOrderIsKept, ForgottenIsComplete, AlarmsExplained, ConditionalsAreWatched,
     NoOrphanAtExchange
<1> HIDE DEF IInv
<1> QED BY <1>1, <1>2, <1>3, <1>4, <1>5, <1>6, <1>7, <1>8, <1>9, <1>10, <1>11, <1>12,
           <1>13 DEF Next

(* The invariant holds in every reachable state. *)
THEOREM InvariantHolds == Spec => []IInv
<1>1. Init => IInv
  BY InitIInv
<1>2. IInv /\ [Next]_vars => IInv'
  BY StepIInv
<1> QED BY <1>1, <1>2, PTL DEF Spec

-----------------------------------------------------------------------------
(* Every variable of the manager and of its environment keeps its type: the maps
   hold guids of their own kind and volumes never go below zero. *)
THEOREM TypeCorrect == Spec => []TypeOK
<1>1. IInv => TypeOK
  BY DEF IInv
<1> QED BY <1>1, InvariantHolds, PTL

(* OrderManager::on_trade loses no execution: each lot is on its way, counted in its
   order, or reported as unsolicited. *)
THEOREM ExecutionsAreAccounted == Spec => []EveryExecutionAccounted
<1>1. IInv => EveryExecutionAccounted
  BY DEF IInv
<1> QED BY <1>1, InvariantHolds, PTL

(* on_order_response, try_trade_market_order and the unsubscription callback between
   them leave no answered, traded and unwatched entry in pending_orders(), in whatever
   order they run. *)
THEOREM FinishedOrdersAreErased == Spec => []NoFinishedOrderIsKept
<1>1. IInv => NoFinishedOrderIsKept
  BY DEF IInv
<1> QED BY <1>1, InvariantHolds, PTL

(* An "unsolicited" error about an order whose subscriber stayed means that the order
   was already answered and traded: the manager never forgets an order early. *)
THEOREM AlarmsHaveAReason == Spec => []AlarmsExplained
<1>1. IInv => AlarmsExplained
  BY DEF IInv
<1> QED BY <1>1, InvariantHolds, PTL

(* A take profit or a stop loss that still rests at the exchange is in the manager's
   table, or the request that cancels it is on its way. *)
THEOREM NoConditionalIsOrphaned == Spec => []NoOrphanAtExchange
<1>1. IInv => NoOrphanAtExchange
  BY DEF IInv
<1> QED BY <1>1, InvariantHolds, PTL

-----------------------------------------------------------------------------
(* What the exchange still has to say about a conditional order. *)
LastUpdateIsOff(c) == updates[c][Len(updates[c])] = FALSE

(* Of a conditional order: nothing is known before it is sent; a cancel request on its
   way marked the object; what a cancelled order wants was filled when it was cancelled,
   and it has more than that exactly when a trade crossed the request; while it is in the
   table and not cancelled, what it wants is resting or executed; and once the exchange is done with it, the last update, still
   underway or handled, took the volume out of the suspended state. *)
ConditionalInv(c) ==
  /\ c \notin created => /\ c \notin m_conditionals
                         /\ c \notin cancelRequested /\ c \notin cancels
                         /\ executed[c] = 0 /\ updates[c] = <<>>
  /\ c \in cancels => c \in cancelRequested
  /\ c \in m_conditionals \cap cancelRequested =>
       target[c] <= filled[c] /\ (c \in crossed <=> target[c] < filled[c])
  /\ c \in m_conditionals \ cancelRequested =>
       unsolicited[c] = 0 /\ atExchange[c] + executed[c] = target[c]
  /\ atExchange[c] = 0 /\ updates[c] # <<>> => LastUpdateIsOff(c)
  /\ atExchange[c] = 0 /\ updates[c] = <<>> /\ c \in m_conditionals =>
       suspendedVolume[c] = 0

ConditionalsInv == \A c \in Conditionals : ConditionalInv(c)

(* ConditionalsInv holds initially. *)
LEMMA InitConditionals == Init => ConditionalsInv
BY DEF Init, Init_OrderManager, ConditionalsInv, ConditionalInv, Fillable, Conditionals

(* The last entry of an extended queue, and of a queue without its head. *)
LEMMA LastOfAppend ==
  ASSUME NEW S, NEW s \in Seq(S), NEW e \in S
  PROVE  /\ Append(s, e) # <<>>
         /\ Append(s, e)[Len(Append(s, e))] = e
BY AppendProperties

LEMMA LastOfTail ==
  ASSUME NEW S, NEW s \in Seq(S), s # <<>>
  PROVE  /\ Tail(s) = <<>> => Head(s) = s[Len(s)]
         /\ Tail(s) # <<>> => Tail(s)[Len(Tail(s))] = s[Len(s)]
<1>1. /\ Len(s) \in Nat /\ Len(s) # 0 /\ Head(s) = s[1]
      /\ Len(Tail(s)) = Len(s) - 1 /\ Tail(s) \in Seq(S)
  BY HeadTailProperties, LenProperties, EmptySeq
<1>2. CASE Tail(s) = <<>>
  BY <1>1, <1>2
<1>3. CASE Tail(s) # <<>>
  <2>1. Len(Tail(s)) \in Nat /\ Len(Tail(s)) # 0
    BY <1>1, <1>3, LenProperties, EmptySeq
  <2>2. Tail(s)[Len(Tail(s))] = s[Len(Tail(s)) + 1]
    BY <1>1, <2>1, HeadTailProperties
  <2> QED BY <1>1, <1>3, <2>2
<1> QED BY <1>2, <1>3

(* What the actions say of one conditional order p. *)
LEMMA StepConditionals ==
  ASSUME IInv, ConditionalsInv, [Next]_vars
  PROVE  ConditionalsInv'
<1> SUFFICES ASSUME NEW p \in Conditionals PROVE ConditionalInv(p)'
  BY DEF ConditionalsInv, Conditionals
<1> DEFINE Same == /\ (p \in created') = (p \in created)
                   /\ (p \in cancelRequested') = (p \in cancelRequested)
                   /\ (p \in cancels') = (p \in cancels)
                   /\ (p \in m_conditionals') = (p \in m_conditionals)
                   /\ executed'[p] = executed[p] /\ updates'[p] = updates[p]
                   /\ (p \in crossed') = (p \in crossed)
                   /\ target'[p] = target[p] /\ filled'[p] = filled[p]
                   /\ unsolicited'[p] = unsolicited[p]
                   /\ atExchange'[p] = atExchange[p]
                   /\ suspendedVolume'[p] = suspendedVolume[p]
<1>0. /\ p \in Fillable /\ p \notin Orders /\ ConditionalInv(p)
      /\ target \in [Fillable -> Nat] /\ filled \in [Fillable -> Nat]
      /\ suspendedVolume \in [Conditionals -> Nat]
      /\ unsolicited \in [Fillable -> Nat] /\ atExchange \in [Fillable -> Nat]
      /\ inFlight \in [Fillable -> Nat] /\ executed \in [Fillable -> Nat]
      /\ updates \in [Conditionals -> Seq(BOOLEAN)]
      /\ executed[p] = inFlight[p] + filled[p] + unsolicited[p]
      /\ p \notin created => atExchange[p] = 0 /\ inFlight[p] = 0
      /\ m_orders \subseteq Orders
  BY GuidsAreUnique DEF ConditionalsInv, IInv, TypeOK, UnsentIsUnknown,
     EveryExecutionAccounted, Fillable, Conditionals
<1>s. ASSUME Same PROVE ConditionalInv(p)'
  BY <1>0, <1>s DEF ConditionalInv, LastUpdateIsOff
<1> HIDE DEF Same
<1>1. ASSUME NEW o \in Orders,
             \/ \E vol \in 1 .. MaxVolume, watched \in BOOLEAN : SendOrder(o, vol, watched)
             \/ LeaveOrder(o) \/ ExecuteLot(o) \/ Withdraw(o)
             \/ \E verdict \in Verdicts : DeliverResponse(o, verdict)
      PROVE  Same
  <2>0. o # p
    BY <1>0
  <2>1. ASSUME NEW vol \in 1 .. MaxVolume, NEW watched \in BOOLEAN, SendOrder(o, vol, watched)
        PROVE  Same
    BY <1>0, <2>0, <2>1 DEF Same, SendOrder, send_market_order
  <2>2. ASSUME LeaveOrder(o) \/ ExecuteLot(o) \/ Withdraw(o) PROVE Same
    BY <1>0, <2>0, <2>2 DEF Same, LeaveOrder, order_unsubscribed, ExecuteLot, Withdraw, omVars
  <2>3. ASSUME NEW verdict \in Verdicts, DeliverResponse(o, verdict) PROVE Same
    BY <2>3 DEF Same, DeliverResponse, on_order_response
  <2> QED BY <1>1, <2>1, <2>2, <2>3
<1>2. ASSUME NEW c \in Conditionals, NEW vol \in 1 .. MaxVolume, SendConditional(c, vol)
      PROVE  ConditionalInv(p)'
  <2>0. vol \in Nat
    BY MaxVolumeIsPositive
  <2>1. CASE c # p
    <3> DEFINE a == Append(updates[c], TRUE)
    <3>1. updates' = [updates EXCEPT ![c] = a]
      BY <1>2 DEF SendConditional
    <3> HIDE DEF a
    <3>2. updates'[p] = updates[p]
      BY <1>0, <2>1, <3>1
    <3>3. /\ p \in created' <=> p \in created
          /\ p \in m_conditionals' <=> p \in m_conditionals
          /\ atExchange'[p] = atExchange[p] /\ target'[p] = target[p]
          /\ UNCHANGED <<cancels, cancelRequested, crossed, executed, filled, unsolicited,
                         suspendedVolume>>
      BY <1>0, <1>2, <2>1 DEF SendConditional, send_conditional
    <3>4. Same
      BY <3>2, <3>3 DEF Same
    <3> QED BY <1>s, <3>4
  <2>2. CASE c = p
    <3>1. /\ p \notin created /\ p \in created' /\ target'[p] = vol /\ atExchange'[p] = vol
          /\ UNCHANGED <<cancelRequested, cancels, executed, unsolicited>>
          /\ updates'[p] = Append(updates[p], TRUE)
      BY <1>0, <1>2, <2>2 DEF SendConditional, send_conditional
    <3>2. /\ p \notin cancelRequested' /\ p \notin cancels' /\ executed'[p] = 0
          /\ unsolicited'[p] = 0 /\ atExchange'[p] # 0
      BY <1>0, <2>0, <3>1 DEF ConditionalInv
    <3>3. atExchange'[p] + executed'[p] = target'[p]
      BY <2>0, <3>1, <3>2
    <3> QED BY <3>1, <3>2, <3>3 DEF ConditionalInv
  <2> QED BY <2>1, <2>2
<1>3. ASSUME NEW c \in Conditionals, CancelConditional(c) \/ LeaveConditional(c)
      PROVE  ConditionalInv(p)'
  <2>1. CASE c # p
    <3>1. Same
      BY <1>0, <1>3, <2>1, SMTT(20) DEF Same, CancelConditional, cancel_conditional, CancelObject,
         LeaveConditional, conditional_unsubscribed
    <3> QED BY <1>s, <3>1
  <2>2. CASE c = p /\ p \notin m_conditionals
    <3>1. Same
      BY <1>0, <1>3, <2>2 DEF Same, CancelConditional, cancel_conditional, CancelObject,
         LeaveConditional, conditional_unsubscribed
    <3> QED BY <1>s, <3>1
  <2>3. CASE c = p /\ p \in m_conditionals
    <3>1. /\ p \in cancelRequested' /\ p \in cancels' /\ target'[p] = filled[p]
          /\ p \notin crossed'
          /\ UNCHANGED <<created, filled, executed, unsolicited, atExchange, updates,
                         suspendedVolume>>
      BY <1>0, <1>3, <2>3 DEF CancelConditional, cancel_conditional, CancelObject,
         LeaveConditional, conditional_unsubscribed
    <3>2. p \in created
      BY <1>0, <2>3 DEF ConditionalInv
    <3> QED BY <1>0, <2>3, <3>1, <3>2 DEF ConditionalInv, LastUpdateIsOff
  <2> QED BY <2>1, <2>2, <2>3
<1>4. ASSUME NEW c \in Conditionals, Trigger(c) PROVE ConditionalInv(p)'
  <2>1. CASE c # p
    <3>1. Same
      BY <1>0, <1>4, <2>1 DEF Same, Trigger, omVars
    <3> QED BY <1>s, <3>1
  <2>2. CASE c = p
    <3>1. /\ atExchange[p] > 0 /\ atExchange'[p] = 0
          /\ executed'[p] = executed[p] + atExchange[p]
          /\ updates'[p] = Append(updates[p], FALSE)
          /\ UNCHANGED <<created, cancelRequested, cancels, m_conditionals, target, filled,
                         unsolicited, crossed>>
      BY <1>0, <1>4, <2>2 DEF Trigger, omVars
    <3>2. updates'[p] # <<>> /\ updates'[p][Len(updates'[p])] = FALSE
      <4>1. updates[p] \in Seq(BOOLEAN) /\ FALSE \in BOOLEAN
        BY <1>0
      <4> QED BY <3>1, <4>1, LastOfAppend
    <3>3. /\ p \in created
          /\ p \in m_conditionals \ cancelRequested =>
               atExchange'[p] + executed'[p] = target'[p]
      BY <1>0, <3>1 DEF ConditionalInv
    <3>4. executed'[p] # 0
      BY <1>0, <3>1
    <3> QED BY <1>0, <3>1, <3>2, <3>3, <3>4 DEF ConditionalInv, LastUpdateIsOff
  <2> QED BY <2>1, <2>2
<1>5. ASSUME NEW c \in Conditionals, HandleCancel(c) PROVE ConditionalInv(p)'
  <2>1. CASE c # p
    <3> DEFINE a == Append(updates[c], FALSE)
    <3>1. updates' = [updates EXCEPT ![c] = a] \/ updates' = updates
      BY <1>5 DEF HandleCancel
    <3> HIDE DEF a
    <3>2. updates'[p] = updates[p]
      BY <1>0, <2>1, <3>1
    <3>3. /\ p \in cancels' <=> p \in cancels
          /\ atExchange'[p] = atExchange[p]
          /\ UNCHANGED <<created, cancelRequested, m_conditionals, executed, target,
                         filled, unsolicited, suspendedVolume, crossed>>
      BY <1>0, <1>5, <2>1 DEF HandleCancel, omVars
    <3>4. Same
      BY <3>2, <3>3 DEF Same
    <3> QED BY <1>s, <3>4
  <2>2. CASE c = p
    <3>1. /\ p \in cancels /\ p \notin cancels' /\ atExchange'[p] = 0
          /\ updates'[p] = IF atExchange[p] > 0 THEN Append(updates[p], FALSE)
                                                ELSE updates[p]
          /\ UNCHANGED <<created, cancelRequested, m_conditionals, target, unsolicited,
                         filled, executed, suspendedVolume, crossed>>
      BY <1>0, <1>5, <2>2 DEF HandleCancel, omVars
    <3>2. CASE atExchange[p] > 0
      <4>1. updates'[p] # <<>> /\ updates'[p][Len(updates'[p])] = FALSE
        <5>1. /\ updates[p] \in Seq(BOOLEAN) /\ FALSE \in BOOLEAN
              /\ updates'[p] = Append(updates[p], FALSE)
          BY <1>0, <3>1, <3>2
        <5> QED BY <5>1, LastOfAppend
      <4> QED BY <1>0, <3>1, <3>2, <4>1 DEF ConditionalInv, LastUpdateIsOff
    <3>3. CASE ~(atExchange[p] > 0)
      <4>1. atExchange[p] = 0 /\ updates'[p] = updates[p]
        BY <1>0, <3>1, <3>3
      <4> QED BY <1>0, <3>1, <4>1 DEF ConditionalInv, LastUpdateIsOff
    <3> QED BY <3>2, <3>3
  <2> QED BY <2>1, <2>2
<1>6. ASSUME NEW c \in Conditionals, DeliverUpdate(c) PROVE ConditionalInv(p)'
  <2>1. CASE c # p
    <3>1. Same
      BY <1>0, <1>6, <2>1 DEF Same, DeliverUpdate, on_conditional_response
    <3> QED BY <1>s, <3>1
  <2>2. CASE c = p
    <3> DEFINE u == updates[p]
    <3>1. /\ u # <<>> /\ updates'[p] = Tail(u) /\ u \in Seq(BOOLEAN)
          /\ UNCHANGED <<created, cancelRequested, cancels, m_conditionals, target, filled,
                         unsolicited, executed, atExchange, crossed>>
          /\ p \in m_conditionals => suspendedVolume'[p] = IF Head(u) THEN target[p] ELSE 0
      BY <1>0, <1>6, <2>2 DEF DeliverUpdate, on_conditional_response
    <3>2. atExchange[p] = 0 => u[Len(u)] = FALSE
      BY <1>0, <3>1 DEF ConditionalInv, LastUpdateIsOff
    <3> HIDE DEF u
    <3>3. Tail(u) = <<>> => Head(u) = u[Len(u)]
      BY <3>1, LastOfTail
    <3>4. Tail(u) # <<>> => Tail(u)[Len(Tail(u))] = u[Len(u)]
      BY <3>1, LastOfTail
    <3> QED BY <1>0, <3>1, <3>2, <3>3, <3>4 DEF ConditionalInv, LastUpdateIsOff, u
  <2> QED BY <2>1, <2>2
<1>7. ASSUME NEW g \in Fillable, DeliverTrade(g) PROVE ConditionalInv(p)'
  <2> DEFINE v == TradeVolume(g)
  <2>1. /\ inFlight[g] > 0
        /\ UNCHANGED <<created, cancelRequested, cancels, target, executed, atExchange,
                       updates>>
        /\ p \in m_conditionals' => p \in m_conditionals
    BY <1>7 DEF DeliverTrade, on_trade, try_trade_market_order, try_trade_conditional
  <2>2. /\ p \in m_conditionals => unsolicited'[p] = unsolicited[p]
        /\ \/ suspendedVolume'[p] = suspendedVolume[p]
           \/ suspendedVolume[p] >= v /\ suspendedVolume'[p] = suspendedVolume[p] - v
    BY <1>0, <1>7 DEF DeliverTrade, on_trade, try_trade_market_order, try_trade_conditional
  <2>3. v \in Nat \ {0}
    BY <1>0, <2>1 DEF TradeVolume
  <2>5. /\ g # p => filled'[p] = filled[p]
        /\ g = p /\ p \in m_conditionals => filled'[p] = filled[p] + v
        /\ crossed' = IF g \in cancelRequested THEN crossed \cup {g} ELSE crossed
    BY <1>0, <1>7 DEF DeliverTrade, on_trade, try_trade_market_order, object_on_trade,
       try_trade_conditional
  <2> HIDE DEF v
  <2>4. suspendedVolume[p] = 0 => suspendedVolume'[p] = 0
    BY <1>0, <2>2, <2>3
  <2>6. p \in m_conditionals' \cap cancelRequested' =>
          target'[p] <= filled'[p] /\ (p \in crossed' <=> target'[p] < filled'[p])
    <3>1. CASE g # p
      BY <1>0, <2>1, <2>5, <3>1 DEF ConditionalInv
    <3>2. CASE g = p
      BY <1>0, <2>1, <2>3, <2>5, <3>2 DEF ConditionalInv
    <3> QED BY <3>1, <3>2
  <2> QED BY <1>0, <2>1, <2>2, <2>4, <2>6 DEF ConditionalInv, LastUpdateIsOff
<1>8. ASSUME UNCHANGED vars PROVE Same
  BY <1>8 DEF Same, vars, omVars, envVars
<1> QED BY <1>s, <1>1, <1>2, <1>3, <1>4, <1>5, <1>6, <1>7, <1>8 DEF Next

(* ConditionalMarketOrder::status: whatever the order in which the trade channel and the
   update channel deliver, and whenever a cancel request arrives, an order the exchange is
   done with reads Filled if it was not cancelled, Cancelled if no trade came after its
   latest cancel request, even if one came before, and Pending if one did. *)
THEOREM QuietOrdersTellTheCrossing == Spec => []QuietStatusTellsTheCrossing
<1>1. IInv /\ ConditionalsInv => QuietStatusTellsTheCrossing
  <2> SUFFICES ASSUME IInv, ConditionalsInv, NEW c \in m_conditionals,
                      atExchange[c] = 0, inFlight[c] = 0, updates[c] = <<>>
               PROVE  /\ c \notin cancelRequested => status(c) = "Filled"
                      /\ c \in cancelRequested \ crossed => status(c) = "Cancelled"
                      /\ c \in cancelRequested \cap crossed => status(c) = "Pending"
    BY DEF QuietStatusTellsTheCrossing
  <2>1. /\ c \in Conditionals /\ c \in Fillable /\ c \notin rejected
        /\ target[c] \in Nat /\ filled[c] \in Nat /\ unsolicited[c] \in Nat
        /\ executed[c] = filled[c] + unsolicited[c]
    BY GuidsAreUnique DEF IInv, TypeOK, EveryExecutionAccounted, Fillable, Conditionals
  <2>2. /\ suspendedVolume[c] = 0 /\ ConditionalInv(c)
    BY <2>1 DEF ConditionalsInv, ConditionalInv
  <2> QED BY <2>1, <2>2 DEF ConditionalInv, status
<1>2. Init => IInv /\ ConditionalsInv
  BY InitIInv, InitConditionals
<1>3. IInv /\ ConditionalsInv /\ [Next]_vars => (IInv /\ ConditionalsInv)'
  BY StepIInv, StepConditionals
<1> QED BY <1>1, <1>2, <1>3, PTL DEF Spec
-----------------------------------------------------------------------------
(* With one response and one trade for each order nothing comes after the event that
   completes it. *)
SingleInv ==
  \A o \in Orders :
    /\ o \in acked => unanswered[o] = 0
    /\ o \in traded => filled[o] > 0
    /\ executed[o] + atExchange[o] \in 0 .. 1
    /\ o \notin created => executed[o] = 0

(* SingleInv holds initially: no order was sent. *)
LEMMA InitSingle == Init => SingleInv
<1> SUFFICES ASSUME Init, NEW o \in Orders
             PROVE  /\ o \notin acked /\ o \notin traded
                    /\ executed[o] = 0 /\ atExchange[o] = 0
                    /\ executed[o] + atExchange[o] \in 0 .. 1
  BY Zenon DEF SingleInv
<1>1. o \notin acked /\ o \notin traded /\ executed[o] = 0 /\ atExchange[o] = 0
  BY DEF Init, Init_OrderManager, Fillable
<1> QED BY <1>1

(* A step keeps SingleInv: it is enough to look at one order p. *)
LEMMA StepSingle ==
  ASSUME Responses = 1, MaxVolume = 1, IInv, SingleInv, [Next]_vars
  PROVE  SingleInv'
<1> SUFFICES ASSUME NEW p \in Orders
             PROVE  /\ p \in acked' => unanswered'[p] = 0
                    /\ p \in traded' => filled'[p] > 0
                    /\ executed'[p] + atExchange'[p] \in 0 .. 1
                    /\ p \notin created' => executed'[p] = 0
  BY DEF SingleInv
<1> DEFINE Goal == /\ p \in acked' => unanswered'[p] = 0
                   /\ p \in traded' => filled'[p] > 0
                   /\ executed'[p] + atExchange'[p] \in 0 .. 1
                   /\ p \notin created' => executed'[p] = 0
<1>0. /\ p \in Fillable /\ p \notin Conditionals /\ Orders \subseteq Fillable
      /\ unanswered \in [Orders -> 0 .. 1] /\ atExchange \in [Fillable -> Nat]
      /\ executed \in [Fillable -> Nat] /\ filled \in [Fillable -> Nat]
      /\ inFlight \in [Fillable -> Nat]
      /\ p \in acked => unanswered[p] = 0
      /\ p \in traded => filled[p] > 0
      /\ executed[p] + atExchange[p] \in 0 .. 1
      /\ p \notin created => /\ executed[p] = 0 /\ atExchange[p] = 0
                            /\ p \notin acked /\ p \notin traded
  BY GuidsAreUnique DEF IInv, TypeOK, UnsentIsUnknown, SingleInv, Fillable
<1>1. ASSUME NEW o \in Orders, NEW vol \in 1 .. MaxVolume, NEW watched \in BOOLEAN,
             SendOrder(o, vol, watched)
      PROVE  Goal
  <2>1. /\ created' = created \cup {o} /\ o \notin created
        /\ unanswered' = [unanswered EXCEPT ![o] = 1]
        /\ atExchange' = [atExchange EXCEPT ![o] = 1]
        /\ UNCHANGED <<acked, traded, filled, executed>>
    BY <1>1 DEF SendOrder, send_market_order
  <2> QED BY <1>0, <2>1
<1>2. ASSUME NEW o \in Orders, LeaveOrder(o) PROVE Goal
  BY <1>0, <1>2 DEF LeaveOrder, order_unsubscribed
<1>3. ASSUME NEW o \in Orders, ExecuteLot(o) PROVE Goal
  <2>1. /\ atExchange[o] > 0
        /\ atExchange' = [atExchange EXCEPT ![o] = @ - 1]
        /\ executed' = [executed EXCEPT ![o] = @ + 1]
        /\ UNCHANGED <<unanswered, acked, traded, filled, created>>
    BY <1>3 DEF ExecuteLot, omVars
  <2> QED BY <1>0, <2>1
<1>4. ASSUME NEW o \in Orders, Withdraw(o) PROVE Goal
  <2>1. /\ atExchange' = [atExchange EXCEPT ![o] = 0]
        /\ UNCHANGED <<unanswered, acked, traded, filled, created, executed>>
    BY <1>4 DEF Withdraw, omVars
  <2> QED BY <1>0, <2>1
<1>5. ASSUME NEW o \in Orders, NEW verdict \in Verdicts, DeliverResponse(o, verdict)
      PROVE  Goal
  <2>1. /\ unanswered[o] > 0 /\ unanswered' = [unanswered EXCEPT ![o] = @ - 1]
        /\ acked' \subseteq acked \cup {o}
        /\ UNCHANGED <<traded, filled, executed, atExchange, created>>
    BY <1>5 DEF DeliverResponse, on_order_response, ResponseCompletes
  <2>2. unanswered[o] = 1
    BY <1>0, <2>1
  <2> QED BY <1>0, <2>1, <2>2
<1>6. ASSUME NEW c \in Conditionals, NEW vol \in 1 .. MaxVolume, SendConditional(c, vol)
      PROVE  Goal
  BY <1>0, <1>6 DEF SendConditional, send_conditional
<1>7. ASSUME NEW c \in Conditionals,
             CancelConditional(c) \/ LeaveConditional(c) \/ DeliverUpdate(c)
      PROVE  Goal
  BY <1>0, <1>7 DEF CancelConditional, cancel_conditional, LeaveConditional,
     conditional_unsubscribed, DeliverUpdate, on_conditional_response
<1>8. ASSUME NEW c \in Conditionals, Trigger(c) \/ HandleCancel(c) PROVE Goal
  BY <1>0, <1>8 DEF Trigger, HandleCancel, omVars
<1>9. ASSUME NEW g \in Fillable, DeliverTrade(g) PROVE Goal
  <2>1. /\ inFlight[g] > 0 /\ TradeVolume(g) \in Nat \ {0}
        /\ UNCHANGED <<unanswered, executed, atExchange, created, acked>>
    BY <1>0, <1>9 DEF DeliverTrade, TradeVolume, on_trade, try_trade_market_order,
       object_on_trade, TradeCompletes, try_trade_conditional
  <2>2. \/ /\ filled' = [filled EXCEPT ![g] = @ + TradeVolume(g)]
           /\ traded' \subseteq traded \cup {g}
        \/ UNCHANGED <<filled, traded>>
    BY <1>9 DEF DeliverTrade, on_trade, try_trade_market_order, object_on_trade,
       TradeCompletes, try_trade_conditional
  <2> QED BY <1>0, <2>1, <2>2
<1>10. ASSUME UNCHANGED vars PROVE Goal
  BY <1>0, <1>10 DEF vars, omVars, envVars
<1> HIDE DEF Goal
<1>11. ASSUME Next PROVE Goal
  <2>1. ASSUME NEW o \in Orders,
               \/ \E vol \in 1 .. MaxVolume, watched \in BOOLEAN : SendOrder(o, vol, watched)
               \/ LeaveOrder(o) \/ ExecuteLot(o) \/ Withdraw(o)
               \/ \E verdict \in Verdicts : DeliverResponse(o, verdict)
        PROVE  Goal
    BY <2>1, <1>1, <1>2, <1>3, <1>4, <1>5
  <2>2. ASSUME NEW c \in Conditionals,
               \/ \E vol \in 1 .. MaxVolume : SendConditional(c, vol)
               \/ CancelConditional(c) \/ LeaveConditional(c) \/ Trigger(c)
               \/ HandleCancel(c) \/ DeliverUpdate(c)
        PROVE  Goal
    BY <2>2, <1>6, <1>7, <1>8
  <2> QED BY <1>9, <1>11, <2>1, <2>2 DEF Next
<1> QED BY <1>10, <1>11 DEF Goal

(* In such a state no event is left that an unabandoned order could be missing. *)
LEMMA StepNoFalseAlarm ==
  ASSUME Responses = 1, MaxVolume = 1, IInv, SingleInv, NoFalseAlarm, [Next]_vars
  PROVE  NoFalseAlarm'
<1> SUFFICES ASSUME NEW p \in Orders, p \notin abandoned'
             PROVE  unsolicited'[p] = 0 /\ p \notin strayResponses'
  BY DEF NoFalseAlarm
<1> DEFINE Silent == /\ abandoned \subseteq abandoned'
                     /\ unsolicited'[p] = unsolicited[p]
                     /\ p \in strayResponses' => p \in strayResponses
<1>0. /\ p \in Fillable /\ p \notin Conditionals
      /\ inFlight \in [Fillable -> Nat] /\ filled \in [Fillable -> Nat]
      /\ executed \in [Fillable -> Nat] /\ atExchange \in [Fillable -> Nat]
      /\ unsolicited \in [Fillable -> Nat]
      /\ executed[p] = inFlight[p] + filled[p] + unsolicited[p]
      /\ executed[p] + atExchange[p] \in 0 .. 1
  BY GuidsAreUnique DEF IInv, TypeOK, EveryExecutionAccounted, SingleInv, Fillable
<1>1. ASSUME NEW o \in Orders, NEW verdict \in Verdicts, DeliverResponse(o, verdict)
      PROVE  Silent
  <2>1. o \notin acked /\ o \in created /\ o \in Orders
    BY <1>1 DEF DeliverResponse, IInv, UnsentIsUnknown, SingleInv
  <2>2. o \in m_orders \cup abandoned
    BY <2>1 DEF IInv, ForgottenIsComplete
  <2>3. CASE o \in m_orders
    BY <1>1, <2>3 DEF DeliverResponse, on_order_response, ResponseCompletes
  <2>4. CASE o \in abandoned
    BY <1>1, <2>4 DEF DeliverResponse, on_order_response, ResponseCompletes
  <2> QED BY <2>2, <2>3, <2>4
<1>2. ASSUME NEW g \in Fillable, DeliverTrade(g) PROVE Silent
  <2>1. /\ inFlight[g] > 0 /\ UNCHANGED <<abandoned, strayResponses>>
        /\ \/ UNCHANGED unsolicited
           \/ /\ g \notin m_orders
              /\ unsolicited' = [unsolicited EXCEPT ![g] = @ + TradeVolume(g)]
    BY <1>2 DEF DeliverTrade, on_trade, try_trade_market_order, object_on_trade,
       TradeCompletes, try_trade_conditional
  <2>2. CASE g = p
    <3>1. p \notin traded /\ p \in created /\ p \notin abandoned
      BY <1>0, <2>1, <2>2 DEF IInv, UnsentIsUnknown, SingleInv
    <3>2. p \in m_orders
      BY <3>1 DEF IInv, ForgottenIsComplete
    <3> QED BY <2>1, <2>2, <3>2
  <2>3. CASE g # p
    BY <1>0, <2>1, <2>3
  <2> QED BY <2>2, <2>3
<1>3. ASSUME NEW o \in Orders,
             \/ \E vol \in 1 .. MaxVolume, watched \in BOOLEAN : SendOrder(o, vol, watched)
             \/ LeaveOrder(o) \/ ExecuteLot(o) \/ Withdraw(o)
      PROVE  Silent
  BY <1>3 DEF SendOrder, send_market_order, LeaveOrder, order_unsubscribed, ExecuteLot,
     Withdraw, omVars
<1>4. ASSUME NEW c \in Conditionals,
             \/ \E vol \in 1 .. MaxVolume : SendConditional(c, vol)
             \/ CancelConditional(c) \/ LeaveConditional(c) \/ Trigger(c)
             \/ HandleCancel(c)
      PROVE  Silent
  BY <1>4 DEF SendConditional, send_conditional, CancelConditional, cancel_conditional,
     LeaveConditional, conditional_unsubscribed, Trigger, HandleCancel, omVars
<1>5. ASSUME NEW c \in Conditionals, DeliverUpdate(c) PROVE Silent
  BY <1>0, <1>5 DEF DeliverUpdate, on_conditional_response
<1>6. ASSUME UNCHANGED vars PROVE Silent
  BY <1>6 DEF vars, omVars, envVars
<1> HIDE DEF Silent
<1>7. Silent
  BY <1>1, <1>2, <1>3, <1>4, <1>5, <1>6 DEF Next
<1> QED BY <1>7 DEF Silent, NoFalseAlarm

(* With the gateway of the tests and of the backtest (one response and one trade for
   each order, trading_engine/tests/OrderManagerTest.cpp) the order manager raises no
   "unsolicited" error about an order whose subscriber stays. *)
THEOREM SingleTradesRaiseNoAlarm ==
  ASSUME Responses = 1, MaxVolume = 1
  PROVE  Spec => []NoFalseAlarm
<1> DEFINE Inv == IInv /\ SingleInv /\ NoFalseAlarm
<1>1. Init => Inv
  <2>1. Init => NoFalseAlarm
    BY DEF Init, Init_OrderManager, NoFalseAlarm, Fillable
  <2> QED BY <2>1, InitIInv, InitSingle
<1>2. Inv /\ [Next]_vars => Inv'
  BY StepIInv, StepSingle, StepNoFalseAlarm
<1> QED BY <1>1, <1>2, PTL DEF Spec
-----------------------------------------------------------------------------
(* The order manager maps to the ledger: each step is one of the ledger's or changes
   nothing the ledger has. *)
LEMMA LedgerStep == IInv /\ [Next]_vars => [Ledger!Next]_(Ledger!ledgerVars)
<1> SUFFICES ASSUME IInv, [Next]_vars PROVE Ledger!Next \/ UNCHANGED Ledger!ledgerVars
  OBVIOUS
<1> DEFINE Maps == Ledger!Next \/ UNCHANGED Ledger!ledgerVars
<1>0. /\ TypeOK /\ EveryExecutionAccounted
      /\ Orders \subseteq Fillable /\ Conditionals \subseteq Fillable
      /\ m_orders \cap Conditionals = {} /\ m_conditionals \cap Orders = {}
      /\ atExchange \in [Fillable -> Nat]
  BY GuidsAreUnique DEF IInv, TypeOK, Fillable
<1>1. ASSUME NEW o \in Orders, NEW vol \in 1 .. MaxVolume, NEW watched \in BOOLEAN,
             SendOrder(o, vol, watched)
      PROVE  Maps
  <2>1. Ledger!Send(o, vol)
    BY <1>0, <1>1 DEF SendOrder, send_market_order, Ledger!Send
  <2> QED BY <1>0, <2>1 DEF Ledger!Next
<1>2. ASSUME NEW o \in Orders, LeaveOrder(o) PROVE Maps
  <2>1. Ledger!Forget(o)
    BY <1>0, <1>2 DEF LeaveOrder, order_unsubscribed, EraseOrder, Ledger!Forget
  <2> QED BY <1>0, <2>1 DEF Ledger!Next
<1>3. ASSUME NEW o \in Orders, ExecuteLot(o) PROVE Maps
  <2>1. 1 \in 1 .. atExchange[o] /\ Ledger!Execute(o, 1)
    BY <1>0, <1>3 DEF ExecuteLot, omVars, Ledger!Execute
  <2> QED BY <1>0, <2>1 DEF Ledger!Next
<1>4. ASSUME NEW o \in Orders, Withdraw(o) PROVE Maps
  <2>1. Ledger!Withdraw(o)
    BY <1>4 DEF Withdraw, omVars, Ledger!Withdraw
  <2> QED BY <1>0, <2>1 DEF Ledger!Next
<1>5. ASSUME NEW o \in Orders, NEW verdict \in Verdicts, DeliverResponse(o, verdict)
      PROVE  Maps
  <2>1. /\ UNCHANGED <<created, m_conditionals, atExchange, executed, filled, unsolicited>>
        /\ (o \in m_orders /\ m_orders' = m_orders \ {o}) \/ UNCHANGED m_orders
    BY <1>5 DEF DeliverResponse, on_order_response, ResponseCompletes, EraseOrder
  <2>2. CASE o \in m_orders /\ m_orders' = m_orders \ {o}
    <3>1. Ledger!Forget(o)
      BY <1>0, <2>1, <2>2 DEF Ledger!Forget
    <3> QED BY <1>0, <3>1 DEF Ledger!Next
  <2>3. CASE UNCHANGED m_orders
    BY <2>1, <2>3 DEF Ledger!ledgerVars
  <2> QED BY <2>1, <2>2, <2>3
<1>6. ASSUME NEW c \in Conditionals, NEW vol \in 1 .. MaxVolume, SendConditional(c, vol)
      PROVE  Maps
  <2>1. Ledger!Send(c, vol)
    BY <1>0, <1>6 DEF SendConditional, send_conditional, Ledger!Send
  <2> QED BY <1>0, <2>1 DEF Ledger!Next
<1>7. ASSUME NEW c \in Conditionals, CancelConditional(c) PROVE Maps
  BY <1>7 DEF CancelConditional, cancel_conditional, Ledger!ledgerVars
<1>8. ASSUME NEW c \in Conditionals, LeaveConditional(c) PROVE Maps
  <2>1. Ledger!Forget(c)
    BY <1>0, <1>8 DEF LeaveConditional, conditional_unsubscribed, Ledger!Forget
  <2> QED BY <1>0, <2>1 DEF Ledger!Next
<1>9. ASSUME NEW c \in Conditionals, Trigger(c) PROVE Maps
  <2>1. atExchange[c] \in 1 .. atExchange[c]
    BY <1>0, <1>9 DEF Trigger
  <2>2. Ledger!Execute(c, atExchange[c])
    <3>1. c \in DOMAIN atExchange /\ atExchange[c] - atExchange[c] = 0
      BY <1>0
    <3>2. atExchange' = [atExchange EXCEPT ![c] = @ - atExchange[c]]
      BY <1>9, <3>1 DEF Trigger
    <3> QED BY <1>9, <3>2 DEF Trigger, omVars, Ledger!Execute
  <2> QED BY <1>0, <2>1, <2>2 DEF Ledger!Next
<1>10. ASSUME NEW c \in Conditionals, HandleCancel(c) PROVE Maps
  <2>1. CASE atExchange[c] > 0
    <3>1. Ledger!Withdraw(c)
      BY <1>10, <2>1 DEF HandleCancel, omVars, Ledger!Withdraw
    <3> QED BY <1>0, <3>1 DEF Ledger!Next
  <2>2. CASE atExchange[c] = 0
    <3>1. atExchange' = atExchange
      BY <1>0, <1>10, <2>2 DEF HandleCancel
    <3> QED BY <1>10, <3>1 DEF HandleCancel, omVars, Ledger!ledgerVars
  <2> QED BY <1>0, <2>1, <2>2
<1>11. ASSUME NEW c \in Conditionals, DeliverUpdate(c) PROVE Maps
  BY <1>11 DEF DeliverUpdate, on_conditional_response, Ledger!ledgerVars
<1>12. ASSUME NEW g \in Fillable, DeliverTrade(g) PROVE Maps
  <2> DEFINE v == TradeVolume(g)
  <2>1. /\ UNCHANGED <<created, atExchange, executed>>
        /\ v \in 1 .. Ledger!Underway(g)
    <3>1. executed[g] - filled[g] - unsolicited[g] = inFlight[g]
      BY <1>0 DEF EveryExecutionAccounted, TypeOK
    <3>2. v \in 1 .. inFlight[g]
      BY <1>0, <1>12 DEF DeliverTrade, TradeVolume, TypeOK
    <3>3. UNCHANGED <<created, atExchange, executed>>
      BY <1>12 DEF DeliverTrade, on_trade, try_trade_market_order, try_trade_conditional
    <3> QED BY <3>1, <3>2, <3>3 DEF Ledger!Underway
  <2> HIDE DEF v
  <2>2. CASE try_trade_market_order(g, v)
    <3>1. Ledger!Fill(g, v)
      BY <1>0, <2>1, <2>2 DEF try_trade_market_order, object_on_trade, TradeCompletes,
         EraseOrder, Ledger!Fill
    <3> QED BY <2>1, <3>1 DEF Ledger!Next, Ledger!Settle
  <2>3. CASE try_trade_conditional(g, v)
    <3>1. Ledger!Fill(g, v)
      BY <1>0, <2>1, <2>3 DEF try_trade_conditional, object_on_trade, TypeOK, Ledger!Fill
    <3> QED BY <2>1, <3>1 DEF Ledger!Next, Ledger!Settle
  <2>4. CASE g \notin m_orders \cup m_conditionals
    <3>1. Ledger!Report(g, v)
      BY <1>12, <2>1, <2>4 DEF v, DeliverTrade, on_trade, try_trade_market_order,
         try_trade_conditional, Ledger!Report
    <3> QED BY <2>1, <3>1 DEF Ledger!Next, Ledger!Settle
  <2> QED BY <1>12, <2>2, <2>3, <2>4 DEF v, DeliverTrade, on_trade
<1>13. CASE UNCHANGED vars
  BY <1>13 DEF vars, omVars, envVars, Ledger!ledgerVars
<1> HIDE DEF Maps
<1>14. ASSUME Next PROVE Maps
  <2>1. ASSUME NEW o \in Orders,
               \/ \E vol \in 1 .. MaxVolume, watched \in BOOLEAN : SendOrder(o, vol, watched)
               \/ LeaveOrder(o) \/ ExecuteLot(o) \/ Withdraw(o)
               \/ \E verdict \in Verdicts : DeliverResponse(o, verdict)
        PROVE  Maps
    BY <2>1, <1>1, <1>2, <1>3, <1>4, <1>5
  <2>2. ASSUME NEW c \in Conditionals,
               \/ \E vol \in 1 .. MaxVolume : SendConditional(c, vol)
               \/ CancelConditional(c) \/ LeaveConditional(c) \/ Trigger(c)
               \/ HandleCancel(c) \/ DeliverUpdate(c)
        PROVE  Maps
    BY <2>2, <1>6, <1>7, <1>8, <1>9, <1>10, <1>11
  <2> QED BY <1>12, <1>14, <2>1, <2>2 DEF Next
<1> QED BY <1>13, <1>14 DEF Maps

(* The order manager in front of any gateway implements the ledger: an order is known
   from its sending until it is forgotten, once, and the lots the exchange executes are
   filled in an order that is known and reported for one that is not, never both. *)
THEOREM ImplementsLedger == Spec => Ledger!Spec
<1>1. Init => Ledger!Init
  BY DEF Init, Init_OrderManager, Ledger!Init, Ledger!Nothing, Fillable
<1>2. IInv /\ [Next]_vars => [Ledger!Next]_(Ledger!ledgerVars)
  BY LedgerStep
<1> QED BY <1>1, <1>2, InvariantHolds, PTL DEF Spec, Ledger!Spec
=============================================================================
