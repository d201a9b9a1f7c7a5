------------------------ MODULE StrategyInstanceProofs ------------------------
(***************************************************************************)
(* What a strategy instance believes, for every strategy, every sequence   *)
(* of prices and any number of stops: its position is the gateway's, a     *)
(* panic is not forgotten, the stop loss it shows is the one that will     *)
(* execute, and it enters the market only when it has nothing in it.       *)
(***************************************************************************)
EXTENDS StrategyInstance, QueueProofs, FiniteSetTheorems

-----------------------------------------------------------------------------
(* The gateway's events as entries of the queue *)
LEMMA EntriesOfNothing == Entries(<<>>) = <<>>
<1> DEFINE m == [i \in DOMAIN <<>> |-> Delivered(<<>>[i])]
<1>1. m = <<>>
  OBVIOUS
<1>2. Len(<<>>) = 0
  BY LiteralLists
<1> QED BY <1>1, <1>2 DEF Entries, FlattenSeq

Told(S) == S \cup {[event |-> "InstanceTrade", volume |-> e.volume, price |-> e.price] : e \in S}

LEMMA DeliveredIsList ==
  ASSUME NEW S, NEW e \in S
  PROVE  Delivered(e) \in Seq(Told(S))
<1>1. e \in Told(S)
  BY DEF Told
<1>2. [event |-> "InstanceTrade", volume |-> e.volume, price |-> e.price] \in Told(S)
  BY DEF Told
<1> QED BY <1>1, <1>2 DEF Delivered

LEMMA EntriesAppend ==
  ASSUME NEW S, NEW ev \in Seq(S), NEW e \in S
  PROVE  /\ Entries(ev) \in Seq(Told(S))
         /\ Entries(Append(ev, e)) = Entries(ev) \o Delivered(e)
<1> DEFINE V == Seq(Told(S))
           n == Len(ev)
           a == Append(ev, e)
           m == [i \in DOMAIN ev |-> Delivered(ev[i])]
           k == [i \in DOMAIN a |-> Delivered(a[i])]
           d == Delivered(e)
<1>1. n \in Nat /\ DOMAIN ev = 1 .. n /\ \A i \in 1 .. n : ev[i] \in S
  OBVIOUS
<1>2. /\ DOMAIN a = 1 .. n + 1 /\ a[n + 1] = e /\ \A i \in 1 .. n : a[i] = ev[i]
  <2>1. a \in Seq(S) /\ Len(a) = n + 1
    OBVIOUS
  <2> QED BY <2>1, AppendProperties
<1>3. \A i \in 1 .. n : Delivered(ev[i]) \in V
  BY <1>1, DeliveredIsList
<1>4. d \in V
  BY DeliveredIsList
<1> HIDE DEF V, d, a, n
<1>5. m \in Seq(V) /\ Len(m) = n
  BY <1>1, <1>3
<1>6. k = Append(m, d)
  <2>1. \A i \in 1 .. n + 1 : i \in 1 .. n \/ i = n + 1
    BY <1>1
  <2>2. \A i \in 1 .. n : i \in 1 .. n + 1 /\ k[i] = m[i]
    BY <1>1, <1>2
  <2>3. k[n + 1] = d
    BY <1>1, <1>2 DEF d
  <2>4. k \in Seq(V) /\ Len(k) = n + 1
    <3>1. \A i \in 1 .. n + 1 : k[i] \in V
      BY <1>3, <1>4, <2>1, <2>2, <2>3, <1>1
    <3> QED BY <1>1, <1>2, <3>1
  <2> DEFINE b == Append(m, d)
  <2>5. /\ b \in Seq(V) /\ Len(b) = n + 1 /\ b[n + 1] = d
        /\ \A i \in 1 .. n : b[i] = m[i]
    BY <1>4, <1>5, AppendProperties
  <2> HIDE DEF b, k, m
  <2>6. \A i \in 1 .. n + 1 : k[i] = b[i]
    BY <2>1, <2>2, <2>3, <2>5
  <2>7. k = b
    BY <2>4, <2>5, <2>6, SeqEqual
  <2> QED BY <2>7 DEF b
<1> HIDE DEF m, k
<1>7. FlattenSeq(m) \in V /\ FlattenSeq(Append(m, d)) = FlattenSeq(m) \o d
  BY <1>4, <1>5, FlattenAppend DEF V
<1> QED BY <1>6, <1>7 DEF Entries, m, k, a, d, V

LEMMA EntriesConcat ==
  ASSUME NEW ev, NEW ew, IsList(ev), IsList(ew)
  PROVE  /\ IsList(Entries(ev))
         /\ Entries(ev \o ew) = Entries(ev) \o Entries(ew)
<1>1. PICK S : ev \in Seq(S) /\ ew \in Seq(S)
  BY CommonSet
<1> DEFINE Splits(t) == IsList(Entries(t)) /\ Entries(ev \o t) = Entries(ev) \o Entries(t)
           T == {t \in Seq(S) : Splits(t)}
<1>2. ASSUME NEW t \in Seq(S) PROVE IsList(Entries(t))
  <2>1. CASE t = <<>>
    BY <2>1, EntriesOfNothing, LiteralLists
  <2>2. CASE t # <<>>
    <3>1. Head(t) \in S
      BY <2>2
    <3> QED BY <3>1, EntriesAppend DEF IsList
  <2> QED BY <2>1, <2>2
<1>3. <<>> \in T
  <2>1. ev \o <<>> = ev /\ Entries(ev) \o <<>> = Entries(ev) /\ <<>> \in Seq(S)
    BY <1>1, <1>2, LiteralLists
  <2> QED BY <1>2, <2>1, EntriesOfNothing
<1>4. ASSUME NEW t \in T, NEW e \in S PROVE Append(t, e) \in T
  <2> DEFINE d == Delivered(e)
  <2>1. t \in Seq(S) /\ Splits(t) /\ Append(t, e) \in Seq(S)
    OBVIOUS
  <2>2. /\ IsList(ev) /\ IsList(t) /\ IsList(<<e>>) /\ IsList(ev \o t) /\ IsList(d)
        /\ ev \o t \in Seq(S)
    <3>1. IsList(d)
      BY DeliveredIsList DEF IsList
    <3>2. ev \o t \in Seq(S)
      BY <1>1, <2>1, ConcatProperties
    <3> QED BY <1>1, <2>1, <3>1, <3>2, LiteralLists DEF IsList
  <2> HIDE DEF d, T
  <2>3. ev \o Append(t, e) = Append(ev \o t, e)
    <3>1. (ev \o t) \o <<e>> = ev \o (t \o <<e>>)
      BY <2>2, ListAssociative
    <3> QED BY <2>2, <3>1, ListAppend
  <2>4. Entries(Append(ev \o t, e)) = Entries(ev \o t) \o d
    BY <2>2, EntriesAppend DEF d
  <2>5. Entries(Append(t, e)) = Entries(t) \o d
    BY <2>1, EntriesAppend DEF d
  <2>6. (Entries(ev) \o Entries(t)) \o d = Entries(ev) \o (Entries(t) \o d)
    <3>1. IsList(Entries(ev)) /\ IsList(Entries(t))
      BY <1>1, <1>2, <2>1
    <3> DEFINE x == Entries(ev)
               y == Entries(t)
    <3>2. IsList(x) /\ IsList(y) /\ IsList(d)
      BY <2>2, <3>1
    <3> HIDE DEF x, y
    <3>3. (x \o y) \o d = x \o (y \o d)
      BY <3>2, ListAssociative
    <3> QED BY <3>3 DEF x, y
  <2>7. Splits(Append(t, e))
    BY <1>2, <2>1, <2>3, <2>4, <2>5, <2>6
  <2> QED BY <2>1, <2>7 DEF T
<1> HIDE DEF T, Splits
<1>5. T = Seq(S)
  BY <1>3, <1>4, InductionOnLists DEF T
<1> QED BY <1>1, <1>2, <1>5 DEF T, Splits

LEMMA EntriesOfOne == ASSUME NEW e PROVE Entries(<<e>>) = Delivered(e) /\ IsList(Delivered(e))
<1>1. <<>> \in Seq({e}) /\ Append(<<>>, e) = <<e>> /\ e \in {e}
  OBVIOUS
<1> DEFINE n == <<>>
           S == {e}
<1>2. n \in Seq(S) /\ Append(n, e) = <<e>> /\ e \in S /\ Entries(n) = n
  BY <1>1, EntriesOfNothing
<1> HIDE DEF n, S
<1>3. Entries(Append(n, e)) = Entries(n) \o Delivered(e) /\ IsList(Delivered(e))
  BY <1>2, EntriesAppend, DeliveredIsList DEF IsList
<1>4. n \o Delivered(e) = Delivered(e)
  BY <1>3, LiteralLists DEF n
<1> QED BY <1>2, <1>3, <1>4

LEMMA EntriesOfTrade ==
  ASSUME NEW g, NEW vol \in Int, NEW price
  PROVE  LET l == Entries(<<TradeEvent(g, vol, price)>>) IN
         /\ l = <<TradeEvent(g, vol, price),
                  [event |-> "InstanceTrade", volume |-> vol, price |-> price]>>
         /\ Whole(l) /\ LotsIn(l) = vol /\ Kinds(l, {"Trade", "InstanceTrade"})
<1> DEFINE e == TradeEvent(g, vol, price)
           t == [event |-> "InstanceTrade", volume |-> vol, price |-> price]
<1>1. Entries(<<e>>) = <<e, t>>
  <2>1. e.event = "Trade" /\ e.volume = vol /\ e.price = price
    BY DEF TradeEvent
  <2>2. Delivered(e) = <<e, t>>
    BY <2>1, Zenon DEF Delivered
  <2> HIDE DEF e, t
  <2> QED BY <2>2, EntriesOfOne
<1>2. <<e, t>> = <<e>> \o <<t>>
  BY LiteralLists
<1>3. e.event = "Trade" /\ LotsOf(e) = 0 /\ t.event = "InstanceTrade" /\ LotsOf(t) = vol
  BY DEF LotsOf, TradeEvent
<1> HIDE DEF e, t
<1>4. Whole(<<e>>) /\ LotsIn(<<e>>) = 0 /\ Whole(<<t>>) /\ LotsIn(<<t>>) = vol
  BY <1>3, LotsOfOne
<1>5. Whole(<<e>> \o <<t>>) /\ LotsIn(<<e>> \o <<t>>) = 0 + vol
  BY <1>4, LotsConcat
<1>6. Kinds(<<e>> \o <<t>>, {"Trade", "InstanceTrade"})
  <2>1. /\ IsList(<<e>>) /\ Kinds(<<e>>, {"Trade", "InstanceTrade"})
        /\ IsList(<<t>>) /\ Kinds(<<t>>, {"Trade", "InstanceTrade"})
    BY <1>3, KindsOfOne
  <2> DEFINE x == <<e>>
             y == <<t>>
  <2> HIDE DEF x, y
  <2>2. Kinds(x \o y, {"Trade", "InstanceTrade"})
    BY <2>1, KindsConcat DEF x, y
  <2> QED BY <2>2 DEF x, y
<1>7. /\ Entries(<<e>>) = <<e, t>> /\ Whole(<<e, t>>) /\ LotsIn(<<e, t>>) = vol
      /\ Kinds(<<e, t>>, {"Trade", "InstanceTrade"})
  <2> DEFINE l == <<e>> \o <<t>>
  <2>1. l = <<e, t>>
    BY <1>2
  <2>2. Whole(l) /\ LotsIn(l) = vol /\ Kinds(l, {"Trade", "InstanceTrade"})
    BY <1>5, <1>6
  <2> HIDE DEF l
  <2> QED BY <1>1, <2>1, <2>2
<1> QED BY <1>7, Zenon DEF e, t

LEMMA EntriesOfAnswer ==
  ASSUME NEW e, e.event # "Trade"
  PROVE  /\ Entries(<<e>>) = <<e>> /\ IsList(Entries(<<e>>))
         /\ Kinds(Entries(<<e>>), {e.event})
BY EntriesOfOne, KindsOfOne DEF Delivered

-----------------------------------------------------------------------------
(* The gateway without conditional orders, as a strategy instance uses it *)
Gateway(pos, price, tpsl, trailing, events) ==
  [m_pos_volume |-> pos, m_last_price |-> price, m_tpsl |-> tpsl,
   m_trailing_stop |-> trailing, m_stop_losses |-> <<>>, m_take_profits |-> <<>>,
   events |-> events]

IsTrailingStop(t) ==
  t = [guid |-> t.guid, side |-> t.side, distance |-> t.distance, stop |-> t.stop]

IsGateway(gw) ==
  /\ gw = Gateway(gw.m_pos_volume, gw.m_last_price, gw.m_tpsl, gw.m_trailing_stop, gw.events)
  /\ gw.m_pos_volume \in Int
  /\ gw.m_trailing_stop # None => IsTrailingStop(gw.m_trailing_stop)

LEMMA PushedAtGateway ==
  ASSUME NEW pos, NEW price, NEW tpsl, NEW trailing, NEW ev, NEW l
  PROVE  Pushed(Gateway(pos, price, tpsl, trailing, ev), l)
           = Gateway(pos, price, tpsl, trailing, ev \o l)
<1> DEFINE gw == Gateway(pos, price, tpsl, trailing, ev)
           c == ev \o l
<1>1. gw.events = ev
  BY DEF Gateway
<1>2. Pushed(gw, l) = [gw EXCEPT !.events = c]
  <2> HIDE DEF gw
  <2> QED BY <1>1, Zenon DEF Pushed
<1> HIDE DEF c
<1>3. [gw EXCEPT !.events = c] = Gateway(pos, price, tpsl, trailing, c)
  BY DEF Gateway
<1> QED BY <1>2, <1>3 DEF c

LEMMA PushedAtRest ==
  ASSUME NEW pos, NEW price, NEW tpsl, NEW trailing, NEW l, IsList(l)
  PROVE  Pushed(Gateway(pos, price, tpsl, trailing, <<>>), l)
           = Gateway(pos, price, tpsl, trailing, l)
<1> DEFINE n == <<>>
<1>1. n \o l = l
  BY LiteralLists
<1> HIDE DEF n
<1>2. Pushed(Gateway(pos, price, tpsl, trailing, n), l)
        = Gateway(pos, price, tpsl, trailing, n \o l)
  BY PushedAtGateway
<1> QED BY <1>1, <1>2 DEF n

IsExecution(f, gw, q) ==
  f = [i \in 0 .. Len(q) |->
         IF i = 0 THEN gw
         ELSE LET o == q[i]
              IN [Pushed(f[i - 1],
                         <<TradeEvent(o.guid, o.volume * o.side, o.trigger),
                           ConditionalUpdatedEvent(o.guid, FALSE)>>)
                  EXCEPT !.m_pos_volume = @ + o.volume * o.side]]

LEMMA NothingExecuted ==
  ASSUME NEW g
  PROVE  Execute(g, <<>>) = g
<1> DEFINE n == <<>>
<1>1. Len(n) = 0
  OBVIOUS
<1> HIDE DEF n
<1> DEFINE f == CHOOSE f : IsExecution(f, g, n)
<1>2. IsExecution(f, g, n)
  <2>1. IsExecution([i \in 0 .. 0 |-> g], g, n)
    BY <1>1 DEF IsExecution
  <2> QED BY <2>1
<1>3. Execute(g, n) = f[Len(n)]
  BY DEF Execute, IsExecution
<1> HIDE DEF f
<1>4. f[0] = g
  BY <1>1, <1>2 DEF IsExecution
<1> QED BY <1>1, <1>3, <1>4 DEF n

IsScan(f, q, reached) ==
  f = [i \in 0 .. Len(q) |->
         IF i = 0 THEN [kept |-> q, fired |-> <<>>, again |-> TRUE]
         ELSE IF ~f[i - 1].again THEN f[i - 1]
         ELSE LET walk == Walk(f[i - 1].kept, reached)
              IN [kept |-> walk.kept, fired |-> f[i - 1].fired \o walk.fired,
                  again |-> walk.skip]]

LEMMA NothingScanned ==
  ASSUME NEW reached
  PROVE  Scan(<<>>, reached) = [kept |-> <<>>, fired |-> <<>>, again |-> TRUE]
<1> DEFINE n == <<>>
           s == [kept |-> n, fired |-> <<>>, again |-> TRUE]
<1>1. Len(n) = 0
  OBVIOUS
<1> HIDE DEF n
<1> DEFINE f == CHOOSE f : IsScan(f, n, reached)
<1>2. IsScan(f, n, reached)
  <2>1. IsScan([i \in 0 .. 0 |-> s], n, reached)
    BY <1>1 DEF IsScan
  <2> QED BY <2>1
<1>3. Scan(n, reached) = f[Len(n)]
  BY DEF Scan, IsScan
<1> HIDE DEF f
<1>4. f[0] = s
  BY <1>1, <1>2 DEF IsScan
<1> QED BY <1>1, <1>3, <1>4 DEF n

LEMMA NoConditionals ==
  ASSUME NEW pos, NEW price, NEW tpsl, NEW trailing, NEW events
  PROVE  LET gw == Gateway(pos, price, tpsl, trailing, events)
         IN try_trigger_conditionals(gw) = gw
<1> DEFINE gw == Gateway(pos, price, tpsl, trailing, events)
<1>1. \A g : Execute(g, <<>>) = g
  BY NothingExecuted
<1>2. \A r : Scan(<<>>, r) = [kept |-> <<>>, fired |-> <<>>, again |-> TRUE]
  BY NothingScanned
<1>3. <<>> \o <<>> = <<>>
  BY LiteralLists
<1>4. gw.m_stop_losses = <<>> /\ gw.m_take_profits = <<>>
  BY DEF Gateway
<1>5. [gw EXCEPT !.m_stop_losses = <<>>, !.m_take_profits = <<>>] = gw
  <2> DEFINE e == <<>>
  <2>1. gw = [m_pos_volume |-> pos, m_last_price |-> price, m_tpsl |-> tpsl,
              m_trailing_stop |-> trailing, m_stop_losses |-> e, m_take_profits |-> e,
              events |-> events]
    BY DEF Gateway
  <2> HIDE DEF e, gw
  <2>2. [gw EXCEPT !.m_stop_losses = e] = gw /\ [gw EXCEPT !.m_take_profits = e] = gw
    BY <2>1
  <2>3. [gw EXCEPT !.m_stop_losses = e, !.m_take_profits = e]
          = [[gw EXCEPT !.m_stop_losses = e] EXCEPT !.m_take_profits = e]
    OBVIOUS
  <2> QED BY <2>2, <2>3 DEF e
<1> DEFINE s == Scan(gw.m_stop_losses,
                 {o \in ToSet(gw.m_stop_losses) : StopLossReached(o, gw.m_last_price)})
           t == Scan(gw.m_take_profits,
                 {o \in ToSet(gw.m_take_profits) : TakeProfitReached(o, gw.m_last_price)})
<1>6. s.kept = <<>> /\ s.fired = <<>> /\ t.kept = <<>> /\ t.fired = <<>>
  <2> HIDE DEF gw
  <2> QED BY <1>2, <1>4
<1>7. try_trigger_conditionals(gw) =
        Execute([gw EXCEPT !.m_stop_losses = s.kept, !.m_take_profits = t.kept],
                s.fired \o t.fired)
  BY DEF try_trigger_conditionals
<1> HIDE DEF gw, s, t
<1>8. try_trigger_conditionals(gw) = gw
  BY <1>1, <1>3, <1>5, <1>6, <1>7
<1> QED BY <1>8 DEF gw

(* What a price does at the gateway: the events a of the TP/SL, then b of the trailing
   stop. *)
TpslPart(position, oldTpsl, a, pos, tpsl) ==
  \/ a = <<>> /\ pos = position /\ tpsl = oldTpsl
  \/ /\ oldTpsl # None /\ pos = 0 /\ tpsl = None
     /\ \E p : a = <<TpslUpdatedEvent(oldTpsl.guid, FALSE, TRUE, FALSE),
                    TradeEvent(oldTpsl.guid, -position, p)>>

TrailingPart(position, t, b, pos, trailing) ==
  \/ b = <<>> /\ pos = position /\ trailing = t
  \/ /\ t # None /\ pos = position
     /\ \E new : b = <<TrailingUpdatedEvent({new})>> /\ trailing = [t EXCEPT !.stop = new]
  \/ /\ t # None /\ pos = 0 /\ trailing = None
     /\ b = <<TradeEvent(t.guid, -position, t.stop), TrailingUpdatedEvent({})>>

LEMMA TpslAtGateway ==
  ASSUME NEW pos0 \in Int, NEW price, NEW tpsl0, NEW trailing
  PROVE  \E a, tpsl : \E pos \in Int :
           /\ TpslPart(pos0, tpsl0, a, pos, tpsl)
           /\ try_trade_tpsl(Gateway(pos0, price, tpsl0, trailing, <<>>))
                = Gateway(pos, price, tpsl, trailing, a)
<1> DEFINE gw == Gateway(pos0, price, tpsl0, trailing, <<>>)
<1>1. /\ gw.events = <<>> /\ gw.m_pos_volume = pos0 /\ gw.m_tpsl = tpsl0
  BY DEF Gateway
<1>2. CASE try_trade_tpsl(gw) = gw
  <2>1. TpslPart(pos0, tpsl0, <<>>, pos0, tpsl0)
    BY DEF TpslPart
  <2> QED BY <1>2, <2>1
<1>3. CASE try_trade_tpsl(gw) # gw
  <2> DEFINE l(p) == <<TpslUpdatedEvent(tpsl0.guid, FALSE, TRUE, FALSE),
                       TradeEvent(tpsl0.guid, -pos0, p)>>
  <2>1. \E p : tpsl0 # None /\ try_trade_tpsl(gw) = ClosedByTpsl(Pushed(gw, l(p)))
    <3> HIDE DEF gw
    <3> QED BY <1>1, <1>3, Zenon DEF try_trade_tpsl
  <2>2. PICK p : tpsl0 # None /\ try_trade_tpsl(gw) = ClosedByTpsl(Pushed(gw, l(p)))
    BY <2>1
  <2> DEFINE a == l(p)
  <2>3. <<>> \o a = a
    OBVIOUS
  <2>4. TpslPart(pos0, tpsl0, a, 0, None)
    BY <2>2 DEF TpslPart
  <2> HIDE DEF a
  <2>5. ClosedByTpsl(Pushed(gw, a)) = Gateway(0, price, None, trailing, a)
    <3> DEFINE g == [gw EXCEPT !.events = a]
    <3>1. Pushed(gw, a) = g
      BY <1>1, <2>3, Zenon DEF Pushed
    <3>2. g = Gateway(pos0, price, tpsl0, trailing, a)
      BY DEF Gateway
    <3> HIDE DEF g, gw
    <3>3. [g EXCEPT !.m_pos_volume = 0] = Gateway(0, price, tpsl0, trailing, a)
      BY <3>2 DEF Gateway
    <3> DEFINE h == [g EXCEPT !.m_pos_volume = 0]
    <3>4. [g EXCEPT !.m_pos_volume = 0, !.m_tpsl = None] = [h EXCEPT !.m_tpsl = None]
      OBVIOUS
    <3> HIDE DEF h
    <3>5. [h EXCEPT !.m_tpsl = None] = Gateway(0, price, None, trailing, a)
      <4>1. h = Gateway(0, price, tpsl0, trailing, a)
        BY <3>3 DEF h
      <4> QED BY <4>1 DEF Gateway
    <3> QED BY <3>1, <3>4, <3>5 DEF ClosedByTpsl
  <2>6. try_trade_tpsl(gw) = Gateway(0, price, None, trailing, a)
    BY <2>2, <2>5 DEF a
  <2> QED BY <2>4, <2>6
<1> QED BY <1>2, <1>3

(* What the trailing stop's check leaves of a gateway: its position, the stop and the
   events that it adds to a *)
TrailingOutcome(pos0, price, tpsl, t, a) ==
  \E b, trailing : \E pos \in Int :
    /\ TrailingPart(pos0, t, b, pos, trailing)
    /\ trailing # None => IsTrailingStop(trailing)
    /\ try_trade_trailing_stop(Gateway(pos0, price, tpsl, t, a))
         = Gateway(pos, price, tpsl, trailing, a \o b)

LEMMA TrailingAtGateway ==
  ASSUME NEW pos0 \in Int, NEW price, NEW tpsl, NEW t, NEW a, IsList(a),
         t # None => IsTrailingStop(t)
  PROVE  TrailingOutcome(pos0, price, tpsl, t, a)
<1> SUFFICES \E b, trailing : \E pos \in Int :
           /\ TrailingPart(pos0, t, b, pos, trailing)
           /\ trailing # None => IsTrailingStop(trailing)
           /\ try_trade_trailing_stop(Gateway(pos0, price, tpsl, t, a))
                = Gateway(pos, price, tpsl, trailing, a \o b)
  BY Zenon DEF TrailingOutcome
<1> DEFINE gw == Gateway(pos0, price, tpsl, t, a)
           next == try_trade_trailing_stop(gw)
           Goal == \E b, trailing : \E pos \in Int :
                     /\ TrailingPart(pos0, t, b, pos, trailing)
                     /\ trailing # None => IsTrailingStop(trailing)
                     /\ next = Gateway(pos, price, tpsl, trailing, a \o b)
           Pulls(new) == next = [Pushed(gw, <<TrailingUpdatedEvent({new})>>)
                                 EXCEPT !.m_trailing_stop.stop = new]
           Out == <<TradeEvent(t.guid, -pos0, t.stop), TrailingUpdatedEvent({})>>
<1>1. gw.m_pos_volume = pos0 /\ gw.m_trailing_stop = t
  BY DEF Gateway
<1>2. CASE next = gw
  <2>1. TrailingPart(pos0, t, <<>>, pos0, t) /\ a \o <<>> = a
    BY LiteralLists DEF TrailingPart
  <2> QED BY <1>2, <2>1
<1>3. ASSUME next # gw
      PROVE  /\ t # None
             /\ \/ \E new : Pulls(new)
                \/ next = [Pushed(gw, Out) EXCEPT !.m_pos_volume = 0, !.m_trailing_stop = None]
  <2> HIDE DEF gw
  <2> QED BY <1>1, <1>3, Zenon DEF try_trade_trailing_stop
<1>4. ASSUME NEW new, t # None, Pulls(new)
      PROVE  Goal
  <2> DEFINE b == <<TrailingUpdatedEvent({new})>>
             u == [t EXCEPT !.stop = new]
  <2>1. TrailingPart(pos0, t, b, pos0, u)
    BY <1>4 DEF TrailingPart
  <2> HIDE DEF b
  <2>2. [Pushed(gw, b) EXCEPT !.m_trailing_stop.stop = new]
          = Gateway(pos0, price, tpsl, u, a \o b)
    <3> DEFINE c == a \o b
               g == Pushed(gw, b)
    <3>1. g = Gateway(pos0, price, tpsl, t, c)
      BY PushedAtGateway
    <3> HIDE DEF c, g
    <3>2. [g EXCEPT !.m_trailing_stop = u] = Gateway(pos0, price, tpsl, u, c)
      BY <3>1 DEF Gateway
    <3>3. g.m_trailing_stop = t
      BY <3>1 DEF Gateway
    <3>4. [g EXCEPT !.m_trailing_stop.stop = new] = [g EXCEPT !.m_trailing_stop = u]
      BY <3>3
    <3> QED BY <3>2, <3>4 DEF c, g
  <2>3. IsTrailingStop(u)
    <3>1. t = [guid |-> t.guid, side |-> t.side, distance |-> t.distance, stop |-> t.stop]
      BY <1>4 DEF IsTrailingStop
    <3>2. u = [guid |-> t.guid, side |-> t.side, distance |-> t.distance, stop |-> new]
      BY <3>1
    <3> HIDE DEF u
    <3> QED BY <3>2 DEF IsTrailingStop
  <2>4. next = Gateway(pos0, price, tpsl, u, a \o b)
    BY <1>4, <2>2 DEF b
  <2> QED BY <2>1, <2>3, <2>4
<1>5. ASSUME t # None,
             next = [Pushed(gw, Out) EXCEPT !.m_pos_volume = 0, !.m_trailing_stop = None]
      PROVE  Goal
  <2>1. TrailingPart(pos0, t, Out, 0, None)
    BY <1>5 DEF TrailingPart
  <2> HIDE DEF Out, next
  <2>2. next = Gateway(0, price, tpsl, None, a \o Out)
    <3> DEFINE c == a \o Out
               g == Pushed(gw, Out)
               h == [g EXCEPT !.m_pos_volume = 0]
    <3>1. g = Gateway(pos0, price, tpsl, t, c)
      BY PushedAtGateway
    <3> HIDE DEF c, g, gw
    <3>2. h = Gateway(0, price, tpsl, t, c)
      BY <3>1 DEF Gateway
    <3>3. next = [h EXCEPT !.m_trailing_stop = None]
      BY <1>5 DEF g
    <3> HIDE DEF h
    <3>4. [h EXCEPT !.m_trailing_stop = None] = Gateway(0, price, tpsl, None, c)
      BY <3>2 DEF Gateway
    <3> QED BY <3>3, <3>4 DEF c
  <2> QED BY <2>1, <2>2
<1>6. ASSUME next # gw PROVE Goal
  <2>1. t # None
    BY <1>3, <1>6
  <2>2. ASSUME \E new : Pulls(new) PROVE Goal
    <3> HIDE DEF Pulls, Goal
    <3> QED BY <1>4, <2>1, <2>2
  <2>3. ASSUME next = [Pushed(gw, Out) EXCEPT !.m_pos_volume = 0, !.m_trailing_stop = None]
        PROVE  Goal
    BY <1>5, <2>1, <2>3
  <2> HIDE DEF next, gw, Goal, Out, Pulls
  <2> QED BY <1>3, <1>6, <2>2, <2>3
<1> QED BY <1>2, <1>6

PriceOutcome(gw, a, b, last, tpsl, trailing) ==
  \E pos \in Int : /\ TpslPart(gw.m_pos_volume, gw.m_tpsl, a, pos, tpsl)
                  /\ TrailingPart(pos, gw.m_trailing_stop, b, last, trailing)

LEMMA PriceAtGateway ==
  ASSUME NEW gw, NEW price, IsGateway(gw), gw.events = <<>>
  PROVE  \E a, b, tpsl, trailing : \E last \in Int :
           /\ PriceOutcome(gw, a, b, last, tpsl, trailing)
           /\ on_new_price(gw, price) = Gateway(last, price, tpsl, trailing, a \o b)
           /\ IsGateway(on_new_price(gw, price))
<1> DEFINE pos0 == gw.m_pos_volume
           tpsl0 == gw.m_tpsl
           t == gw.m_trailing_stop
           g0 == [gw EXCEPT !.m_last_price = price]
<1>1. g0 = Gateway(pos0, price, tpsl0, t, <<>>) /\ pos0 \in Int
  BY DEF IsGateway, Gateway
<1> HIDE DEF g0
<1>2. PICK a, tpsl : \E pos \in Int :
           /\ TpslPart(pos0, tpsl0, a, pos, tpsl)
           /\ try_trade_tpsl(g0) = Gateway(pos, price, tpsl, t, a)
  BY <1>1, TpslAtGateway
<1>3. PICK pos \in Int :
           /\ TpslPart(pos0, tpsl0, a, pos, tpsl)
           /\ try_trade_tpsl(g0) = Gateway(pos, price, tpsl, t, a)
  BY <1>2
<1>4. IsList(a)
  <2>1. \A x, y : IsList(<<x, y>>)
    <3> TAKE x, y
    <3>1. <<x, y>> \in Seq({x, y})
      OBVIOUS
    <3> QED BY <3>1, Zenon DEF IsList
  <2>2. IsList(<<>>)
    BY LiteralLists
  <2> QED BY <1>3, <2>1, <2>2, Zenon DEF TpslPart
<1>5. PICK b, trailing : \E last \in Int :
           /\ TrailingPart(pos, t, b, last, trailing)
           /\ trailing # None => IsTrailingStop(trailing)
           /\ try_trade_trailing_stop(Gateway(pos, price, tpsl, t, a))
                = Gateway(last, price, tpsl, trailing, a \o b)
  <2>1. t # None => IsTrailingStop(t)
    BY DEF IsGateway
  <2> HIDE DEF t
  <2>2. TrailingOutcome(pos, price, tpsl, t, a)
    BY <1>4, <2>1, TrailingAtGateway
  <2> QED BY <2>2, Zenon DEF TrailingOutcome
<1>6. PICK last \in Int :
           /\ TrailingPart(pos, t, b, last, trailing)
           /\ trailing # None => IsTrailingStop(trailing)
           /\ try_trade_trailing_stop(Gateway(pos, price, tpsl, t, a))
                = Gateway(last, price, tpsl, trailing, a \o b)
  BY <1>5
<1> DEFINE g == Gateway(last, price, tpsl, trailing, a \o b)
<1>7. on_new_price(gw, price) = g
  BY <1>3, <1>6, NoConditionals, Zenon DEF on_new_price, g0
<1>8. IsGateway(g)
  BY <1>6 DEF IsGateway, Gateway
<1>9. PriceOutcome(gw, a, b, last, tpsl, trailing)
  BY <1>3, <1>6 DEF PriceOutcome
<1> HIDE DEF g
<1>10. IsGateway(on_new_price(gw, price))
  BY <1>7, <1>8
<1> QED BY <1>7, <1>9, <1>10 DEF g

LEMMA GatewayRests ==
  ASSUME NEW pos \in Int, NEW price, NEW tpsl, NEW t, NEW ev, t # None => IsTrailingStop(t)
  PROVE  LET g == Gateway(pos, price, tpsl, t, ev) IN
         /\ g.events = ev /\ g.m_pos_volume = pos /\ g.m_tpsl = tpsl
         /\ g.m_last_price = price /\ g.m_trailing_stop = t
         /\ [g EXCEPT !.events = <<>>] = Gateway(pos, price, tpsl, t, <<>>)
         /\ IsGateway(g)
<1> DEFINE g == Gateway(pos, price, tpsl, t, ev)
           n == <<>>
<1>1. /\ g.events = ev /\ g.m_pos_volume = pos /\ g.m_tpsl = tpsl
      /\ g.m_last_price = price /\ g.m_trailing_stop = t
  BY DEF Gateway
<1>2. g = Gateway(g.m_pos_volume, g.m_last_price, g.m_tpsl, g.m_trailing_stop, g.events)
  BY <1>1
<1>3. IsGateway(g)
  <2> HIDE DEF g
  <2> QED BY <1>1, <1>2 DEF IsGateway
<1> HIDE DEF n
<1>4. [g EXCEPT !.events = n] = Gateway(pos, price, tpsl, t, n)
  BY DEF Gateway
<1> QED BY <1>1, <1>3, <1>4 DEF n

LEMMA OrderAtGateway ==
  ASSUME NEW gw, IsGateway(gw), gw.events = <<>>, NEW g, NEW vol \in Int
  PROVE  \E r :
    /\ r = IF gw.m_pos_volume + vol = 0 /\ gw.m_tpsl # None
           THEN <<TpslUpdatedEvent(gw.m_tpsl.guid, FALSE, FALSE, FALSE)>> ELSE <<>>
    /\ push_order_request(gw, g, vol) =
         Gateway(gw.m_pos_volume + vol, gw.m_last_price, gw.m_tpsl, gw.m_trailing_stop,
                 <<OrderResponseEvent(g)>> \o r \o <<TradeEvent(g, vol, gw.m_last_price)>>)
<1> DEFINE pos == gw.m_pos_volume
           price == gw.m_last_price
           tpsl == gw.m_tpsl
           t == gw.m_trailing_stop
           last == pos + vol
           r == IF last = 0 /\ tpsl # None
                THEN <<TpslUpdatedEvent(tpsl.guid, FALSE, FALSE, FALSE)>> ELSE <<>>
           l == <<OrderResponseEvent(g)>> \o r \o <<TradeEvent(g, vol, price)>>
<1>1. gw = Gateway(pos, price, tpsl, t, <<>>)
  BY DEF IsGateway
<1>2. push_order_request(gw, g, vol) = [Pushed(gw, l) EXCEPT !.m_pos_volume = last]
  BY DEF push_order_request
<1>3. IsList(l)
  <2> DEFINE x == <<OrderResponseEvent(g)>>
             z == <<TradeEvent(g, vol, price)>>
  <2>1. IsList(x) /\ IsList(r) /\ IsList(z)
    BY LiteralLists
  <2> HIDE DEF x, z, r
  <2>2. IsList((x \o r) \o z)
    BY <2>1, ListConcat
  <2> QED BY <2>2 DEF x, z
<1> HIDE DEF l, pos, price, tpsl, t, last
<1>4. Pushed(gw, l) = Gateway(pos, price, tpsl, t, l)
  BY <1>1, <1>3, PushedAtRest
<1>5. [Gateway(pos, price, tpsl, t, l) EXCEPT !.m_pos_volume = last]
        = Gateway(last, price, tpsl, t, l)
  BY DEF Gateway
<1>6. push_order_request(gw, g, vol) = Gateway(last, price, tpsl, t, l)
  BY <1>2, <1>4, <1>5
<1> QED BY <1>6 DEF l, pos, price, tpsl, t, last

LEMMA TpslRequestAtGateway ==
  ASSUME NEW gw, IsGateway(gw), gw.events = <<>>, NEW tpsl
  PROVE  push_tpsl_request(gw, tpsl) =
           IF gw.m_pos_volume = 0
           THEN Gateway(0, gw.m_last_price, gw.m_tpsl, gw.m_trailing_stop,
                        <<TpslUpdatedEvent(tpsl.guid, TRUE, FALSE, TRUE)>>)
           ELSE Gateway(gw.m_pos_volume, gw.m_last_price, tpsl, gw.m_trailing_stop,
                        <<TpslUpdatedEvent(tpsl.guid, TRUE, FALSE, FALSE)>>)
<1> DEFINE pos == gw.m_pos_volume
           price == gw.m_last_price
           old == gw.m_tpsl
           t == gw.m_trailing_stop
           l(reject) == <<TpslUpdatedEvent(tpsl.guid, TRUE, FALSE, reject)>>
<1>1. gw = Gateway(pos, price, old, t, <<>>)
  BY DEF IsGateway
<1>2. push_tpsl_request(gw, tpsl) =
        IF pos = 0 THEN Pushed(gw, l(TRUE)) ELSE [Pushed(gw, l(FALSE)) EXCEPT !.m_tpsl = tpsl]
  BY DEF push_tpsl_request
<1> DEFINE bad == l(TRUE)
           good == l(FALSE)
<1>3. IsList(bad) /\ IsList(good)
  BY LiteralLists
<1> HIDE DEF l, bad, good, pos, price, old, t
<1>4. /\ Pushed(gw, bad) = Gateway(pos, price, old, t, bad)
      /\ Pushed(gw, good) = Gateway(pos, price, old, t, good)
  BY <1>1, <1>3, PushedAtRest
<1>5. [Gateway(pos, price, old, t, good) EXCEPT !.m_tpsl = tpsl]
        = Gateway(pos, price, tpsl, t, good)
  BY DEF Gateway
<1>6. push_tpsl_request(gw, tpsl) = IF pos = 0 THEN Gateway(0, price, old, t, bad)
                                    ELSE Gateway(pos, price, tpsl, t, good)
  BY <1>2, <1>4, <1>5 DEF bad, good
<1> QED BY <1>6 DEF l, bad, good, pos, price, old, t

LEMMA TrailingRequestAtGateway ==
  ASSUME NEW gw, IsGateway(gw), gw.events = <<>>, NEW g, NEW side, NEW distance
  PROVE  LET stop == StopPrice(side, distance, gw.m_last_price)
             t    == [guid |-> g, side |-> side, distance |-> distance, stop |-> stop]
         IN /\ IsTrailingStop(t)
            /\ push_trailing_stop_request(gw, g, side, distance) =
                 Gateway(gw.m_pos_volume, gw.m_last_price, gw.m_tpsl, t,
                         <<TrailingUpdatedEvent({stop})>>)
<1> DEFINE pos == gw.m_pos_volume
           price == gw.m_last_price
           tpsl == gw.m_tpsl
           old == gw.m_trailing_stop
           stop == StopPrice(side, distance, price)
           t == [guid |-> g, side |-> side, distance |-> distance, stop |-> stop]
           l == <<TrailingUpdatedEvent({stop})>>
<1>1. gw = Gateway(pos, price, tpsl, old, <<>>)
  BY DEF IsGateway
<1>2. push_trailing_stop_request(gw, g, side, distance)
        = [Pushed(gw, l) EXCEPT !.m_trailing_stop = t]
  BY DEF push_trailing_stop_request
<1>3. IsList(l)
  BY LiteralLists
<1>4. IsTrailingStop(t)
  BY DEF IsTrailingStop
<1> HIDE DEF l, pos, price, tpsl, old, t
<1>5. Pushed(gw, l) = Gateway(pos, price, tpsl, old, l)
  BY <1>1, <1>3, PushedAtRest
<1>6. [Gateway(pos, price, tpsl, old, l) EXCEPT !.m_trailing_stop = t]
        = Gateway(pos, price, tpsl, t, l)
  BY DEF Gateway
<1>7. push_trailing_stop_request(gw, g, side, distance) = Gateway(pos, price, tpsl, t, l)
  BY <1>2, <1>5, <1>6
<1> QED BY <1>4, <1>7 DEF l, pos, price, tpsl, t

-----------------------------------------------------------------------------
(* What the gateway's answers become in the queue *)
GatewayKinds == {"OrderResponse", "Trade", "InstanceTrade", "TpslUpdated", "TrailingUpdated"}

(* A list of entries from the gateway that moves the position by vol *)
Moves(l, vol) == Whole(l) /\ LotsIn(l) = vol /\ Kinds(l, GatewayKinds)

LEMMA MovesConcat ==
  ASSUME NEW l, NEW k, NEW v, NEW w, Moves(l, v), Moves(k, w)
  PROVE  Moves(l \o k, v + w)
<1>1. Whole(l) /\ Whole(k) /\ IsList(l) /\ IsList(k)
  BY DEF Moves, Whole
<1>2. Whole(l \o k) /\ LotsIn(l \o k) = LotsIn(l) + LotsIn(k)
  BY <1>1, LotsConcat
<1>3. Kinds(l \o k, GatewayKinds)
  BY <1>1, KindsConcat DEF Moves
<1> QED BY <1>2, <1>3 DEF Moves

LEMMA AnswerMoves ==
  ASSUME NEW e, e.event \in GatewayKinds \ {"Trade", "InstanceTrade"}
  PROVE  Entries(<<e>>) = <<e>> /\ Moves(<<e>>, 0)
<1>1. Entries(<<e>>) = <<e>>
  BY EntriesOfAnswer
<1>2. Kinds(<<e>>, {e.event}) /\ Kinds(<<e>>, GatewayKinds) /\ IsList(<<e>>)
  BY KindsOfOne
<1>3. Whole(<<e>>) /\ LotsIn(<<e>>) = 0
  <2> DEFINE K == {e.event}
             l == <<e>>
  <2>1. "InstanceTrade" \notin K /\ Kinds(l, K) /\ IsList(l)
    BY <1>2
  <2> HIDE DEF K, l
  <2>2. Whole(l) /\ LotsIn(l) = 0
    BY <2>1, LotsOfOthers
  <2> QED BY <2>2 DEF l
<1> QED BY <1>1, <1>2, <1>3 DEF Moves

LEMMA TradeMoves ==
  ASSUME NEW g, NEW vol \in Int, NEW price
  PROVE  LET l == <<TradeEvent(g, vol, price),
                    [event |-> "InstanceTrade", volume |-> vol, price |-> price]>>
         IN  Entries(<<TradeEvent(g, vol, price)>>) = l /\ Moves(l, vol)
<1> DEFINE e == Entries(<<TradeEvent(g, vol, price)>>)
           l == <<TradeEvent(g, vol, price),
                  [event |-> "InstanceTrade", volume |-> vol, price |-> price]>>
<1>1. /\ e = l /\ Whole(e) /\ LotsIn(e) = vol /\ Kinds(e, {"Trade", "InstanceTrade"})
  BY EntriesOfTrade
<1> HIDE DEF e, l
<1>2. Kinds(l, GatewayKinds)
  BY <1>1, KindsSubset DEF GatewayKinds
<1>3. Moves(l, vol)
  BY <1>1, <1>2 DEF Moves
<1> QED BY <1>1, <1>3 DEF e, l

LEMMA NothingMoves == Entries(<<>>) = <<>> /\ Moves(<<>>, 0)
BY EntriesOfNothing, LotsOfNothing, KindsOfNothing DEF Moves

LEMMA MovesList ==
  ASSUME NEW l, NEW vol, Moves(l, vol)
  PROVE  IsList(l)
BY DEF Moves, Whole

LEMMA OrderEntries ==
  ASSUME NEW g, NEW vol \in Int, NEW price, NEW r,
         r = <<>> \/ \E o : r = <<TpslUpdatedEvent(o, FALSE, FALSE, FALSE)>>
  PROVE  LET ev == <<OrderResponseEvent(g)>> \o r \o <<TradeEvent(g, vol, price)>>
             tr == <<TradeEvent(g, vol, price),
                     [event |-> "InstanceTrade", volume |-> vol, price |-> price]>>
         IN  /\ Entries(ev) = <<OrderResponseEvent(g)>> \o r \o tr
             /\ Moves(Entries(ev), vol)
             /\ Moves(r, 0) /\ Moves(<<OrderResponseEvent(g)>>, 0) /\ Moves(tr, vol)
<1> DEFINE x == <<OrderResponseEvent(g)>>
           y == <<TradeEvent(g, vol, price)>>
           tr == <<TradeEvent(g, vol, price),
                     [event |-> "InstanceTrade", volume |-> vol, price |-> price]>>
<1>1. Entries(x) = x /\ Moves(x, 0)
  BY AnswerMoves DEF OrderResponseEvent, GatewayKinds
<1>2. Entries(r) = r /\ Moves(r, 0)
  <2>1. ASSUME NEW o PROVE LET u == <<TpslUpdatedEvent(o, FALSE, FALSE, FALSE)>>
                           IN Entries(u) = u /\ Moves(u, 0)
    BY AnswerMoves DEF TpslUpdatedEvent, GatewayKinds
  <2> QED BY <2>1, NothingMoves
<1>3. Entries(y) = tr /\ Moves(tr, vol)
  BY TradeMoves
<1>4. IsList(y)
  BY LiteralLists
<1> HIDE DEF x, y, tr
<1>5. IsList(x) /\ IsList(r) /\ IsList(x \o r)
  BY <1>1, <1>2, MovesList, ListConcat
<1>6. Entries((x \o r) \o y) = (x \o r) \o tr
  <2>1. Entries((x \o r) \o y) = Entries(x \o r) \o Entries(y)
    BY <1>4, <1>5, EntriesConcat
  <2>2. Entries(x \o r) = Entries(x) \o Entries(r)
    BY <1>5, EntriesConcat
  <2> QED BY <1>1, <1>2, <1>3, <2>1, <2>2
<1>7. Moves((x \o r) \o tr, vol)
  <2>1. Moves(x \o r, 0 + 0)
    BY <1>1, <1>2, MovesConcat
  <2>2. Moves((x \o r) \o tr, (0 + 0) + vol)
    BY <1>3, <2>1, MovesConcat
  <2>3. (0 + 0) + vol = vol
    OBVIOUS
  <2> QED BY <2>2, <2>3
<1> QED BY <1>1, <1>2, <1>3, <1>6, <1>7 DEF x, y, tr

LEMMA TpslEntries ==
  ASSUME NEW pos0 \in Int, NEW tpsl0, NEW a, NEW pos \in Int, NEW tpsl,
         TpslPart(pos0, tpsl0, a, pos, tpsl)
  PROVE  IsList(a) /\ Moves(Entries(a), pos - pos0)
<1>1. CASE a = <<>> /\ pos = pos0
  BY <1>1, NothingMoves, LiteralLists
<1>2. CASE ~(a = <<>> /\ pos = pos0)
  <2> DEFINE l(p) == <<TpslUpdatedEvent(tpsl0.guid, FALSE, TRUE, FALSE),
                       TradeEvent(tpsl0.guid, -pos0, p)>>
  <2>1. PICK p : a = l(p) /\ pos = 0
    BY <1>2 DEF TpslPart
  <2> DEFINE e == TpslUpdatedEvent(tpsl0.guid, FALSE, TRUE, FALSE)
             x == <<e>>
             y == <<TradeEvent(tpsl0.guid, -pos0, p)>>
  <2>2. a = x \o y
    BY <2>1, LiteralLists
  <2>3. Entries(x) = x /\ Moves(x, 0)
    <3>1. e.event \in GatewayKinds \ {"Trade", "InstanceTrade"}
      BY DEF TpslUpdatedEvent, GatewayKinds
    <3> HIDE DEF e
    <3> QED BY <3>1, AnswerMoves
  <2>4. Moves(Entries(y), -pos0)
    <3> DEFINE v == -pos0
    <3>1. v \in Int
      OBVIOUS
    <3> HIDE DEF v
    <3>2. Moves(Entries(<<TradeEvent(tpsl0.guid, v, p)>>), v)
      BY <3>1, TradeMoves
    <3> QED BY <3>2 DEF v
  <2>5. IsList(x) /\ IsList(y)
    BY LiteralLists
  <2> HIDE DEF x, y
  <2>6. IsList(a) /\ Entries(a) = Entries(x) \o Entries(y)
    BY <2>2, <2>5, ListConcat, EntriesConcat
  <2>7. Moves(Entries(a), 0 + (-pos0))
    BY <2>3, <2>4, <2>6, MovesConcat
  <2>8. 0 + (-pos0) = pos - pos0
    BY <2>1
  <2> QED BY <2>6, <2>7, <2>8
<1> QED BY <1>1, <1>2

LEMMA TrailingEntries ==
  ASSUME NEW pos0 \in Int, NEW t, NEW b, NEW pos \in Int, NEW trailing,
         TrailingPart(pos0, t, b, pos, trailing)
  PROVE  IsList(b) /\ Moves(Entries(b), pos - pos0)
<1>0. \A s : LET u == <<TrailingUpdatedEvent(s)>>
              IN Entries(u) = u /\ Moves(u, 0) /\ IsList(u)
  <2> TAKE s
  <2> DEFINE e == TrailingUpdatedEvent(s)
  <2>1. e.event \in GatewayKinds \ {"Trade", "InstanceTrade"}
    BY DEF TrailingUpdatedEvent, GatewayKinds
  <2> HIDE DEF e
  <2>2. Entries(<<e>>) = <<e>> /\ Moves(<<e>>, 0) /\ IsList(<<e>>)
    BY <2>1, AnswerMoves, LiteralLists
  <2> QED BY <2>2 DEF e
<1>1. CASE b = <<>> /\ pos = pos0
  BY <1>1, NothingMoves, LiteralLists
<1>2. CASE \E new : b = <<TrailingUpdatedEvent({new})>> /\ pos = pos0
  <2>1. pos - pos0 = 0
    BY <1>2
  <2> QED BY <1>0, <1>2, <2>1
<1>3. CASE b = <<TradeEvent(t.guid, -pos0, t.stop), TrailingUpdatedEvent({})>> /\ pos = 0
  <2> DEFINE x == <<TradeEvent(t.guid, -pos0, t.stop)>>
             y == <<TrailingUpdatedEvent({})>>
  <2>1. b = x \o y
    BY <1>3, LiteralLists
  <2>2. Moves(Entries(x), -pos0)
    <3> DEFINE v == -pos0
    <3>1. v \in Int
      OBVIOUS
    <3> HIDE DEF v
    <3>2. Moves(Entries(<<TradeEvent(t.guid, v, t.stop)>>), v)
      BY <3>1, TradeMoves
    <3> QED BY <3>2 DEF v
  <2>3. Moves(Entries(y), 0)
    BY <1>0
  <2>4. IsList(x) /\ IsList(y)
    BY LiteralLists
  <2> HIDE DEF x, y
  <2>5. IsList(b) /\ Entries(b) = Entries(x) \o Entries(y)
    BY <2>1, <2>4, ListConcat, EntriesConcat
  <2>6. Moves(Entries(b), (-pos0) + 0)
    BY <2>2, <2>3, <2>5, MovesConcat
  <2>7. (-pos0) + 0 = pos - pos0
    BY <1>3
  <2> QED BY <2>5, <2>6, <2>7
<1> QED BY <1>1, <1>2, <1>3 DEF TrailingPart

LEMMA PriceEntries ==
  ASSUME NEW gw, IsGateway(gw), NEW a, NEW b, NEW tpsl, NEW trailing, NEW last \in Int,
         PriceOutcome(gw, a, b, last, tpsl, trailing)
  PROVE  /\ IsList(a) /\ IsList(b) /\ Entries(a \o b) = Entries(a) \o Entries(b)
         /\ Moves(Entries(a \o b), last - gw.m_pos_volume)
<1>1. PICK pos \in Int : /\ TpslPart(gw.m_pos_volume, gw.m_tpsl, a, pos, tpsl)
                         /\ TrailingPart(pos, gw.m_trailing_stop, b, last, trailing)
  BY DEF PriceOutcome
<1> DEFINE p0 == gw.m_pos_volume
<1>2. p0 \in Int
  BY DEF IsGateway
<1> HIDE DEF p0
<1>3. IsList(a) /\ Moves(Entries(a), pos - p0)
  BY <1>1, <1>2, TpslEntries DEF p0
<1>4. IsList(b) /\ Moves(Entries(b), last - pos)
  BY <1>1, TrailingEntries
<1>5. Entries(a \o b) = Entries(a) \o Entries(b)
  BY <1>3, <1>4, EntriesConcat
<1>6. Moves(Entries(a \o b), (pos - p0) + (last - pos))
  BY <1>3, <1>4, <1>5, MovesConcat
<1>7. (pos - p0) + (last - pos) = last - p0
  BY <1>2
<1> QED BY <1>3, <1>4, <1>5, <1>6, <1>7 DEF p0

-----------------------------------------------------------------------------
(* The queue of the instance's loop, once its start has been handled *)
NormalKinds == GatewayKinds \cup
  {"Stop", "ExitUpdated", "ExitError", "PriceToExit", "SignalToEntry",
   "PriceLevels", "OpenedPosToEntry", "OpenedPosToExit", "TradeToExit"}

LowKinds == {"GeneratorOwn", "GeneratorForeign", "Price"}

Lists(high, normal, low) == [high |-> high, normal |-> normal, low |-> low]

IsQueue(q) ==
  /\ q = Lists(q.high, q.normal, q.low)
  /\ IsList(q.high) /\ Kinds(q.high, {"Error"})
  /\ IsList(q.low) /\ Kinds(q.low, LowKinds)
  /\ Whole(q.normal) /\ Kinds(q.normal, NormalKinds)

LEMMA QueueIs ==
  ASSUME NEW high, NEW normal, NEW low, IsList(high), Kinds(high, {"Error"}), IsList(low),
         Kinds(low, LowKinds), Whole(normal), Kinds(normal, NormalKinds)
  PROVE  LET q == Lists(high, normal, low)
         IN  IsQueue(q) /\ q.high = high /\ q.normal = normal /\ q.low = low
BY DEF IsQueue, Lists

(* q2 is q with other entries in its normal list. *)
Follows(q, q2, normal) ==
  /\ IsQueue(q2) /\ q2.high = q.high /\ q2.low = q.low /\ q2.normal = normal

LEMMA FollowsIs ==
  ASSUME NEW q, NEW normal, IsQueue(q), Whole(normal), Kinds(normal, NormalKinds)
  PROVE  Follows(q, [q EXCEPT !.normal = normal], normal)
<1> DEFINE high == q.high
           low == q.low
           old == q.normal
<1>1. q = Lists(high, old, low)
  BY DEF IsQueue
<1>2. /\ IsList(high) /\ Kinds(high, {"Error"}) /\ IsList(low) /\ Kinds(low, LowKinds)
  BY DEF IsQueue
<1> HIDE DEF high, low, old
<1>3. [q EXCEPT !.normal = normal] = Lists(high, normal, low)
  BY <1>1 DEF Lists
<1>4. /\ IsQueue(Lists(high, normal, low)) /\ Lists(high, normal, low).high = high
      /\ Lists(high, normal, low).normal = normal /\ Lists(high, normal, low).low = low
  BY <1>2, QueueIs
<1> QED BY <1>3, <1>4 DEF Follows, high, low

LEMMA PopNormal ==
  ASSUME NEW k, k \in NormalKinds, IsQueue(queue), Runs(k)
  PROVE  LET n == queue.normal IN
         /\ queue.high = <<>> /\ n # <<>> /\ Next_Event = Head(n) /\ Head(n).event = k
         /\ Follows(queue, Popped, Tail(n))
         /\ LotsOf(Head(n)) \in Int /\ LotsIn(n) \in Int
         /\ LotsIn(Tail(n)) = LotsIn(n) - LotsOf(Head(n))
<1> DEFINE n == queue.normal
<1>1. k \notin {"Error", "none"} \cup LowKinds
  BY DEF NormalKinds, GatewayKinds, LowKinds
<1>2. queue.high = <<>>
  <2>1. queue.high # <<>> => Head(queue.high).event \in {"Error"}
    BY KindsTail DEF IsQueue
  <2> QED BY <1>1, <2>1 DEF Runs, Next_Event
<1>3. n # <<>>
  <2>1. queue.low # <<>> => Head(queue.low).event \in LowKinds
    BY KindsTail DEF IsQueue
  <2> QED BY <1>1, <1>2, <2>1 DEF Runs, Next_Event
<1>4. Next_Event = Head(n) /\ Head(n).event = k
  BY <1>2, <1>3 DEF Runs, Next_Event
<1>5. Popped = [queue EXCEPT !.normal = Tail(n)]
  BY <1>2, <1>3 DEF Popped
<1>6. IsList(n) /\ Whole(n) /\ Kinds(n, NormalKinds)
  BY DEF IsQueue, Whole
<1> HIDE DEF n
<1>7. Kinds(Tail(n), NormalKinds)
  BY <1>3, <1>6, KindsTail
<1>8. /\ Whole(Tail(n)) /\ LotsOf(Head(n)) \in Int /\ LotsIn(n) \in Int
      /\ LotsIn(Tail(n)) = LotsIn(n) - LotsOf(Head(n))
  BY <1>3, <1>6, LotsTail
<1>9. Follows(queue, Popped, Tail(n))
  BY <1>5, <1>7, <1>8, FollowsIs
<1> QED BY <1>2, <1>3, <1>4, <1>8, <1>9 DEF n

(* The same for an entry that is no trade of the instance *)
LEMMA PopOther ==
  ASSUME NEW k, k \in NormalKinds \ {"InstanceTrade"}, IsQueue(queue), Runs(k)
  PROVE  LET n == queue.normal IN
         /\ queue.high = <<>> /\ n # <<>> /\ Next_Event = Head(n) /\ Head(n).event = k
         /\ Follows(queue, Popped, Tail(n))
         /\ LotsIn(n) \in Int /\ LotsIn(Tail(n)) = LotsIn(n)
<1> DEFINE n == queue.normal
<1>1. /\ queue.high = <<>> /\ n # <<>> /\ Next_Event = Head(n) /\ Head(n).event = k
      /\ Follows(queue, Popped, Tail(n))
      /\ LotsIn(n) \in Int /\ LotsIn(Tail(n)) = LotsIn(n) - LotsOf(Head(n))
  BY PopNormal
<1>2. LotsOf(Head(n)) = 0
  BY <1>1 DEF LotsOf
<1> QED BY <1>1, <1>2

LEMMA PopHigh ==
  ASSUME IsQueue(queue), Runs("Error")
  PROVE  /\ queue.high # <<>> /\ Popped = [queue EXCEPT !.high = Tail(queue.high)]
         /\ IsQueue(Popped) /\ Popped.normal = queue.normal
         /\ Popped.high = Tail(queue.high) /\ Popped.low = queue.low
<1> DEFINE h == queue.high
           l == queue.low
           n == queue.normal
<1>0. /\ IsList(h) /\ Kinds(h, {"Error"}) /\ IsList(l) /\ Kinds(l, LowKinds)
      /\ Whole(n) /\ Kinds(n, NormalKinds) /\ IsList(n) /\ queue = Lists(h, n, l)
  BY DEF IsQueue, Whole
<1>1. h # <<>>
  <2>1. l # <<>> => Head(l).event \in LowKinds
    BY <1>0, KindsTail
  <2>2. n # <<>> => Head(n).event \in NormalKinds
    BY <1>0, KindsTail
  <2> QED BY <2>1, <2>2 DEF Runs, Next_Event, NormalKinds, GatewayKinds, LowKinds
<1>2. Popped = [queue EXCEPT !.high = Tail(h)]
  BY <1>1 DEF Popped
<1> HIDE DEF h, l, n
<1> DEFINE t == Tail(h)
<1>3. IsList(t) /\ Kinds(t, {"Error"})
  BY <1>0, <1>1, KindsTail
<1> HIDE DEF t
<1>5. Popped = Lists(t, n, l)
  BY <1>0, <1>2 DEF Lists, t
<1>6. IsQueue(Popped) /\ Popped.high = t /\ Popped.normal = n /\ Popped.low = l
  BY <1>0, <1>3, <1>5, QueueIs
<1> QED BY <1>1, <1>2, <1>6 DEF h, l, n, t

LEMMA PopLow ==
  ASSUME NEW k, k \in LowKinds, IsQueue(queue), Runs(k)
  PROVE  /\ queue.high = <<>> /\ queue.normal = <<>> /\ queue.low # <<>>
         /\ Head(queue.low).event = k
         /\ IsQueue(Popped) /\ Popped.normal = <<>> /\ Popped.high = <<>>
         /\ Popped.low = Tail(queue.low)
<1> DEFINE h == queue.high
           l == queue.low
           n == queue.normal
<1>0. /\ IsList(h) /\ Kinds(h, {"Error"}) /\ IsList(l) /\ Kinds(l, LowKinds)
      /\ Whole(n) /\ Kinds(n, NormalKinds) /\ IsList(n) /\ queue = Lists(h, n, l)
  BY DEF IsQueue, Whole
<1>1. h = <<>>
  <2>1. h # <<>> => Head(h).event \in {"Error"}
    BY <1>0, KindsTail
  <2> QED BY <2>1 DEF Runs, Next_Event, LowKinds
<1>2. n = <<>>
  <2>1. n # <<>> => Head(n).event \in NormalKinds
    BY <1>0, KindsTail
  <2> QED BY <1>1, <2>1 DEF Runs, Next_Event, NormalKinds, GatewayKinds, LowKinds
<1>3. l # <<>> /\ Head(l).event = k
  BY <1>1, <1>2 DEF Runs, Next_Event, LowKinds
<1>4. Popped = [queue EXCEPT !.low = Tail(l)]
  BY <1>1, <1>2 DEF Popped
<1> HIDE DEF h, l, n
<1> DEFINE t == Tail(l)
<1>5. IsList(t) /\ Kinds(t, LowKinds)
  BY <1>0, <1>3, KindsTail
<1> HIDE DEF t
<1>6. Popped = Lists(h, n, t)
  BY <1>0, <1>4 DEF Lists, t
<1>7. IsQueue(Popped) /\ Popped.high = h /\ Popped.normal = n /\ Popped.low = t
  BY <1>0, <1>5, <1>6, QueueIs
<1> QED BY <1>1, <1>2, <1>3, <1>7 DEF h, l, n, t

LEMMA PushNormal ==
  ASSUME NEW q, NEW l, IsQueue(q), Whole(l), Kinds(l, NormalKinds)
  PROVE  /\ Follows(q, WithNormal(q, l), q.normal \o l)
         /\ LotsIn(q.normal) \in Int /\ LotsIn(l) \in Int
         /\ LotsIn(q.normal \o l) = LotsIn(q.normal) + LotsIn(l)
<1> DEFINE n == q.normal
           m == n \o l
<1>1. Whole(n) /\ Kinds(n, NormalKinds) /\ IsList(n) /\ IsList(l)
  BY DEF IsQueue, Whole
<1>2. WithNormal(q, l) = [q EXCEPT !.normal = m]
  BY DEF WithNormal
<1> HIDE DEF n
<1>3. /\ Whole(m) /\ LotsIn(n) \in Int /\ LotsIn(l) \in Int
      /\ LotsIn(m) = LotsIn(n) + LotsIn(l)
  BY <1>1, LotsConcat
<1>4. Kinds(m, NormalKinds)
  BY <1>1, KindsConcat
<1> HIDE DEF m
<1>5. Follows(q, WithNormal(q, l), m)
  BY <1>2, <1>3, <1>4, FollowsIs
<1> QED BY <1>3, <1>5 DEF m, n

(* Entries that are no trades of the instance *)
LEMMA PushOthers ==
  ASSUME NEW q, NEW l, NEW K, IsQueue(q), IsList(l), Kinds(l, K),
         K \subseteq NormalKinds \ {"InstanceTrade"}
  PROVE  /\ Follows(q, WithNormal(q, l), q.normal \o l)
         /\ LotsIn(q.normal) \in Int /\ LotsIn(q.normal \o l) = LotsIn(q.normal)
<1>1. Whole(l) /\ LotsIn(l) = 0
  <2>1. "InstanceTrade" \notin K
    OBVIOUS
  <2> QED BY <2>1, LotsOfOthers
<1>2. Kinds(l, NormalKinds)
  BY DEF Kinds
<1> QED BY <1>1, <1>2, PushNormal

LEMMA PricePushed ==
  ASSUME NEW q, NEW r, IsQueue(q), r = [q EXCEPT !.low = Append(@, E("Price"))]
  PROVE  /\ IsQueue(r) /\ r.high = q.high /\ r.normal = q.normal
         /\ r.low = Append(q.low, E("Price"))
<1> DEFINE h == q.high
           n == q.normal
           l == q.low
           m == Append(l, E("Price"))
<1>1. /\ q = Lists(h, n, l) /\ IsList(h) /\ Kinds(h, {"Error"}) /\ IsList(l)
      /\ Kinds(l, LowKinds) /\ Whole(n) /\ Kinds(n, NormalKinds)
  BY DEF IsQueue
<1>2. r = [q EXCEPT !.low = m]
  OBVIOUS
<1>3. IsList(m) /\ Kinds(m, LowKinds)
  <2> DEFINE p == E("Price")
             x == <<p>>
  <2>0. p.event \in LowKinds
    BY DEF E, LowKinds
  <2> HIDE DEF p
  <2>1. IsList(x) /\ Kinds(x, LowKinds)
    BY <2>0, KindsOfOne
  <2> HIDE DEF l, x
  <2>2. m = l \o x
    BY <1>1, ListAppend DEF x, p
  <2> QED BY <1>1, <2>1, <2>2, KindsConcat
<1> HIDE DEF h, n, l, m
<1>4. r = Lists(h, n, m)
  BY <1>1, <1>2 DEF Lists
<1>5. IsQueue(r) /\ r.high = h /\ r.normal = n /\ r.low = m
  <2>1. /\ IsQueue(Lists(h, n, m)) /\ Lists(h, n, m).high = h
        /\ Lists(h, n, m).normal = n /\ Lists(h, n, m).low = m
    BY <1>1, <1>3, QueueIs
  <2> QED BY <1>4, <2>1
<1> QED BY <1>5 DEF h, n, l, m

LEMMA DropNormal ==
  ASSUME NEW q, IsQueue(q)
  PROVE  /\ Follows(q, Discarded(q),
                     Without(q.normal, {e \in ToSet(q.normal) : e.event = "ExitUpdated"}))
         /\ LotsIn(Discarded(q).normal) = LotsIn(q.normal)
<1> DEFINE n == q.normal
           D == {e \in ToSet(n) : e.event = "ExitUpdated"}
           m == Without(n, D)
<1>1. Whole(n) /\ Kinds(n, NormalKinds) /\ IsList(n)
  BY DEF IsQueue, Whole
<1>2. Discarded(q) = [q EXCEPT !.normal = m]
  BY DEF Discarded
<1>3. \A e \in D : LotsOf(e) = 0
  BY DEF LotsOf
<1> HIDE DEF n, D
<1>4. Whole(m) /\ LotsIn(m) = LotsIn(n)
  BY <1>1, <1>3, LotsWithout
<1>5. Kinds(m, NormalKinds)
  BY <1>1, KindsWithout
<1> HIDE DEF m
<1>6. Follows(q, Discarded(q), m)
  BY <1>2, <1>4, <1>5, FollowsIs
<1> QED BY <1>4, <1>6 DEF Follows, m, n, D

-----------------------------------------------------------------------------
(* The instance's position *)
IsPosition(p) ==
  p = None \/ (p = [volume |-> p.volume, entry |-> p.entry] /\ p.volume \in Int)

Held(p) == IF p = None THEN 0 ELSE p.volume

Shapes ==
  /\ IsQueue(queue)
  /\ IsGateway(gateway) /\ gateway.events = <<>>
  /\ IsPosition(m_opened_position)

(* The inductive invariant *)
Books == Shapes /\ PositionAgrees

LEMMA CallsMoves ==
  ASSUME NEW q, IsQueue(q), NEW pos \in Int, NEW price, NEW tpsl, NEW t, NEW ev,
         t # None => IsTrailingStop(t), NEW v, Moves(Entries(ev), v),
         Calls(q, Gateway(pos, price, tpsl, t, ev))
  PROVE  /\ Follows(q, queue', q.normal \o Entries(ev))
         /\ LotsIn(q.normal) \in Int /\ LotsIn(queue'.normal) = LotsIn(q.normal) + v
         /\ gateway' = Gateway(pos, price, tpsl, t, <<>>)
         /\ IsGateway(gateway') /\ gateway'.events = <<>> /\ gateway'.m_pos_volume = pos
<1> DEFINE g == Gateway(pos, price, tpsl, t, ev)
           l == Entries(ev)
           n == <<>>
<1>1. g.events = ev /\ [g EXCEPT !.events = <<>>] = Gateway(pos, price, tpsl, t, <<>>)
  BY GatewayRests
<1>2. gateway' = Gateway(pos, price, tpsl, t, n) /\ queue' = WithNormal(q, l)
  BY <1>1 DEF Calls
<1> HIDE DEF g, n
<1>3. IsGateway(gateway') /\ gateway'.events = n /\ gateway'.m_pos_volume = pos
  BY <1>2, GatewayRests
<1>4. Whole(l) /\ Kinds(l, NormalKinds) /\ LotsIn(l) = v
  BY KindsSubset DEF Moves, NormalKinds
<1> HIDE DEF l
<1>5. /\ Follows(q, WithNormal(q, l), q.normal \o l) /\ LotsIn(q.normal) \in Int
      /\ LotsIn(q.normal \o l) = LotsIn(q.normal) + LotsIn(l)
  BY <1>4, PushNormal
<1> QED BY <1>2, <1>3, <1>4, <1>5 DEF l, n, Follows

LEMMA SendOrderMoves ==
  ASSUME Shapes, NEW q, IsQueue(q), NEW vol \in Int, SendOrder(q, vol)
  PROVE  /\ IsQueue(queue') /\ LotsIn(q.normal) \in Int
         /\ LotsIn(queue'.normal) = LotsIn(q.normal) + vol
         /\ IsGateway(gateway') /\ gateway'.events = <<>>
         /\ gateway'.m_pos_volume = gateway.m_pos_volume + vol
<1> DEFINE o == NextGuid(Orders, created)
           pos == gateway.m_pos_volume + vol
           price == gateway.m_last_price
           tpsl == gateway.m_tpsl
           t == gateway.m_trailing_stop
           ev(r) == <<OrderResponseEvent(o)>> \o r \o <<TradeEvent(o, vol, price)>>
<1>1. Calls(q, push_order_request(gateway, o, vol))
  BY DEF SendOrder
<1>2. PICK r : /\ r = IF pos = 0 /\ tpsl # None
                      THEN <<TpslUpdatedEvent(tpsl.guid, FALSE, FALSE, FALSE)>> ELSE <<>>
               /\ push_order_request(gateway, o, vol) = Gateway(pos, price, tpsl, t, ev(r))
  BY OrderAtGateway DEF Shapes
<1>3. Moves(Entries(ev(r)), vol)
  <2>1. r = <<>> \/ \E x : r = <<TpslUpdatedEvent(x, FALSE, FALSE, FALSE)>>
    BY <1>2
  <2> HIDE DEF o, price
  <2> QED BY <2>1, OrderEntries
<1>4. pos \in Int /\ (t # None => IsTrailingStop(t))
  BY DEF Shapes, IsGateway
<1> DEFINE e == ev(r)
<1>5. Calls(q, Gateway(pos, price, tpsl, t, e)) /\ Moves(Entries(e), vol)
  BY <1>1, <1>2, <1>3
<1> HIDE DEF e, pos, price, tpsl, t, o, ev
<1>6. /\ Follows(q, queue', q.normal \o Entries(e))
      /\ LotsIn(q.normal) \in Int /\ LotsIn(queue'.normal) = LotsIn(q.normal) + vol
      /\ IsGateway(gateway') /\ gateway'.events = <<>> /\ gateway'.m_pos_volume = pos
  BY <1>4, <1>5, CallsMoves
<1> QED BY <1>6 DEF pos, Follows

LEMMA SendExitMoves ==
  ASSUME Shapes, NEW q, IsQueue(q), NEW gw,
         Calls(Discarded(q), gw),
         \/ \E tpsl : gw = push_tpsl_request(gateway, tpsl)
         \/ \E g, side, distance : gw = push_trailing_stop_request(gateway, g, side, distance)
  PROVE  /\ IsQueue(queue') /\ LotsIn(q.normal) \in Int
         /\ LotsIn(queue'.normal) = LotsIn(q.normal)
         /\ IsGateway(gateway') /\ gateway'.events = <<>>
         /\ gateway'.m_pos_volume = gateway.m_pos_volume
<1> DEFINE d == Discarded(q)
           pos == gateway.m_pos_volume
           price == gateway.m_last_price
<1>1. IsQueue(d) /\ LotsIn(d.normal) = LotsIn(q.normal)
  BY DropNormal DEF Follows
<1>2. pos \in Int /\ IsGateway(gateway) /\ gateway.events = <<>>
  BY DEF Shapes, IsGateway
<1>3. \E tpsl, t, e : /\ t # None => IsTrailingStop(t)
                     /\ e.event \in {"TpslUpdated", "TrailingUpdated"}
                     /\ gw = Gateway(pos, price, tpsl, t, <<e>>)
  <2>1. CASE \E tpsl : gw = push_tpsl_request(gateway, tpsl)
    <3>1. PICK tpsl : gw = push_tpsl_request(gateway, tpsl)
      BY <2>1
    <3>2. gateway.m_trailing_stop # None => IsTrailingStop(gateway.m_trailing_stop)
      BY <1>2 DEF IsGateway
    <3>3. \A x : TpslUpdatedEvent(tpsl.guid, TRUE, FALSE, x).event = "TpslUpdated"
      BY DEF TpslUpdatedEvent
    <3>4. \/ gw = Gateway(0, price, gateway.m_tpsl, gateway.m_trailing_stop,
                        <<TpslUpdatedEvent(tpsl.guid, TRUE, FALSE, TRUE)>>) /\ pos = 0
          \/ gw = Gateway(pos, price, tpsl, gateway.m_trailing_stop,
                        <<TpslUpdatedEvent(tpsl.guid, TRUE, FALSE, FALSE)>>)
      BY <1>2, <3>1, TpslRequestAtGateway
    <3> QED BY <3>2, <3>3, <3>4
  <2>2. CASE \E g, side, distance : gw = push_trailing_stop_request(gateway, g, side, distance)
    <3>1. PICK g, side, distance : gw = push_trailing_stop_request(gateway, g, side, distance)
      BY <2>2
    <3> DEFINE stop == StopPrice(side, distance, price)
               t    == [guid |-> g, side |-> side, distance |-> distance, stop |-> stop]
    <3>2. IsTrailingStop(t) /\ gw = Gateway(pos, price, gateway.m_tpsl, t,
                                            <<TrailingUpdatedEvent({stop})>>)
      BY <1>2, <3>1, TrailingRequestAtGateway
    <3>3. TrailingUpdatedEvent({stop}).event = "TrailingUpdated"
      BY DEF TrailingUpdatedEvent
    <3> HIDE DEF t, stop
    <3> QED BY <3>2, <3>3
  <2> QED BY <2>1, <2>2
<1>4. PICK tpsl, t, e : /\ t # None => IsTrailingStop(t)
                        /\ e.event \in {"TpslUpdated", "TrailingUpdated"}
                        /\ gw = Gateway(pos, price, tpsl, t, <<e>>)
  BY <1>3
<1> DEFINE ev == <<e>>
<1>5. Moves(Entries(ev), 0)
  BY <1>4, AnswerMoves DEF GatewayKinds
<1> HIDE DEF d, ev, pos, price
<1>6. /\ Follows(d, queue', d.normal \o Entries(ev))
      /\ LotsIn(d.normal) \in Int /\ LotsIn(queue'.normal) = LotsIn(d.normal) + 0
      /\ IsGateway(gateway') /\ gateway'.events = <<>> /\ gateway'.m_pos_volume = pos
  <2>1. Calls(d, Gateway(pos, price, tpsl, t, ev))
    BY <1>4 DEF d, ev
  <2> QED BY <1>1, <1>2, <1>4, <1>5, <2>1, CallsMoves DEF pos
<1> QED BY <1>1, <1>6 DEF pos, Follows

(* What an action leaves of it when it touches neither the gateway nor the position *)
Unmoved ==
  /\ gateway' = gateway /\ m_opened_position' = m_opened_position
  /\ IsQueue(queue') /\ LotsIn(queue'.normal) = LotsIn(queue.normal)

LEMMA UnmovedBooks ==
  ASSUME Books, Unmoved
  PROVE  Books'
BY DEF Books, Shapes, Unmoved, PositionAgrees, UnseenVolume

LEMMA StepPopped ==
  ASSUME Books, NEW k, k \in NormalKinds \ {"InstanceTrade"}, Runs(k),
         queue' = Popped, UNCHANGED <<gateway, m_opened_position>>
  PROVE  Books'
<1>1. IsQueue(queue)
  BY DEF Books, Shapes
<1>2. Follows(queue, Popped, Tail(queue.normal)) /\ LotsIn(Tail(queue.normal)) = LotsIn(queue.normal)
  BY <1>1, PopOther
<1> QED BY <1>2, UnmovedBooks DEF Unmoved, Follows

LEMMA StepOtherThreads ==
  ASSUME started, Books, run_async \/ stop_async \/ AnswerOwn \/ AnswerForeign
  PROVE  Books'
<1>1. IsQueue(queue)
  BY DEF Books, Shapes
<1>2. ASSUME NEW e, e.event = "Stop", Push("normal", <<e>>)
      PROVE  IsQueue(queue') /\ LotsIn(queue'.normal) = LotsIn(queue.normal)
  <2> DEFINE l == <<e>>
             K == {"Stop"}
  <2>1. IsList(l) /\ Kinds(l, K) /\ K \subseteq NormalKinds \ {"InstanceTrade"}
    BY <1>2, KindsOfOne DEF NormalKinds, GatewayKinds
  <2>2. queue' = WithNormal(queue, l)
    BY <1>2 DEF Push, WithNormal
  <2> HIDE DEF l, K
  <2> QED BY <1>1, <2>1, <2>2, PushOthers DEF Follows
<1>3. ASSUME NEW e, e.event \in LowKinds, Push("low", <<e>>)
      PROVE  IsQueue(queue') /\ queue'.normal = queue.normal
  <2> DEFINE h == queue.high
             n == queue.normal
             l == queue.low
             m == l \o <<e>>
  <2>1. /\ queue = Lists(h, n, l) /\ IsList(h) /\ Kinds(h, {"Error"}) /\ IsList(l)
        /\ Kinds(l, LowKinds) /\ Whole(n) /\ Kinds(n, NormalKinds)
    BY <1>1 DEF IsQueue
  <2>2. queue' = [queue EXCEPT !.low = m]
    BY <1>3 DEF Push
  <2>3. IsList(m) /\ Kinds(m, LowKinds)
    <3>1. IsList(<<e>>) /\ Kinds(<<e>>, LowKinds)
      BY <1>3, KindsOfOne
    <3> DEFINE x == <<e>>
    <3> HIDE DEF l, x
    <3> QED BY <2>1, <3>1, KindsConcat DEF x
  <2> HIDE DEF h, n, l, m
  <2>4. queue' = Lists(h, n, m)
    BY <2>1, <2>2 DEF Lists
  <2> QED BY <2>1, <2>3, <2>4, QueueIs DEF n
<1>4. UNCHANGED <<gateway, m_opened_position>>
  BY DEF run_async, stop_async, AnswerOwn, AnswerForeign, instanceVars
<1>5. ~run_async
  BY DEF run_async
<1>6. CASE stop_async
  <2>1. Push("normal", <<E("Stop")>>) /\ E("Stop").event = "Stop"
    BY <1>6 DEF stop_async, E
  <2> QED BY <1>2, <1>4, <2>1, UnmovedBooks DEF Unmoved
<1>7. CASE AnswerOwn
  <2>1. Push("low", <<E("GeneratorOwn")>>) /\ E("GeneratorOwn").event \in LowKinds
    BY <1>7 DEF AnswerOwn, E, LowKinds
  <2> QED BY <1>3, <1>4, <2>1, UnmovedBooks DEF Unmoved
<1>8. CASE AnswerForeign
  <2>1. Push("low", <<E("GeneratorForeign")>>) /\ E("GeneratorForeign").event \in LowKinds
    BY <1>8 DEF AnswerForeign, E, LowKinds
  <2> QED BY <1>3, <1>4, <2>1, UnmovedBooks DEF Unmoved
<1> QED BY <1>5, <1>6, <1>7, <1>8

LEMMA NeverStart ==
  ASSUME Books
  PROVE  ~Runs("Start")
<1>1. /\ queue.high # <<>> => Head(queue.high).event \in {"Error"}
      /\ queue.low # <<>> => Head(queue.low).event \in LowKinds
      /\ queue.normal # <<>> => Head(queue.normal).event \in NormalKinds
  BY KindsTail DEF Books, Shapes, IsQueue, Whole
<1> QED BY <1>1 DEF Runs, Next_Event, NormalKinds, GatewayKinds, LowKinds

(* The handlers that take their event and push nothing *)
LEMMA StepTakers ==
  ASSUME Books,
         \/ HandleStopThrows \/ HandleOpenedPos \/ HandleOrderResponse
         \/ HandleOrderTrade \/ (on_exit_trade /\ UNCHANGED instanceVars)
         \/ (exit_on_opened_pos /\ UNCHANGED instanceVars)
         \/ (exit_on_price_levels /\ UNCHANGED instanceVars)
  PROVE  Books'
<1>1. {"Stop", "OpenedPosToEntry", "OrderResponse", "Trade", "OpenedPosToExit",
       "PriceLevels"} \subseteq NormalKinds \ {"InstanceTrade"}
  BY DEF NormalKinds, GatewayKinds
<1>2. queue' = Popped /\ UNCHANGED <<gateway, m_opened_position>>
  BY DEF HandleStopThrows, HandleOpenedPos, HandleOrderResponse,
         HandleOrderTrade, on_exit_trade, exit_on_opened_pos, exit_on_price_levels,
         instanceVars
<1>3. \E k \in NormalKinds \ {"InstanceTrade"} : Runs(k)
  BY <1>1 DEF HandleStopThrows, HandleOpenedPos, HandleOrderResponse,
         HandleOrderTrade, on_exit_trade, exit_on_opened_pos, exit_on_price_levels
<1> QED BY <1>2, <1>3, StepPopped

LEMMA StepGenerator ==
  ASSUME Books, HandleGenerator
  PROVE  Books'
<1>1. IsQueue(queue)
  BY DEF Books, Shapes
<1>2. IsQueue(Popped) /\ Popped.normal = <<>> /\ queue.normal = <<>>
  <2>1. PICK k \in LowKinds : Runs(k)
    BY DEF HandleGenerator, LowKinds
  <2> QED BY <1>1, <2>1, PopLow
<1>3. UNCHANGED <<gateway, m_opened_position>>
  BY DEF HandleGenerator
<1>4. CASE queue' = Popped
  BY <1>2, <1>3, <1>4, UnmovedBooks DEF Unmoved
<1>5. CASE queue' = [Popped EXCEPT !.low = Append(@, E("Price"))]
  <2>1. IsQueue(queue') /\ queue'.normal = Popped.normal
    BY <1>2, <1>5, PricePushed
  <2> QED BY <1>2, <1>3, <2>1, UnmovedBooks DEF Unmoved
<1> QED BY <1>4, <1>5 DEF HandleGenerator, NextPrice

LEMMA StepErrors ==
  ASSUME Books, HandleError \/ ForwardError
  PROVE  Books'
<1>1. IsQueue(queue)
  BY DEF Books, Shapes
<1>2. UNCHANGED <<gateway, m_opened_position>>
  BY DEF HandleError, ForwardError, instanceVars
<1>3. CASE HandleError
  <2> DEFINE l == <<E("Stop")>>
             K == {"Stop"}
  <2>1. IsQueue(Popped) /\ Popped.normal = queue.normal
    BY <1>1, <1>3, PopHigh DEF HandleError
  <2>2. IsList(l) /\ Kinds(l, K) /\ K \subseteq NormalKinds \ {"InstanceTrade"}
    BY KindsOfOne DEF NormalKinds, GatewayKinds, E
  <2>3. queue' = WithNormal(Popped, l)
    BY <1>3 DEF HandleError
  <2> HIDE DEF l, K
  <2>4. IsQueue(queue') /\ LotsIn(queue'.normal) = LotsIn(queue.normal)
    BY <2>1, <2>2, <2>3, PushOthers DEF Follows
  <2> QED BY <1>2, <2>4, UnmovedBooks DEF Unmoved
<1>4. CASE ForwardError
  <2>1. /\ Follows(queue, Popped, Tail(queue.normal))
        /\ LotsIn(Tail(queue.normal)) = LotsIn(queue.normal)
    <3>1. Runs("ExitError") /\ "ExitError" \in NormalKinds \ {"InstanceTrade"}
      BY <1>4 DEF ForwardError, NormalKinds, GatewayKinds
    <3> QED BY <1>1, <3>1, PopOther
  <2> DEFINE h == Popped.high
             n == Popped.normal
             w == Popped.low
             m == Append(h, E("Error"))
  <2>2. /\ Popped = Lists(h, n, w) /\ IsList(h) /\ Kinds(h, {"Error"}) /\ IsList(w)
        /\ Kinds(w, LowKinds) /\ Whole(n) /\ Kinds(n, NormalKinds)
    BY <2>1 DEF IsQueue, Follows
  <2>3. queue' = [Popped EXCEPT !.high = m]
    BY <1>4 DEF ForwardError
  <2>4. IsList(m) /\ Kinds(m, {"Error"})
    <3> DEFINE x == <<E("Error")>>
    <3>1. IsList(x) /\ Kinds(x, {"Error"})
      BY KindsOfOne DEF E
    <3> HIDE DEF h, x
    <3>2. m = h \o x
      BY <2>2, ListAppend DEF x
    <3> QED BY <2>2, <3>1, <3>2, KindsConcat
  <2>5. n = Tail(queue.normal)
    BY <2>1 DEF Follows
  <2> HIDE DEF h, n, w, m
  <2>6. queue' = Lists(m, n, w)
    BY <2>2, <2>3 DEF Lists
  <2>7. IsQueue(queue') /\ queue'.normal = n
    BY <2>2, <2>4, <2>6, QueueIs
  <2> QED BY <1>2, <2>1, <2>5, <2>7, UnmovedBooks DEF Unmoved
<1> QED BY <1>3, <1>4

LEMMA StepSent ==
  ASSUME Books, NEW k, k \in NormalKinds \ {"InstanceTrade"}, Runs(k),
         NEW vol \in Int, SendOrder(Popped, vol), m_opened_position' = m_opened_position
  PROVE  Books'
<1>1. Shapes /\ IsQueue(queue) /\ PositionAgrees
  BY DEF Books, Shapes
<1>2. /\ Follows(queue, Popped, Tail(queue.normal))
      /\ LotsIn(Tail(queue.normal)) = LotsIn(queue.normal)
  BY <1>1, PopOther
<1>3. /\ IsQueue(queue') /\ LotsIn(queue.normal) \in Int
      /\ LotsIn(queue'.normal) = LotsIn(queue.normal) + vol
      /\ IsGateway(gateway') /\ gateway'.events = <<>>
      /\ gateway'.m_pos_volume = gateway.m_pos_volume + vol
  <2> DEFINE q == Popped
  <2>1. IsQueue(q) /\ LotsIn(q.normal) = LotsIn(queue.normal) /\ SendOrder(q, vol)
    BY <1>2 DEF Follows
  <2> HIDE DEF q
  <2> QED BY <1>1, <2>1, SendOrderMoves
<1>4. Held(m_opened_position) \in Int
  BY <1>1 DEF Shapes, Held, IsPosition
<1>5. Held(m_opened_position) + LotsIn(queue.normal) = gateway.m_pos_volume
  BY <1>1 DEF PositionAgrees, UnseenVolume, Held
<1>6. Held(m_opened_position) + LotsIn(queue'.normal) = gateway'.m_pos_volume
  BY <1>3, <1>4, <1>5
<1>7. PositionAgrees'
  BY <1>6 DEF PositionAgrees, UnseenVolume, Held
<1>8. Shapes'
  BY <1>1, <1>3 DEF Shapes
<1> QED BY <1>7, <1>8 DEF Books

LEMMA StepOrders ==
  ASSUME Books, HandleStop \/ \E side \in {-1, 0, 1} : HandleSignal(side)
  PROVE  Books'
<1>1. CASE HandleStop
  <2>1. /\ Runs("Stop") /\ m_opened_position' = m_opened_position
        /\ "Stop" \in NormalKinds \ {"InstanceTrade"}
    BY <1>1 DEF HandleStop, NormalKinds, GatewayKinds
  <2>2. CASE m_opened_position = None
    <3>1. queue' = Popped /\ UNCHANGED <<gateway, m_opened_position>>
      BY <1>1, <2>2 DEF HandleStop
    <3> QED BY <2>1, <3>1, StepPopped
  <2>3. CASE m_opened_position # None
    <3> DEFINE v == -m_opened_position.volume
    <3>1. SendOrder(Popped, v)
      BY <1>1, <2>3 DEF HandleStop
    <3>2. v \in Int
      BY <2>3 DEF Books, Shapes, IsPosition
    <3> HIDE DEF v
    <3> QED BY <2>1, <3>1, <3>2, StepSent
  <2> QED BY <2>2, <2>3
<1>2. ASSUME NEW side \in {-1, 0, 1}, HandleSignal(side) PROVE Books'
  <2>1. /\ Runs("SignalToEntry") /\ m_opened_position' = m_opened_position
        /\ "SignalToEntry" \in NormalKinds \ {"InstanceTrade"}
    BY <1>2 DEF HandleSignal, NormalKinds, GatewayKinds, instanceVars
  <2>2. CASE SendOrder(Popped, side)
    BY <2>1, <2>2, StepSent
  <2>3. CASE queue' = Popped /\ gateway' = gateway
    BY <2>1, <2>3, StepPopped
  <2> QED BY <1>2, <2>2, <2>3 DEF HandleSignal
<1> QED BY <1>1, <1>2

(* What a trade does to the position *)
LEMMA PositionTraded ==
  ASSUME NEW pos, IsPosition(pos), NEW vol \in Int, NEW price
  PROVE  LET p == PositionAfter(pos, vol, price)
         IN  IsPosition(p) /\ Held(pos) \in Int /\ Held(p) = Held(pos) + vol
<1>0. \A v, e : [volume |-> v, entry |-> e] # None
  BY DEF None
<1> DEFINE p == PositionAfter(pos, vol, price)
           Goal == IsPosition(p) /\ Held(pos) \in Int /\ Held(p) = Held(pos) + vol
<1>1. ASSUME pos = None PROVE Goal
  <2> DEFINE e == IF vol = 0 THEN 0 ELSE price
  <2>1. p = [volume |-> vol, entry |-> e]
    BY <1>1 DEF PositionAfter
  <2> HIDE DEF e, p
  <2> QED BY <1>0, <1>1, <2>1 DEF IsPosition, Held
<1>2. ASSUME pos # None PROVE Goal
  <2> DEFINE w == pos.volume
             e == pos.entry
  <2>1. pos = [volume |-> w, entry |-> e] /\ w \in Int /\ Held(pos) = w
    BY <1>2 DEF IsPosition, Held
  <2> HIDE DEF w, e
  <2>2. ASSUME p = pos, vol = 0 PROVE Goal
    <3> HIDE DEF p
    <3> QED BY <2>1, <2>2
  <2>3. ASSUME \E x : p = [volume |-> w + vol, entry |-> x] PROVE Goal
    <3>1. PICK x : p = [volume |-> w + vol, entry |-> x]
      BY <2>3
    <3> HIDE DEF p
    <3>2. p.volume = w + vol /\ p.entry = x /\ p # None
      BY <1>0, <3>1
    <3> QED BY <2>1, <3>1, <3>2 DEF IsPosition, Held
  <2>4. ASSUME p = None, w + vol = 0 PROVE Goal
    <3> HIDE DEF p
    <3> QED BY <2>1, <2>4 DEF IsPosition, Held
  <2>5. \/ p = pos /\ vol = 0
        \/ \E x : p = [volume |-> w + vol, entry |-> x]
        \/ p = None /\ w + vol = 0
    <3>1. [pos EXCEPT !.volume = @ + vol] = [volume |-> w + vol, entry |-> e]
      BY <2>1
    <3>2. \/ p = pos /\ vol = 0
          \/ p = [volume |-> w + vol, entry |-> (e * w + price * vol) \div (w + vol)]
          \/ p = None /\ w + vol = 0
          \/ p = [pos EXCEPT !.volume = @ + vol]
      BY <1>2, Zenon DEF PositionAfter, w, e
    <3> QED BY <3>1, <3>2
  <2> HIDE DEF p, Goal
  <2> QED BY <2>2, <2>3, <2>4, <2>5
<1> QED BY <1>1, <1>2

LEMMA StepTrade ==
  ASSUME Books, HandleTrade
  PROVE  Books'
<1> DEFINE n == queue.normal
           e == Next_Event
           vol == e.volume
           pos == PositionAfter(m_opened_position, vol, e.price)
           opened == pos # None
           levels == IF opened /\ ~HasTpsl(strategy)
                THEN <<[event |-> "PriceLevels", no_loss_price |-> pos.entry]>> ELSE <<>>
           a == [event |-> "OpenedPosToEntry", opened |-> opened]
           b == [event |-> "OpenedPosToExit", opened |-> opened]
           c == [event |-> "TradeToExit", volume |-> vol, price |-> e.price]
           news == <<a, b, c>>
           l == levels \o news
           K == {"PriceLevels", "OpenedPosToEntry", "OpenedPosToExit", "TradeToExit"}
<1>1. Shapes /\ IsQueue(queue) /\ PositionAgrees
  BY DEF Books, Shapes
<1>2. /\ Follows(queue, Popped, Tail(n)) /\ LotsIn(n) \in Int /\ vol \in Int
      /\ LotsIn(Tail(n)) = LotsIn(n) - vol
  <2>1. "InstanceTrade" \in NormalKinds /\ Runs("InstanceTrade")
    BY DEF NormalKinds, GatewayKinds, HandleTrade
  <2>2. /\ Next_Event = Head(n) /\ Head(n).event = "InstanceTrade"
        /\ Follows(queue, Popped, Tail(n))
        /\ LotsOf(Head(n)) \in Int /\ LotsIn(n) \in Int
        /\ LotsIn(Tail(n)) = LotsIn(n) - LotsOf(Head(n))
    BY <1>1, <2>1, PopNormal
  <2> QED BY <2>2 DEF LotsOf
<1>3. m_opened_position' = pos /\ queue' = WithNormal(Popped, l) /\ gateway' = gateway
  BY DEF HandleTrade
<1>4. IsPosition(pos) /\ Held(m_opened_position) \in Int
      /\ Held(pos) = Held(m_opened_position) + vol
  <2> DEFINE price == e.price
  <2> HIDE DEF vol, price
  <2> QED BY <1>1, <1>2, PositionTraded DEF Shapes, price
<1>5. IsList(l) /\ Kinds(l, K)
  <2>1. IsList(levels) /\ Kinds(levels, K)
    <3> DEFINE d == [event |-> "PriceLevels", no_loss_price |-> pos.entry]
    <3>1. d.event \in K
      OBVIOUS
    <3>2. levels = <<>> \/ levels = <<d>>
      OBVIOUS
    <3> HIDE DEF d, levels, K
    <3>3. IsList(<<d>>) /\ Kinds(<<d>>, K)
      BY <3>1, KindsOfOne
    <3> QED BY <3>2, <3>3, KindsOfNothing
  <2>2. IsList(news) /\ Kinds(news, K)
    <3>1. a.event \in K /\ b.event \in K /\ c.event \in K
      OBVIOUS
    <3> HIDE DEF a, b, c, K
    <3> DEFINE x == <<a>>
               y == <<b>>
               z == <<c>>
    <3>2. /\ IsList(x) /\ Kinds(x, K) /\ IsList(y) /\ Kinds(y, K)
          /\ IsList(z) /\ Kinds(z, K)
      BY <3>1, KindsOfOne
    <3>3. news = (x \o y) \o z
      BY ThreeOfAKind
    <3> HIDE DEF x, y, z, news
    <3>4. IsList(x \o y) /\ Kinds(x \o y, K)
      BY <3>2, KindsConcat
    <3> QED BY <3>2, <3>3, <3>4, KindsConcat
  <2> HIDE DEF levels, news, K
  <2> QED BY <2>1, <2>2, KindsConcat
<1>6. IsQueue(queue') /\ LotsIn(queue'.normal) = LotsIn(n) - vol
  <2>1. K \subseteq NormalKinds \ {"InstanceTrade"}
    BY DEF NormalKinds, GatewayKinds
  <2> DEFINE q == Popped
             t == Tail(n)
  <2>2. IsQueue(q) /\ q.normal = t /\ queue' = WithNormal(q, l)
    BY <1>2, <1>3 DEF Follows
  <2> HIDE DEF q, l, K, t
  <2>3. IsQueue(queue') /\ queue'.normal = t \o l /\ LotsIn(t \o l) = LotsIn(t)
    BY <1>5, <2>1, <2>2, PushOthers DEF Follows
  <2> QED BY <1>2, <2>3 DEF t
<1> HIDE DEF pos, vol, n
<1>7. Shapes'
  BY <1>1, <1>3, <1>4, <1>6 DEF Shapes
<1>8. Held(m_opened_position) + LotsIn(n) = gateway.m_pos_volume
  BY <1>1 DEF PositionAgrees, UnseenVolume, Held, n
<1>9. Held(m_opened_position') + LotsIn(queue'.normal) = gateway'.m_pos_volume
  BY <1>2, <1>3, <1>4, <1>6, <1>8
<1>10. PositionAgrees'
  BY <1>9 DEF PositionAgrees, UnseenVolume, Held
<1> QED BY <1>7, <1>10 DEF Books

LEMMA StepExits ==
  ASSUME Books, exit_on_trade \/ on_price_changed, UNCHANGED instanceVars
  PROVE  Books'
<1>1. Shapes /\ IsQueue(queue)
  BY DEF Books, Shapes
<1>2. PICK k \in {"TradeToExit", "PriceToExit"} : Runs(k)
  BY DEF exit_on_trade, on_price_changed
<1>3. k \in NormalKinds \ {"InstanceTrade"} /\ m_opened_position' = m_opened_position
  BY DEF NormalKinds, GatewayKinds, instanceVars
<1>4. CASE queue' = Popped /\ gateway' = gateway
  BY <1>2, <1>3, <1>4, StepPopped
<1>5. ASSUME \/ \E takeProfit, stopLoss : send_tpsl(takeProfit, stopLoss)
             \/ \E side, distance : send_trailing_stop(side, distance)
      PROVE  Books'
  <2>1. PICK gw : /\ Calls(Discarded(Popped), gw)
                  /\ \/ \E tpsl : gw = push_tpsl_request(gateway, tpsl)
                     \/ \E g, side, distance :
                          gw = push_trailing_stop_request(gateway, g, side, distance)
    <3>1. CASE \E takeProfit, stopLoss : send_tpsl(takeProfit, stopLoss)
      BY <3>1, Zenon DEF send_tpsl
    <3>2. CASE \E side, distance : send_trailing_stop(side, distance)
      BY <3>2, Zenon DEF send_trailing_stop
    <3> QED BY <1>5, <3>1, <3>2
  <2>2. /\ Follows(queue, Popped, Tail(queue.normal))
        /\ LotsIn(Tail(queue.normal)) = LotsIn(queue.normal)
    BY <1>1, <1>2, <1>3, PopOther
  <2> DEFINE q == Popped
  <2>3. IsQueue(q) /\ LotsIn(q.normal) = LotsIn(queue.normal) /\ Calls(Discarded(q), gw)
    BY <2>1, <2>2 DEF Follows
  <2> HIDE DEF q
  <2>4. /\ IsQueue(queue') /\ LotsIn(queue'.normal) = LotsIn(queue.normal)
        /\ IsGateway(gateway') /\ gateway'.events = <<>>
        /\ gateway'.m_pos_volume = gateway.m_pos_volume
    BY <1>1, <2>1, <2>3, SendExitMoves
  <2>5. Shapes'
    BY <1>1, <1>3, <2>4 DEF Shapes
  <2>6. PositionAgrees'
    BY <1>3, <2>4 DEF Books, PositionAgrees, UnseenVolume
  <2> QED BY <2>5, <2>6 DEF Books
<1>6. CASE exit_on_trade
  BY <1>4, <1>5, <1>6 DEF exit_on_trade
<1>7. CASE on_price_changed
  BY <1>4, <1>5, <1>7 DEF on_price_changed
<1> QED BY <1>6, <1>7

LEMMA StepAnswers ==
  ASSUME Books, on_tpsl_reposnse \/ on_trailing_stop_response, UNCHANGED instanceVars
  PROVE  Books'
<1>1. IsQueue(queue)
  BY DEF Books, Shapes
<1>2. PICK k \in {"TpslUpdated", "TrailingUpdated"} : Runs(k)
  BY DEF on_tpsl_reposnse, on_trailing_stop_response
<1>3. k \in NormalKinds \ {"InstanceTrade"} /\ UNCHANGED <<gateway, m_opened_position>>
  BY DEF NormalKinds, GatewayKinds, instanceVars, on_tpsl_reposnse,
         on_trailing_stop_response
<1>4. /\ Follows(queue, Popped, Tail(queue.normal))
      /\ LotsIn(Tail(queue.normal)) = LotsIn(queue.normal)
  BY <1>1, <1>2, <1>3, PopOther
<1>5. queue' = Popped \/ \E g, x : queue' = Notified(Popped, g, x)
  BY DEF on_tpsl_reposnse, on_trailing_stop_response
<1>6. queue' = Popped \/ \E x : queue' = WithNormal(Popped, <<[event |-> "ExitUpdated", guid |-> x]>>)
  BY <1>5 DEF Notified
<1>7. CASE queue' = Popped
  BY <1>2, <1>3, <1>7, StepPopped
<1>8. CASE \E x : queue' = WithNormal(Popped, <<[event |-> "ExitUpdated", guid |-> x]>>)
  <2>1. PICK x : queue' = WithNormal(Popped, <<[event |-> "ExitUpdated", guid |-> x]>>)
    BY <1>8
  <2> DEFINE e == [event |-> "ExitUpdated", guid |-> x]
             l == <<e>>
             K == {"ExitUpdated"}
             q == Popped
  <2>2. e.event \in K /\ K \subseteq NormalKinds \ {"InstanceTrade"}
    BY DEF NormalKinds, GatewayKinds
  <2>3. IsQueue(q) /\ LotsIn(q.normal) = LotsIn(queue.normal) /\ queue' = WithNormal(q, l)
    BY <1>4, <2>1 DEF Follows
  <2> HIDE DEF e, K, q
  <2>4. IsList(l) /\ Kinds(l, K)
    BY <2>2, KindsOfOne
  <2> HIDE DEF l
  <2>5. IsQueue(queue') /\ LotsIn(queue'.normal) = LotsIn(queue.normal)
    BY <2>2, <2>3, <2>4, PushOthers DEF Follows
  <2> QED BY <1>3, <2>5, UnmovedBooks DEF Unmoved
<1> QED BY <1>6, <1>7, <1>8

LEMMA StepUpdated ==
  ASSUME Books, tpsl_on_updated \/ on_trailing_stop_updated, UNCHANGED instanceVars
  PROVE  Books'
<1>1. IsQueue(queue)
  BY DEF Books, Shapes
<1>2. Runs("ExitUpdated") /\ "ExitUpdated" \in NormalKinds \ {"InstanceTrade"}
  BY DEF tpsl_on_updated, on_trailing_stop_updated, NormalKinds, GatewayKinds
<1>3. UNCHANGED <<gateway, m_opened_position>>
  BY DEF instanceVars, tpsl_on_updated, on_trailing_stop_updated
<1>4. /\ Follows(queue, Popped, Tail(queue.normal))
      /\ LotsIn(Tail(queue.normal)) = LotsIn(queue.normal)
  BY <1>1, <1>2, PopOther
<1> DEFINE q == Popped
           d == Discarded(q)
           e == [event |-> "ExitError"]
           K == {"ExitError"}
<1>5. /\ IsQueue(q) /\ LotsIn(q.normal) = LotsIn(queue.normal)
      /\ IsQueue(d) /\ LotsIn(d.normal) = LotsIn(queue.normal)
  <2>1. IsQueue(q) /\ LotsIn(q.normal) = LotsIn(queue.normal)
    BY <1>4 DEF Follows
  <2> HIDE DEF q
  <2> QED BY <2>1, DropNormal DEF Follows
<1>6. \/ queue' = q \/ queue' = d
      \/ \E r \in {q, d}, l \in {<<>>, <<e>>} : queue' = WithNormal(r, l)
  BY DEF tpsl_on_updated, on_trailing_stop_updated
<1>7. \A l \in {<<>>, <<e>>} : IsList(l) /\ Kinds(l, K)
  <2>1. e.event \in K
    OBVIOUS
  <2> HIDE DEF e, K
  <2> QED BY <2>1, KindsOfOne, KindsOfNothing
<1>8. K \subseteq NormalKinds \ {"InstanceTrade"}
  BY DEF NormalKinds, GatewayKinds
<1> HIDE DEF q, d, e, K
<1>9. IsQueue(queue') /\ LotsIn(queue'.normal) = LotsIn(queue.normal)
  <2>1. ASSUME NEW r \in {q, d}, NEW l \in {<<>>, <<e>>}, queue' = WithNormal(r, l)
        PROVE  IsQueue(queue') /\ LotsIn(queue'.normal) = LotsIn(queue.normal)
    <3>1. IsQueue(r) /\ LotsIn(r.normal) = LotsIn(queue.normal)
      BY <1>5
    <3>2. IsList(l) /\ Kinds(l, K)
      BY <1>7
    <3> QED BY <1>8, <2>1, <3>1, <3>2, PushOthers DEF Follows
  <2> QED BY <1>5, <1>6, <2>1
<1> QED BY <1>3, <1>9, UnmovedBooks DEF Unmoved

(* What a price puts into the queue *)
PriceNews(gw0, price, n, gw) ==
  \E a, b, tpsl, t, x, z : \E last \in Int :
    /\ PriceOutcome(gw0, a, b, last, tpsl, t)
    /\ t # None => IsTrailingStop(t)
    /\ gw = Gateway(last, price, tpsl, t, <<>>)
    /\ IsList(x) /\ Kinds(x, {"PriceToExit", "SignalToEntry"})
    /\ IsList(z) /\ Kinds(z, {"PriceToExit", "SignalToEntry"})
    /\ n = (x \o Entries(a \o b)) \o z

LEMMA PriceQueued ==
  ASSUME Shapes, Runs("Price"), NEW price, NEW candles \in 0 .. MaxCandles
  PROVE  LET q  == AfterPrice(price, candles)
             gw == [on_new_price(gateway, price) EXCEPT !.events = <<>>]
         IN  /\ IsQueue(q) /\ LotsIn(queue.normal) = 0
             /\ IsGateway(gw) /\ gw.events = <<>>
             /\ LotsIn(q.normal) = gw.m_pos_volume - gateway.m_pos_volume
             /\ PriceNews(gateway, price, q.normal, gw)
<1> DEFINE K == {"PriceToExit", "SignalToEntry"}
           x == PriceEvents(price)
           z == CandleEvents(candles)
           none == <<>>
<1>0. IsGateway(gateway) /\ gateway.events = <<>> /\ IsQueue(queue)
  BY DEF Shapes
<1>1. IsQueue(Popped) /\ Popped.normal = none /\ LotsIn(queue.normal) = 0
  <2>1. "Price" \in LowKinds
    BY DEF LowKinds
  <2>2. queue.normal = <<>> /\ IsQueue(Popped) /\ Popped.normal = <<>>
    BY <1>0, <2>1, PopLow
  <2> QED BY <2>2, LotsOfNothing
<1>2. PICK a, b, tpsl, t : \E last \in Int :
           /\ PriceOutcome(gateway, a, b, last, tpsl, t)
           /\ on_new_price(gateway, price) = Gateway(last, price, tpsl, t, a \o b)
           /\ IsGateway(on_new_price(gateway, price))
  BY <1>0, PriceAtGateway
<1>3. PICK last \in Int :
           /\ PriceOutcome(gateway, a, b, last, tpsl, t)
           /\ on_new_price(gateway, price) = Gateway(last, price, tpsl, t, a \o b)
           /\ IsGateway(on_new_price(gateway, price))
  BY <1>2
<1> DEFINE ev == a \o b
           g == Gateway(last, price, tpsl, t, ev)
           y == Entries(ev)
           d == last - gateway.m_pos_volume
<1>4. t # None => IsTrailingStop(t)
  <2>1. IsGateway(g)
    BY <1>3
  <2>2. g.m_trailing_stop = t
    BY DEF Gateway
  <2> HIDE DEF g
  <2> QED BY <2>1, <2>2 DEF IsGateway
<1>5. /\ g.events = ev /\ [g EXCEPT !.events = none] = Gateway(last, price, tpsl, t, none)
      /\ on_new_price(gateway, price) = g
  <2> HIDE DEF ev
  <2>1. g.events = ev /\ [g EXCEPT !.events = none] = Gateway(last, price, tpsl, t, none)
    BY <1>4, GatewayRests
  <2> QED BY <1>3, <2>1 DEF ev
<1>6. Moves(y, d)
  BY <1>0, <1>3, PriceEntries
<1>7. IsList(x) /\ Kinds(x, K)
  <2> DEFINE p == [event |-> "PriceToExit", price |-> price]
             s == E("SignalToEntry")
             u == IF HasTpsl(strategy) THEN <<>> ELSE <<p>>
             v == IF ListensToPrice(strategy) THEN <<s>> ELSE <<>>
  <2>1. p.event \in K /\ s.event \in K
    BY DEF E
  <2> HIDE DEF p, s, K
  <2>2. IsList(<<p>>) /\ Kinds(<<p>>, K) /\ IsList(<<s>>) /\ Kinds(<<s>>, K)
    BY <2>1, KindsOfOne
  <2>3. IsList(<<>>) /\ Kinds(<<>>, K)
    BY KindsOfNothing
  <2>4. IsList(u) /\ Kinds(u, K) /\ IsList(v) /\ Kinds(v, K)
    BY <2>2, <2>3
  <2>5. x = u \o v
    BY DEF PriceEvents, p, s
  <2> HIDE DEF u, v, x
  <2> QED BY <2>4, <2>5, KindsConcat
<1>8. IsList(z) /\ Kinds(z, K)
  <2>1. CASE ListensToPrice(strategy)
    <3>1. z = none
      BY <2>1 DEF CandleEvents
    <3> HIDE DEF z, K
    <3> QED BY <3>1, KindsOfNothing
  <2>2. CASE ~ListensToPrice(strategy)
    <3> DEFINE s == E("SignalToEntry")
               w == [i \in 1 .. candles |-> s]
    <3>1. z = w
      BY <2>2 DEF CandleEvents
    <3>2. candles \in Nat
      BY BoundsAreNumbers
    <3>3. s.event \in K
      BY DEF E
    <3> HIDE DEF s, z, K
    <3>4. w \in Seq({s}) /\ Len(w) = candles /\ \A i \in 1 .. candles : w[i] = s
      BY <3>2
    <3> HIDE DEF w
    <3> QED BY <3>1, <3>3, <3>4 DEF IsList, Kinds
  <2> QED BY <2>1, <2>2
<1> DEFINE l == (x \o y) \o z
<1>9. Whole(l) /\ Kinds(l, NormalKinds) /\ LotsIn(l) = d
  <2>1. Whole(x) /\ LotsIn(x) = 0 /\ Whole(z) /\ LotsIn(z) = 0
    <3>1. "InstanceTrade" \notin K
      OBVIOUS
    <3> HIDE DEF K, x, z
    <3> QED BY <1>7, <1>8, <3>1, LotsOfOthers
  <2>2. K \subseteq NormalKinds /\ GatewayKinds \subseteq NormalKinds
    BY DEF NormalKinds
  <2>3. d \in Int
    BY <1>0 DEF IsGateway
  <2> HIDE DEF K, x, y, z, d
  <2>4. Whole(y) /\ LotsIn(y) = d /\ IsList(y)
    BY <1>6 DEF Moves, Whole
  <2>5. Whole(x \o y) /\ LotsIn(x \o y) = d
    BY <2>1, <2>3, <2>4, LotsConcat
  <2>6. Whole(l) /\ LotsIn(l) = d
    BY <2>1, <2>3, <2>5, LotsConcat
  <2>7. Kinds(x, NormalKinds) /\ Kinds(y, NormalKinds) /\ Kinds(z, NormalKinds)
    BY <1>6, <1>7, <1>8, <2>2, KindsSubset DEF Moves
  <2>8. IsList(x \o y) /\ Kinds(x \o y, NormalKinds)
    BY <1>7, <2>4, <2>7, KindsConcat
  <2>9. Kinds(l, NormalKinds)
    BY <1>8, <2>7, <2>8, KindsConcat
  <2> QED BY <2>6, <2>9
<1>10. AfterPrice(price, candles) = WithNormal(Popped, l)
  BY <1>5 DEF AfterPrice
<1>11. LET gw == Gateway(last, price, tpsl, t, none)
       IN  IsGateway(gw) /\ gw.events = none /\ gw.m_pos_volume = last
  <2> HIDE DEF none
  <2> QED BY <1>4, GatewayRests
<1> DEFINE q == Popped
           r == WithNormal(q, l)
<1>12. none \o l = l
  BY <1>9, LiteralLists DEF Whole
<1> HIDE DEF q, l, d, x, y, z, K, g, none
<1>13. IsQueue(r) /\ r.normal = l
  <2>1. IsQueue(q) /\ q.normal = none
    BY <1>1 DEF q
  <2>2. Follows(q, r, q.normal \o l)
    BY <1>9, <2>1, PushNormal
  <2> QED BY <1>12, <2>1, <2>2 DEF Follows
<1> HIDE DEF r
<1>14. AfterPrice(price, candles) = r
  BY <1>10 DEF r, q
<1>15. [on_new_price(gateway, price) EXCEPT !.events = none] = Gateway(last, price, tpsl, t, none)
  BY <1>5
<1>16. d = last - gateway.m_pos_volume
  BY DEF d
<1>17. PriceNews(gateway, price, l, Gateway(last, price, tpsl, t, none))
  BY <1>3, <1>4, <1>7, <1>8, Zenon DEF PriceNews, l, y, K, none
<1> QED BY <1>1, <1>9, <1>11, <1>13, <1>14, <1>15, <1>16, <1>17 DEF none

LEMMA StepPrice ==
  ASSUME Books, NEW price, NEW candles \in 0 .. MaxCandles, HandlePrice(price, candles)
  PROVE  Books'
<1> DEFINE q  == AfterPrice(price, candles)
           gw == [on_new_price(gateway, price) EXCEPT !.events = <<>>]
           l  == <<E("Stop")>>
           K  == {"Stop"}
<1>1. Shapes /\ PositionAgrees
  BY DEF Books
<1>2. gateway' = gw /\ m_opened_position' = m_opened_position /\ Runs("Price")
  BY DEF HandlePrice
<1>3. /\ IsQueue(q) /\ LotsIn(queue.normal) = 0
      /\ IsGateway(gw) /\ gw.events = <<>>
      /\ LotsIn(q.normal) = gw.m_pos_volume - gateway.m_pos_volume
      /\ PriceNews(gateway, price, q.normal, gw)
  BY <1>1, <1>2, PriceQueued
<1>4. \/ queue' = q \/ queue' = WithNormal(q, l)
      \/ queue' = [q EXCEPT !.low = Append(@, E("Price"))]
  BY DEF HandlePrice, NextPrice
<1>5. IsList(l) /\ Kinds(l, K) /\ K \subseteq NormalKinds \ {"InstanceTrade"}
  BY KindsOfOne DEF E, NormalKinds, GatewayKinds
<1> HIDE DEF q, l, K, gw
<1>6. IsQueue(queue') /\ LotsIn(queue'.normal) = LotsIn(q.normal)
  <2>1. CASE queue' = WithNormal(q, l)
    BY <1>3, <1>5, <2>1, PushOthers DEF Follows
  <2>2. CASE queue' = [q EXCEPT !.low = Append(@, E("Price"))]
    BY <1>3, <2>2, PricePushed
  <2> QED BY <1>3, <1>4, <2>1, <2>2
<1>7. Held(m_opened_position) \in Int /\ gateway.m_pos_volume \in Int /\ gw.m_pos_volume \in Int
  BY <1>1, <1>3 DEF Shapes, Held, IsPosition, IsGateway
<1>8. Held(m_opened_position) = gateway.m_pos_volume
  BY <1>1, <1>3, <1>7 DEF PositionAgrees, UnseenVolume, Held
<1>9. Held(m_opened_position') + LotsIn(queue'.normal) = gateway'.m_pos_volume
  BY <1>2, <1>3, <1>6, <1>7, <1>8
<1>10. PositionAgrees'
  BY <1>9 DEF PositionAgrees, UnseenVolume, Held
<1>11. Shapes'
  BY <1>1, <1>2, <1>3, <1>6 DEF Shapes
<1> QED BY <1>10, <1>11 DEF Books

LEMMA StepBooks ==
  ASSUME started, Books, [Next]_vars
  PROVE  Books'
<1>1. CASE Next
  <2>1. ASSUME ExitHandlers, UNCHANGED instanceVars PROVE Books'
    BY <2>1, StepAnswers, StepTakers, StepExits, StepUpdated DEF ExitHandlers
  <2>2. ~HandleStart
    BY NeverStart DEF HandleStart
  <2>3. ASSUME LoopStep PROVE Books'
    BY <2>1, <2>2, <2>3, StepTakers, StepGenerator, StepPrice, StepOrders, StepTrade,
       StepErrors DEF LoopStep
  <2> QED BY <1>1, <2>3, StepOtherThreads DEF Next
<1>2. CASE UNCHANGED vars
  <2>1. UNCHANGED <<queue, gateway, m_opened_position>>
    BY <1>2 DEF vars, instanceVars
  <2>2. Unmoved
    BY <2>1 DEF Unmoved, Books, Shapes
  <2> QED BY <2>2, UnmovedBooks
<1> QED BY <1>1, <1>2

-----------------------------------------------------------------------------
(* Before the instance handles its start *)

Idle ==
  /\ gateway = Gateway(0, 0, None, None, <<>>)
  /\ m_opened_position = None /\ m_has_opened_pos = FALSE
  /\ m_stop_request_handled = FALSE /\ m_orders = {}
  /\ m_tpsl = None /\ m_trailing_stop = None
  /\ issued = {} /\ exitOrder = [g \in ExitOrders |-> NoOrder]
  /\ m_active_exit = None /\ m_exit_sub = None /\ exitErrors = {} /\ no_loss_price = 0
  /\ created = {} /\ traded = {} /\ strayResponses = {}
  /\ unsolicited = [g \in Fillable |-> 0]
  /\ m_status_on_stop = "Stopped"

Waiting ==
  IF started
  THEN \E stops : /\ queue.normal = <<E("Start")>> \o stops
                  /\ IsList(stops) /\ Kinds(stops, {"Stop"})
  ELSE queue.normal = <<>>

Before ==
  /\ Idle /\ m_pending_request = FALSE /\ m_status = "Stopped"
  /\ queue = Lists(<<>>, queue.normal, queue.low)
  /\ IsList(queue.low) /\ Kinds(queue.low, {"GeneratorForeign"})
  /\ Waiting

LEMMA StartWaits ==
  ASSUME NEW stops, IsList(stops)
  PROVE  LET n == <<E("Start")>> \o stops
         IN  n # <<>> /\ Head(n) = E("Start") /\ Tail(n) = stops /\ IsList(n)
<1> DEFINE e == E("Start")
           o == <<e>>
           n == o \o stops
<1>1. IsList(o) /\ Len(o) = 1 /\ o[1] = e
  BY LiteralLists
<1> HIDE DEF e, o
<1>2. PICK S : o \in Seq(S) /\ stops \in Seq(S)
  BY <1>1, CommonSet
<1>3. /\ n \in Seq(S) /\ Len(n) = 1 + Len(stops) /\ n[1] = o[1]
      /\ \A i \in 1 .. Len(stops) : n[1 + i] = stops[i]
  BY <1>1, <1>2, ConcatProperties
<1>4. n # <<>> /\ Head(n) = e
  BY <1>1, <1>2, <1>3
<1>5. Tail(n) = stops
  BY <1>1, <1>2, <1>3, <1>4
<1> QED BY <1>3, <1>4, <1>5 DEF e, o, IsList

LEMMA StartedStays ==
  ASSUME started, [Next]_vars
  PROVE  started'
<1>1. CASE HandleStart \/ HandleGenerator
  BY <1>1 DEF HandleStart, HandleGenerator, envVars
<1>2. CASE \E price \in Prices, candles \in 0 .. MaxCandles : HandlePrice(price, candles)
  BY <1>2 DEF HandlePrice, envVars
<1>3. CASE \E side \in {-1, 0, 1} : HandleSignal(side)
  BY <1>3 DEF HandleSignal, instanceVars, envVars
<1>4. CASE HandleOpenedPos \/ HandleOrderResponse \/ HandleOrderTrade \/ HandleTrade
  BY <1>4 DEF HandleOpenedPos, HandleOrderResponse, HandleOrderTrade, HandleTrade,
         instanceVars, envVars
<1>5. CASE HandleStop \/ HandleStopThrows \/ ForwardError \/ HandleError
  BY <1>5 DEF HandleStop, HandleStopThrows, ForwardError, HandleError, instanceVars, envVars
<1>6. CASE UNCHANGED instanceVars
  BY <1>6 DEF instanceVars, envVars
<1>7. CASE run_async \/ stop_async \/ AnswerOwn \/ AnswerForeign
  BY <1>7 DEF run_async, stop_async, AnswerOwn, AnswerForeign, instanceVars, envVars
<1>8. CASE UNCHANGED vars
  BY <1>8 DEF vars, instanceVars, envVars
<1> QED BY <1>1, <1>2, <1>3, <1>4, <1>5, <1>6, <1>7, <1>8 DEF Next, LoopStep

(* Nothing of what the strategy waits for comes before the start. *)
LEMMA LoopRuns ==
  ASSUME LoopStep, ~HandleStart, ~HandleGenerator
  PROVE  \E k \in NormalKinds \cup {"Error", "Price"} : Runs(k)
<1> DEFINE K == NormalKinds \cup {"Error", "Price"}
<1>1. CASE \E price \in Prices, candles \in 0 .. MaxCandles : HandlePrice(price, candles)
  BY <1>1 DEF HandlePrice
<1>2. CASE \E side \in {-1, 0, 1} : HandleSignal(side)
  BY <1>2 DEF HandleSignal, NormalKinds
<1>3. CASE HandleOpenedPos \/ HandleOrderResponse \/ HandleOrderTrade \/ HandleTrade
  <2>1. {"OpenedPosToEntry", "OrderResponse", "Trade", "InstanceTrade"} \subseteq K
    BY DEF NormalKinds, GatewayKinds
  <2> HIDE DEF K
  <2>2. \E k \in K : Runs(k)
    BY <1>3, <2>1 DEF HandleOpenedPos, HandleOrderResponse, HandleOrderTrade, HandleTrade
  <2> QED BY <2>2 DEF K
<1>4. CASE HandleStop \/ HandleStopThrows \/ ForwardError \/ HandleError
  <2>1. {"Stop", "ExitError", "Error"} \subseteq K
    BY DEF NormalKinds, GatewayKinds
  <2> HIDE DEF K
  <2>2. \E k \in K : Runs(k)
    BY <1>4, <2>1 DEF HandleStop, HandleStopThrows, ForwardError, HandleError
  <2> QED BY <2>2 DEF K
<1>5. CASE ExitHandlers
  <2>1. {"TpslUpdated", "TrailingUpdated", "Trade", "OpenedPosToExit", "PriceLevels",
         "TradeToExit", "ExitUpdated", "PriceToExit"} \subseteq K
    BY DEF NormalKinds, GatewayKinds
  <2> HIDE DEF K
  <2>2. ASSUME on_tpsl_reposnse \/ on_trailing_stop_response \/ on_exit_trade
        PROVE  \E k \in K : Runs(k)
    BY <2>1, <2>2 DEF on_tpsl_reposnse, on_trailing_stop_response, on_exit_trade
  <2>3. ASSUME exit_on_opened_pos \/ exit_on_price_levels \/ exit_on_trade
        PROVE  \E k \in K : Runs(k)
    BY <2>1, <2>3 DEF exit_on_opened_pos, exit_on_price_levels, exit_on_trade
  <2>4. ASSUME tpsl_on_updated \/ on_trailing_stop_updated \/ on_price_changed
        PROVE  \E k \in K : Runs(k)
    BY <2>1, <2>4 DEF tpsl_on_updated, on_trailing_stop_updated, on_price_changed
  <2>5. \E k \in K : Runs(k)
    BY <1>5, <2>2, <2>3, <2>4 DEF ExitHandlers
  <2> QED BY <2>5 DEF K
<1> QED BY <1>1, <1>2, <1>3, <1>4, <1>5 DEF LoopStep

LEMMA BeforeRuns ==
  ASSUME Before
  PROVE  /\ ~Runs("GeneratorOwn")
         /\ \A k \in NormalKinds \cup {"Error", "Price"} : ~Runs(k)
         /\ Runs("Start") => started /\ Popped = [queue EXCEPT !.normal = Tail(@)]
         /\ Runs("GeneratorForeign") =>
              queue.normal = <<>> /\ queue.low # <<>> /\ Popped = [queue EXCEPT !.low = Tail(@)]
<1>1. queue.high = <<>>
  <2>1. \A n, l : Lists(<<>>, n, l).high = <<>>
    BY DEF Lists
  <2> QED BY <2>1 DEF Before
<1>2. queue.normal # <<>> => started /\ Head(queue.normal).event = "Start"
  <2>1. CASE started
    <3>1. PICK stops : queue.normal = <<E("Start")>> \o stops /\ IsList(stops)
      BY <2>1 DEF Before, Waiting
    <3>2. Head(queue.normal) = E("Start")
      BY <3>1, StartWaits
    <3> QED BY <2>1, <3>2 DEF E
  <2> QED BY <2>1 DEF Before, Waiting
<1>3. queue.low # <<>> => Head(queue.low).event \in {"GeneratorForeign"}
  BY KindsTail DEF Before
<1>4. ~Runs("GeneratorOwn") /\ \A k \in NormalKinds \cup {"Error", "Price"} : ~Runs(k)
  BY <1>1, <1>2, <1>3 DEF Runs, Next_Event, NormalKinds, GatewayKinds
<1>5. Runs("Start") => queue.normal # <<>>
  BY <1>1, <1>3 DEF Runs, Next_Event
<1>6. Runs("GeneratorForeign") => queue.normal = <<>> /\ queue.low # <<>>
  BY <1>1, <1>2 DEF Runs, Next_Event
<1>7. queue.normal # <<>> => Popped = [queue EXCEPT !.normal = Tail(queue.normal)]
  BY <1>1 DEF Popped
<1>8. queue.normal = <<>> => Popped = [queue EXCEPT !.low = Tail(queue.low)]
  BY <1>1 DEF Popped
<1> QED BY <1>2, <1>4, <1>5, <1>6, <1>7, <1>8

(* What the start leaves to the loop: stops, if anything *)
Fresh ==
  /\ Idle /\ started /\ m_status # "Panic"
  /\ IsQueue(queue) /\ Kinds(queue.normal, {"Stop"})

LEMMA BeforeStep ==
  ASSUME Before, [Next]_vars
  PROVE  Before' \/ Fresh'
<1> DEFINE n == queue.normal
           l == queue.low
           e == <<>>
<1>1. queue = Lists(e, n, l) /\ IsList(l) /\ Kinds(l, {"GeneratorForeign"}) /\ Waiting
  BY DEF Before
<1>2. CASE UNCHANGED vars
  <2>1. UNCHANGED <<gateway, m_opened_position, m_has_opened_pos, m_stop_request_handled,
                    m_orders, m_tpsl, m_trailing_stop, issued, exitOrder,
                    m_active_exit, m_exit_sub, exitErrors, no_loss_price, created,
                    traded, strayResponses, unsolicited,
                    m_status_on_stop, m_pending_request, m_status, queue, started>>
    BY <1>2 DEF vars, instanceVars, omExitVars, exitVars, omVars, stopVars, mdVars, endVars, envVars
  <2> QED BY <2>1 DEF Before, Idle, Waiting
<1>3. CASE run_async
  <2> DEFINE o == <<E("Start")>>
  <2>1. /\ Idle' /\ ~m_pending_request' /\ m_status' = "Stopped" /\ started' /\ ~started
    <3>1. UNCHANGED <<gateway, m_opened_position, m_has_opened_pos, m_stop_request_handled,
                      m_orders, m_tpsl, m_trailing_stop, issued, exitOrder,
                      m_active_exit, m_exit_sub, exitErrors, no_loss_price, created,
                      traded, strayResponses, unsolicited,
                      m_status_on_stop, m_pending_request, m_status>>
      BY <1>3 DEF run_async, omExitVars, exitVars, omVars, stopVars, mdVars, endVars
    <3> QED BY <1>3, <3>1 DEF Before, Idle, run_async
  <2>2. queue' = [queue EXCEPT !.normal = n \o o] /\ n = e
    BY <1>1, <1>3, <2>1 DEF run_async, Push, Waiting
  <2>3. n \o o = o \o e
    BY <2>2, LiteralLists
  <2>4. IsList(e) /\ Kinds(e, {"Stop"})
    BY KindsOfNothing
  <2> DEFINE m == o \o e
  <2> HIDE DEF n, l, o, m, e
  <2>5. queue' = Lists(e, m, l)
    BY <1>1, <2>2, <2>3 DEF Lists, m
  <2>6. queue' = Lists(e, queue'.normal, queue'.low) /\ queue'.low = l /\ queue'.normal = m
    BY <2>5 DEF Lists
  <2> QED BY <1>1, <2>1, <2>4, <2>6 DEF Before, Waiting, m, o, e
<1>4. CASE stop_async
  <2> DEFINE o == <<E("Stop")>>
             s == <<E("Start")>>
  <2>1. /\ Idle' /\ ~m_pending_request' /\ m_status' = "Stopped" /\ started' /\ started
    <3>1. UNCHANGED <<gateway, m_opened_position, m_has_opened_pos, m_stop_request_handled,
                      m_orders, m_tpsl, m_trailing_stop, issued, exitOrder,
                      m_active_exit, m_exit_sub, exitErrors, no_loss_price, created,
                      traded, strayResponses, unsolicited,
                      m_status_on_stop, m_pending_request, m_status, started>>
      BY <1>4 DEF stop_async, omExitVars, exitVars, omVars, stopVars, mdVars, endVars
    <3> QED BY <1>4, <3>1 DEF Before, Idle, stop_async
  <2>2. PICK stops : n = s \o stops /\ IsList(stops) /\ Kinds(stops, {"Stop"})
    BY <1>1, <2>1 DEF Waiting
  <2>3. queue' = [queue EXCEPT !.normal = n \o o]
    BY <1>4 DEF stop_async, Push
  <2>4. IsList(o) /\ Kinds(o, {"Stop"}) /\ IsList(s)
    <3>1. IsList(o) /\ Kinds(o, {"Stop"})
      BY KindsOfOne DEF E
    <3>2. IsList(s)
      BY LiteralLists
    <3> QED BY <3>1, <3>2
  <2> DEFINE t == stops \o o
             m == s \o t
  <2> HIDE DEF n, l, o, s, e
  <2>5. n \o o = m /\ IsList(t) /\ Kinds(t, {"Stop"})
    BY <2>2, <2>4, ListAssociative, KindsConcat
  <2> HIDE DEF m, t
  <2>6. queue' = Lists(e, m, l)
    BY <1>1, <2>3, <2>5 DEF Lists
  <2>7. queue' = Lists(e, queue'.normal, queue'.low) /\ queue'.low = l /\ queue'.normal = m
    BY <2>6 DEF Lists
  <2> QED BY <1>1, <2>1, <2>5, <2>7 DEF Before, Waiting, m, s, e
<1>5. ~AnswerOwn
  BY DEF AnswerOwn, Before
<1>6. CASE AnswerForeign
  <2> DEFINE o == <<E("GeneratorForeign")>>
             m == l \o o
  <2>1. /\ Idle' /\ ~m_pending_request' /\ m_status' = "Stopped" /\ started' = started
    <3>1. UNCHANGED <<gateway, m_opened_position, m_has_opened_pos, m_stop_request_handled,
                      m_orders, m_tpsl, m_trailing_stop, issued, exitOrder,
                      m_active_exit, m_exit_sub, exitErrors, no_loss_price, created,
                      traded, strayResponses, unsolicited,
                      m_status_on_stop, m_pending_request, m_status, started>>
      BY <1>6 DEF AnswerForeign, omExitVars, exitVars, omVars, stopVars, mdVars, endVars
    <3> QED BY <3>1 DEF Before, Idle
  <2>2. queue' = [queue EXCEPT !.low = m]
    BY <1>6 DEF AnswerForeign, Push
  <2>3. IsList(o) /\ Kinds(o, {"GeneratorForeign"})
    BY KindsOfOne DEF E
  <2> HIDE DEF n, l, o, e
  <2>4. IsList(m) /\ Kinds(m, {"GeneratorForeign"})
    BY <1>1, <2>3, KindsConcat
  <2> HIDE DEF m
  <2>5. queue' = Lists(e, n, m)
    BY <1>1, <2>2 DEF Lists
  <2>6. queue' = Lists(e, queue'.normal, queue'.low) /\ queue'.low = m /\ queue'.normal = n
    BY <2>5 DEF Lists
  <2> QED BY <1>1, <2>1, <2>4, <2>6 DEF Before, Waiting, e, n
<1>7. CASE HandleGenerator
  <2>1. Runs("GeneratorForeign") /\ ~Runs("GeneratorOwn")
    BY <1>7, BeforeRuns DEF HandleGenerator
  <2>2. n = e /\ l # <<>> /\ Popped = [queue EXCEPT !.low = Tail(l)]
    BY <2>1, BeforeRuns
  <2>3. queue' = Popped /\ UNCHANGED mdVars
    BY <1>7, <2>1 DEF HandleGenerator
  <2>4. /\ Idle' /\ ~m_pending_request' /\ started' = started
    <3>1. UNCHANGED <<gateway, m_opened_position, m_has_opened_pos, m_stop_request_handled,
                      m_orders, m_tpsl, m_trailing_stop, issued, exitOrder,
                      m_active_exit, m_exit_sub, exitErrors, no_loss_price, created,
                      traded, strayResponses, unsolicited,
                      m_status_on_stop, m_pending_request, started>>
      BY <1>7, <2>3 DEF HandleGenerator, omExitVars, exitVars, omVars, stopVars, mdVars, envVars
    <3> QED BY <3>1 DEF Before, Idle
  <2>5. m_status' = "Stopped"
    BY <1>7, <2>4 DEF HandleGenerator, after_every_event, Before, Idle
  <2> DEFINE m == Tail(l)
  <2>6. IsList(m) /\ Kinds(m, {"GeneratorForeign"})
    BY <1>1, <2>2, KindsTail
  <2>7. queue' = [queue EXCEPT !.low = m]
    BY <2>2, <2>3
  <2> HIDE DEF m, n, l, e
  <2>8. queue' = Lists(e, n, m)
    BY <1>1, <2>7 DEF Lists
  <2>9. queue' = Lists(e, queue'.normal, queue'.low) /\ queue'.low = m /\ queue'.normal = n
    BY <2>8 DEF Lists
  <2> QED BY <1>1, <2>4, <2>5, <2>6, <2>9 DEF Before, Waiting, e, n
<1>8. CASE HandleStart
  <2> DEFINE s == <<E("Start")>>
  <2>1. started /\ Popped = [queue EXCEPT !.normal = Tail(n)] /\ queue' = Popped
    BY <1>8, BeforeRuns DEF HandleStart
  <2>2. PICK stops : n = s \o stops /\ IsList(stops) /\ Kinds(stops, {"Stop"})
    BY <1>1, <2>1 DEF Waiting
  <2>3. Tail(n) = stops
    BY <2>2, StartWaits
  <2>4. Idle' /\ started' /\ m_status' # "Panic"
    <3>1. UNCHANGED <<gateway, m_opened_position, m_has_opened_pos, m_stop_request_handled,
                      m_orders, m_tpsl, m_trailing_stop, issued, exitOrder,
                      m_active_exit, m_exit_sub, exitErrors, no_loss_price, created,
                      traded, strayResponses, unsolicited,
                      m_status_on_stop, started>>
      BY <1>8 DEF HandleStart, omExitVars, exitVars, omVars, stopVars, envVars
    <3>2. m_status' \in {m_status_on_stop', "Backtesting"}
      BY <1>8 DEF HandleStart, after_every_event
    <3> QED BY <2>1, <3>1, <3>2 DEF Before, Idle
  <2>5. queue' = [queue EXCEPT !.normal = stops]
    BY <2>1, <2>3
  <2>6. /\ IsList(e) /\ Kinds(e, {"Error"}) /\ Kinds(l, LowKinds)
        /\ Whole(stops) /\ Kinds(stops, NormalKinds)
    <3>1. Kinds(l, LowKinds)
      BY <1>1, KindsSubset DEF LowKinds
    <3>2. Kinds(stops, NormalKinds) /\ Whole(stops)
      BY <2>2, KindsSubset, LotsOfOthers DEF NormalKinds
    <3> QED BY <3>1, <3>2, KindsOfNothing
  <2> HIDE DEF n, l, e
  <2>7. queue' = Lists(e, stops, l)
    BY <1>1, <2>5 DEF Lists
  <2>8. IsQueue(queue') /\ queue'.normal = stops
    BY <1>1, <2>6, <2>7, QueueIs
  <2> QED BY <2>2, <2>4, <2>8 DEF Fresh
<1>9. Next \/ UNCHANGED vars
  OBVIOUS
<1>10. ASSUME LoopStep PROVE HandleStart \/ HandleGenerator
  BY <1>10, BeforeRuns, LoopRuns
<1> QED BY <1>2, <1>3, <1>4, <1>5, <1>6, <1>7, <1>8, <1>9, <1>10 DEF Next

LEMMA InitBefore ==
  ASSUME Init
  PROVE  Before
<1> DEFINE n == <<>>
<1>1. queue = Lists(n, n, n) /\ queue.normal = n /\ queue.low = n
  BY DEF Init, Init_ExitStrategies, Lists
<1>2. IsList(n) /\ Kinds(n, {"GeneratorForeign"})
  BY KindsOfNothing
<1>3. Idle
  BY DEF Init, Init_ExitStrategies, Init_OrderManager, EmptyGateway, Gateway, Idle
<1>4. m_pending_request = FALSE /\ m_status = "Stopped" /\ started = FALSE
  BY DEF Init
<1> QED BY <1>1, <1>2, <1>3, <1>4 DEF Before, Waiting

LEMMA IdleGateway ==
  ASSUME Idle
  PROVE  /\ IsGateway(gateway) /\ gateway.events = <<>> /\ gateway.m_pos_volume = 0
         /\ gateway.m_tpsl = None /\ gateway.m_trailing_stop = None
<1> DEFINE n == <<>>
<1>1. gateway = Gateway(0, 0, None, None, n)
  BY DEF Idle
<1> HIDE DEF n
<1>2. /\ gateway.m_pos_volume = 0 /\ gateway.m_last_price = 0 /\ gateway.m_tpsl = None
      /\ gateway.m_trailing_stop = None /\ gateway.events = n
  BY <1>1 DEF Gateway
<1> QED BY <1>1, <1>2 DEF IsGateway, n

LEMMA FreshBooks ==
  ASSUME Fresh
  PROVE  Books
<1>1. Shapes
  BY IdleGateway DEF Fresh, Idle, Shapes, IsPosition
<1>2. LotsIn(queue.normal) = 0
  BY LotsOfOthers DEF Fresh, IsQueue, Whole
<1>3. gateway.m_pos_volume = 0 /\ m_opened_position = None
  <2>1. Idle
    BY DEF Fresh
  <2> QED BY <2>1, IdleGateway DEF Idle
<1>4. PositionAgrees
  BY <1>2, <1>3 DEF PositionAgrees, UnseenVolume
<1> QED BY <1>1, <1>4 DEF Books

LEMMA FreshBooksNext == (Fresh => started /\ Books /\ m_status # "Panic")'
<1>1. Fresh => started /\ Books /\ m_status # "Panic"
  BY FreshBooks DEF Fresh
<1> QED BY <1>1, PTL

LEMMA BeforeAgrees ==
  ASSUME Before
  PROVE  PositionAgrees
<1>1. LotsIn(queue.normal) = 0
  <2>1. CASE started
    <3> DEFINE s == <<E("Start")>>
               K == {"Start", "Stop"}
    <3>1. PICK stops : queue.normal = s \o stops /\ IsList(stops) /\ Kinds(stops, {"Stop"})
      BY <2>1 DEF Before, Waiting
    <3>2. IsList(s) /\ Kinds(s, K)
      <4>1. E("Start").event \in K
        BY DEF E
      <4> HIDE DEF K
      <4> QED BY <4>1, KindsOfOne
    <3>3. Kinds(stops, K) /\ "InstanceTrade" \notin K
      BY <3>1, KindsSubset
    <3> HIDE DEF s, K
    <3> QED BY <3>1, <3>2, <3>3, KindsConcat, LotsOfOthers
  <2> QED BY <2>1, LotsOfNothing DEF Before, Waiting
<1>2. gateway.m_pos_volume = 0 /\ m_opened_position = None
  <2>1. Idle
    BY DEF Before
  <2> QED BY <2>1, IdleGateway DEF Idle
<1> QED BY <1>1, <1>2 DEF PositionAgrees, UnseenVolume

(* The inductive invariant of the books *)
BooksAgree == Before \/ (started /\ Books)

LEMMA InitKept == Init => BooksAgree
BY InitBefore DEF BooksAgree

LEMMA StepKept == BooksAgree /\ [Next]_vars => BooksAgree'
<1> SUFFICES ASSUME BooksAgree, [Next]_vars PROVE BooksAgree'
  OBVIOUS
<1>1. CASE started /\ Books
  BY <1>1, StartedStays, StepBooks DEF BooksAgree
<1>2. CASE Before
  <2>1. Before' \/ Fresh'
    BY <1>2, BeforeStep
  <2> QED BY <2>1, FreshBooksNext DEF BooksAgree
<1> QED BY <1>1, <1>2 DEF BooksAgree

(* The position that the instance computes from its trades is the gateway's, up to
   the trades that still wait in its loop: OpenedPosition and PositionManager against
   BacktestTradingGateway::m_pos_volume, through entries, exits and stops. *)
THEOREM InstanceKnowsItsPosition == Spec => []PositionAgrees
<1>1. BooksAgree => PositionAgrees
  BY BeforeAgrees DEF BooksAgree, Books
<1> QED BY <1>1, InitKept, StepKept, PTL DEF Spec

-----------------------------------------------------------------------------
(* Panic *)
PanicNoted ==
  \/ Before
  \/ started /\ Books /\ (m_status = "Panic" => m_status_on_stop = "Panic")

LEMMA StatusSteps ==
  ASSUME started, Books, [Next]_vars
  PROVE  \/ UNCHANGED m_status_on_stop /\ m_status' \in {m_status, m_status_on_stop}
         \/ m_status' = "Panic" /\ m_status_on_stop' = "Panic"
<1>1. ~HandleStart
  BY NeverStart DEF HandleStart
<1>2. CASE HandleGenerator
  BY <1>2 DEF HandleGenerator, after_every_event, stopVars
<1>3. CASE \E price \in Prices, candles \in 0 .. MaxCandles : HandlePrice(price, candles)
  BY <1>3 DEF HandlePrice, after_every_event, stopVars
<1>4. CASE \E side \in {-1, 0, 1} : HandleSignal(side)
  BY <1>4 DEF HandleSignal, instanceVars, stopVars, endVars
<1>5. CASE HandleOpenedPos \/ HandleOrderResponse \/ HandleOrderTrade
  BY <1>5 DEF HandleOpenedPos, HandleOrderResponse, HandleOrderTrade, instanceVars,
         stopVars, endVars
<1>6. CASE HandleTrade
  BY <1>6 DEF HandleTrade, after_every_event, stopVars
<1>7. CASE HandleStop
  BY <1>7 DEF HandleStop, after_every_event
<1>8. CASE HandleStopThrows \/ ForwardError
  BY <1>8 DEF HandleStopThrows, ForwardError, instanceVars, stopVars, endVars
<1>9. CASE HandleError
  BY <1>9 DEF HandleError
<1>10. CASE UNCHANGED instanceVars
  BY <1>10 DEF instanceVars, stopVars, endVars
<1>11. CASE run_async \/ stop_async \/ AnswerOwn \/ AnswerForeign
  BY <1>11 DEF run_async, stop_async, AnswerOwn, AnswerForeign, instanceVars, stopVars, endVars
<1>12. CASE UNCHANGED vars
  BY <1>12 DEF vars, instanceVars, stopVars, endVars
<1> QED BY <1>1, <1>2, <1>3, <1>4, <1>5, <1>6, <1>7, <1>8, <1>9, <1>10, <1>11, <1>12
        DEF Next, LoopStep

LEMMA PanicStep ==
  ASSUME PanicNoted, [Next]_vars
  PROVE  PanicNoted' /\ (m_status = "Panic" => m_status' = "Panic")
<1>1. CASE started /\ Books /\ (m_status = "Panic" => m_status_on_stop = "Panic")
  BY <1>1, StartedStays, StepBooks, StatusSteps DEF PanicNoted
<1>2. CASE Before
  <2>1. Before' \/ Fresh'
    BY <1>2, BeforeStep
  <2>2. m_status # "Panic"
    BY <1>2 DEF Before
  <2> QED BY <2>1, <2>2, FreshBooksNext DEF PanicNoted
<1> QED BY <1>1, <1>2 DEF PanicNoted

(* A panic stays shown: the stop that it asks for, the end of the backtest and a late
   answer of the market data gateway leave it, because the handler of the error also
   notes it as the status of the stop (StrategyInstance.cpp, m_status_on_stop). *)
THEOREM PanicStays == Spec => PanicIsKept
<1>1. Init => PanicNoted
  BY InitBefore DEF PanicNoted
<1>2. PanicNoted /\ [Next]_vars => PanicNoted'
  BY PanicStep
<1>3. PanicNoted /\ [Next]_vars => [m_status = "Panic" => m_status' = "Panic"]_vars
  BY PanicStep
<1> QED BY <1>1, <1>2, <1>3, PTL DEF Spec, PanicIsKept

-----------------------------------------------------------------------------
(* What the handlers leave of the list they take their event from, and push behind it *)
Rest(n) ==
  \/ n = queue.normal
  \/ /\ queue.normal # <<>>
     /\ \/ n = Tail(queue.normal)
        \/ \E D : (\A d \in D : d.event = "ExitUpdated") /\ n = Without(Tail(queue.normal), D)

(* The news of kind k are the same. *)
Passes(k) ==
  \A e0, e : Final(queue.normal, k, e0, e) => Final(queue'.normal, k, e0, e)

LEMMA RestIsList ==
  ASSUME IsQueue(queue), NEW n, Rest(n)
  PROVE  IsList(n)
<1>1. IsList(queue.normal)
  BY DEF IsQueue, Whole
<1>2. queue.normal # <<>> => IsList(Tail(queue.normal))
  BY <1>1, ListTail
<1> QED BY <1>1, <1>2, ListWithout DEF Rest

LEMMA RestPasses ==
  ASSUME IsQueue(queue), NEW k, k # "ExitUpdated", NEW n, Rest(n),
         n = queue.normal \/ Head(queue.normal).event # k,
         NEW l, IsList(l), NoneOf(l, k), queue'.normal = n \o l
  PROVE  Passes(k)
<1> SUFFICES ASSUME NEW e0, NEW e, Final(queue.normal, k, e0, e)
             PROVE  Final(queue'.normal, k, e0, e)
  BY DEF Passes
<1> DEFINE q == queue.normal
<1>1. IsList(q) /\ IsList(n)
  BY RestIsList DEF IsQueue, Whole
<1>2. Final(n, k, e0, e)
  <2>1. CASE n = q
    BY <2>1
  <2>2. CASE n # q
    <3>1. q # <<>> /\ Head(q).event # k
      BY <2>2 DEF Rest
    <3>2. IsList(Tail(q)) /\ Final(Tail(q), k, e0, e)
      <4> HIDE DEF q
      <4> QED BY <1>1, <3>1, FinalTail, ListTail DEF q
    <3>3. CASE n = Tail(q)
      BY <3>2, <3>3
    <3>4. CASE \E D : (\A d \in D : d.event = "ExitUpdated") /\ n = Without(Tail(q), D)
      <4>1. PICK D : (\A d \in D : d.event = "ExitUpdated") /\ n = Without(Tail(q), D)
        BY <3>4
      <4>2. \A d \in D : d.event # k
        BY <4>1
      <4> DEFINE t == Tail(q)
      <4> HIDE DEF t
      <4>3. Final(Without(t, D), k, e0, e)
        BY <3>2, <4>2, FinalWithout DEF t
      <4> QED BY <4>1, <4>3 DEF t
    <3> QED BY <2>2, <3>3, <3>4 DEF Rest
  <2> QED BY <2>1, <2>2
<1>3. Final(n \o l, k, e0, e)
  BY <1>1, <1>2, FinalConcat
<1> QED BY <1>3

LEMMA TakesHead ==
  ASSUME Books, NEW k, k \in NormalKinds, Runs(k)
  PROVE  /\ IsQueue(queue) /\ IsQueue(Popped) /\ queue.normal # <<>>
         /\ Next_Event = Head(queue.normal) /\ Head(queue.normal).event = k
         /\ Popped.normal = Tail(queue.normal)
BY PopNormal DEF Books, Shapes, Follows

LEMMA DiscardedRests ==
  ASSUME Books, NEW k, k \in NormalKinds, Runs(k)
  PROVE  /\ IsQueue(Discarded(Popped)) /\ Rest(Popped.normal) /\ Rest(Discarded(Popped).normal)
<1> DEFINE t == Tail(queue.normal)
           D == {e \in ToSet(t) : e.event = "ExitUpdated"}
           q == Popped
<1>1. IsQueue(q) /\ q.normal = t /\ queue.normal # <<>>
  BY TakesHead
<1>2. Follows(q, Discarded(q), Without(q.normal, {e \in ToSet(q.normal) : e.event = "ExitUpdated"}))
  <2> HIDE DEF q
  <2> QED BY <1>1, DropNormal
<1>3. Discarded(q).normal = Without(t, D) /\ IsQueue(Discarded(q))
  BY <1>1, <1>2 DEF Follows
<1>4. \A d \in D : d.event = "ExitUpdated"
  OBVIOUS
<1> HIDE DEF D, q
<1>5. Rest(Discarded(q).normal) /\ Rest(q.normal)
  BY <1>1, <1>3, <1>4 DEF Rest
<1> QED BY <1>3, <1>5 DEF q

(* A step that pushes nothing of kind k, and takes nothing of it *)
Gets(K) == \E n, l : Rest(n) /\ IsList(l) /\ Kinds(l, K) /\ queue'.normal = n \o l

LEMMA GetsNothing ==
  ASSUME IsQueue(queue), NEW n, Rest(n), queue'.normal = n
  PROVE  \A K : Gets(K)
<1> DEFINE e == <<>>
<1>1. IsList(e) /\ (\A K : Kinds(e, K)) /\ n \o e = n
  BY KindsOfNothing, RestIsList, LiteralLists
<1> HIDE DEF e
<1> QED BY <1>1 DEF Gets

LEMMA OthersPush ==
  ASSUME started, Books,
         \/ run_async \/ stop_async \/ AnswerOwn \/ AnswerForeign
         \/ HandleGenerator \/ HandleError
  PROVE  \E l : IsList(l) /\ Kinds(l, {"Stop"}) /\ queue'.normal = queue.normal \o l
<1>1. IsQueue(queue) /\ IsList(queue.normal)
  BY DEF Books, Shapes, IsQueue, Whole
<1> DEFINE s == <<E("Stop")>>
           e == <<>>
<1>2. IsList(s) /\ Kinds(s, {"Stop"}) /\ IsList(e) /\ Kinds(e, {"Stop"})
  BY KindsOfOne, KindsOfNothing DEF E
<1>3. queue.normal \o e = queue.normal
  BY <1>1, LiteralLists
<1>4. \A q, l : IsQueue(q) => /\ WithNormal(q, l).normal = q.normal \o l
                              /\ [q EXCEPT !.low = l].normal = q.normal
  <2> TAKE q, l
  <2> HAVE IsQueue(q)
  <2> DEFINE h == q.high
             n == q.normal
             w == q.low
  <2>1. q = Lists(h, n, w)
    BY DEF IsQueue
  <2> DEFINE m == n \o l
  <2>2. WithNormal(q, l) = [q EXCEPT !.normal = m]
    BY DEF WithNormal
  <2> HIDE DEF h, n, w, m
  <2>3. [q EXCEPT !.normal = m] = Lists(h, m, w)
    BY <2>1 DEF Lists
  <2>4. [q EXCEPT !.low = l] = Lists(h, n, l)
    BY <2>1 DEF Lists
  <2>5. WithNormal(q, l).normal = m /\ [q EXCEPT !.low = l].normal = n
    BY <2>2, <2>3, <2>4 DEF Lists
  <2> QED BY <2>5 DEF n, m
<1>5. \/ queue' = WithNormal(queue, s)
      \/ \E l : queue' = [queue EXCEPT !.low = l]
      \/ HandleGenerator \/ HandleError
  BY DEF run_async, stop_async, AnswerOwn, AnswerForeign, Push, WithNormal
<1>6. ASSUME HandleGenerator PROVE queue'.normal = queue.normal
  <2>1. IsQueue(Popped) /\ Popped.normal = <<>> /\ queue.normal = <<>>
    <3>1. PICK k \in LowKinds : Runs(k)
      BY <1>6 DEF HandleGenerator, LowKinds
    <3> QED BY <1>1, <3>1, PopLow
  <2> DEFINE p == Popped
  <2>2. queue' = p \/ \E l : queue' = [p EXCEPT !.low = l]
    BY <1>6 DEF HandleGenerator, NextPrice
  <2>3. IsQueue(p) /\ p.normal = queue.normal
    BY <2>1
  <2> HIDE DEF p
  <2>4. CASE queue' = p
    BY <2>3, <2>4
  <2>5. ASSUME NEW l, queue' = [p EXCEPT !.low = l]
        PROVE  queue'.normal = queue.normal
    <3>1. [p EXCEPT !.low = l].normal = p.normal
      BY <1>4, <2>3
    <3> QED BY <2>3, <2>5, <3>1
  <2> QED BY <2>2, <2>4, <2>5
<1>7. ASSUME HandleError PROVE queue'.normal = queue.normal \o s
  <2>1. IsQueue(Popped) /\ Popped.normal = queue.normal
    BY <1>1, <1>7, PopHigh DEF HandleError
  <2> DEFINE p == Popped
  <2>2. queue' = WithNormal(p, s)
    BY <1>7 DEF HandleError
  <2>3. IsQueue(p) /\ p.normal = queue.normal
    BY <2>1
  <2> HIDE DEF p, s
  <2>4. WithNormal(p, s).normal = p.normal \o s
    BY <1>4, <2>3
  <2> QED BY <2>2, <2>3, <2>4
<1>8. queue'.normal = queue.normal \o s \/ queue'.normal = queue.normal \o e
  <2> HIDE DEF s, e
  <2> DEFINE Pushes == queue'.normal = queue.normal \o s \/ queue'.normal = queue.normal \o e
  <2>1. ASSUME queue' = WithNormal(queue, s) PROVE Pushes
    <3>1. WithNormal(queue, s).normal = queue.normal \o s
      BY <1>1, <1>4
    <3> QED BY <2>1, <3>1
  <2>2. ASSUME NEW l, queue' = [queue EXCEPT !.low = l] PROVE Pushes
    <3>1. [queue EXCEPT !.low = l].normal = queue.normal
      BY <1>1, <1>4
    <3> QED BY <1>3, <2>2, <3>1
  <2>3. ASSUME HandleGenerator \/ HandleError PROVE Pushes
    BY <1>3, <1>6, <1>7, <2>3
  <2> HIDE DEF Pushes
  <2>4. Pushes
    BY <1>5, <2>1, <2>2, <2>3
  <2> QED BY <2>4 DEF Pushes
<1> HIDE DEF s, e
<1> QED BY <1>2, <1>8

LEMMA TakersPush ==
  ASSUME Books,
         \/ HandleStopThrows \/ HandleOpenedPos \/ HandleOrderResponse
         \/ HandleOrderTrade \/ ForwardError
         \/ on_exit_trade \/ exit_on_opened_pos \/ exit_on_price_levels
  PROVE  /\ queue.normal # <<>> /\ Next_Event = Head(queue.normal)
         /\ queue'.normal = Tail(queue.normal)
<1>1. {"Stop", "OpenedPosToEntry", "OrderResponse", "Trade", "OpenedPosToExit",
       "PriceLevels", "ExitError"} \subseteq NormalKinds
  BY DEF NormalKinds, GatewayKinds
<1>2. \E k \in NormalKinds : Runs(k)
  BY <1>1 DEF HandleStopThrows, HandleOpenedPos, HandleOrderResponse, HandleOrderTrade,
         ForwardError, on_exit_trade, exit_on_opened_pos, exit_on_price_levels
<1>3. /\ IsQueue(Popped) /\ queue.normal # <<>> /\ Next_Event = Head(queue.normal)
      /\ Popped.normal = Tail(queue.normal)
  BY <1>2, TakesHead
<1>4. \A q, l : IsQueue(q) => [q EXCEPT !.high = l].normal = q.normal
  <2> TAKE q, l
  <2> HAVE IsQueue(q)
  <2> DEFINE h == q.high
             n == q.normal
             w == q.low
  <2>1. q = Lists(h, n, w)
    BY DEF IsQueue
  <2> HIDE DEF h, n, w
  <2>2. [q EXCEPT !.high = l] = Lists(l, n, w)
    BY <2>1 DEF Lists
  <2>3. [q EXCEPT !.high = l].normal = n
    BY <2>2 DEF Lists
  <2> QED BY <2>3 DEF n
<1>5. queue' = Popped \/ \E l : queue' = [Popped EXCEPT !.high = l]
  BY DEF HandleStopThrows, HandleOpenedPos, HandleOrderResponse, HandleOrderTrade,
         ForwardError, on_exit_trade, exit_on_opened_pos, exit_on_price_levels
<1> DEFINE p == Popped
<1> HIDE DEF p
<1> QED BY <1>3, <1>4, <1>5 DEF p

LEMMA AnswersPush ==
  ASSUME Books, on_tpsl_reposnse \/ on_trailing_stop_response
  PROVE  /\ queue.normal # <<>> /\ Next_Event = Head(queue.normal)
         /\ \E l : /\ IsList(l) /\ Kinds(l, {"ExitUpdated"})
                   /\ queue'.normal = Tail(queue.normal) \o l
<1>1. PICK k \in {"TpslUpdated", "TrailingUpdated"} : Runs(k)
  BY DEF on_tpsl_reposnse, on_trailing_stop_response
<1>2. k \in NormalKinds
  BY DEF NormalKinds, GatewayKinds
<1> DEFINE t == Tail(queue.normal)
           p == Popped
           u(x) == <<[event |-> "ExitUpdated", guid |-> x]>>
           e == <<>>
<1>3. /\ IsQueue(p) /\ queue.normal # <<>> /\ Next_Event = Head(queue.normal)
      /\ p.normal = t
  BY <1>1, <1>2, TakesHead
<1>4. queue' = p \/ \E x : queue' = WithNormal(p, u(x))
  BY DEF on_tpsl_reposnse, on_trailing_stop_response, Notified
<1>5. IsList(t)
  BY <1>3 DEF IsQueue, Whole
<1>6. IsList(e) /\ Kinds(e, {"ExitUpdated"}) /\ t \o e = t
  BY <1>5, KindsOfNothing, LiteralLists
<1>7. \A x : IsList(u(x)) /\ Kinds(u(x), {"ExitUpdated"})
  <2> TAKE x
  <2> DEFINE d == [event |-> "ExitUpdated", guid |-> x]
  <2>1. d.event \in {"ExitUpdated"}
    OBVIOUS
  <2> HIDE DEF d
  <2>2. IsList(<<d>>) /\ Kinds(<<d>>, {"ExitUpdated"})
    BY <2>1, KindsOfOne
  <2> QED BY <2>2 DEF d
<1> HIDE DEF p, u, e, t
<1>8. \E l : IsList(l) /\ Kinds(l, {"ExitUpdated"}) /\ queue'.normal = t \o l
  <2>1. CASE queue' = p
    BY <1>3, <1>6, <2>1
  <2>2. ASSUME NEW x, queue' = WithNormal(p, u(x))
        PROVE  \E l : IsList(l) /\ Kinds(l, {"ExitUpdated"}) /\ queue'.normal = t \o l
    <3> DEFINE l == u(x)
    <3>1. IsList(l) /\ Kinds(l, {"ExitUpdated"}) /\ queue' = WithNormal(p, l)
      BY <1>7, <2>2
    <3>2. {"ExitUpdated"} \subseteq NormalKinds \ {"InstanceTrade"}
      BY DEF NormalKinds, GatewayKinds
    <3> HIDE DEF l
    <3>3. queue'.normal = p.normal \o l
      BY <1>3, <3>1, <3>2, PushOthers DEF Follows
    <3> QED BY <1>3, <3>1, <3>3
  <2> QED BY <1>4, <2>1, <2>2
<1> QED BY <1>3, <1>8 DEF t

LEMMA UpdatedPush ==
  ASSUME Books, tpsl_on_updated \/ on_trailing_stop_updated
  PROVE  /\ queue.normal # <<>> /\ Head(queue.normal).event = "ExitUpdated"
         /\ Gets({"ExitError"})
<1> DEFINE q == Popped
           d == Discarded(q)
           e == [event |-> "ExitError"]
           K == {"ExitError"}
<1>1. Runs("ExitUpdated") /\ "ExitUpdated" \in NormalKinds
  BY DEF tpsl_on_updated, on_trailing_stop_updated, NormalKinds, GatewayKinds
<1>2. /\ IsQueue(q) /\ IsQueue(d) /\ Rest(q.normal) /\ Rest(d.normal) /\ IsQueue(queue)
      /\ queue.normal # <<>> /\ Head(queue.normal).event = "ExitUpdated"
  BY <1>1, TakesHead, DiscardedRests
<1>3. \/ queue' = q \/ queue' = d
      \/ \E r \in {q, d}, l \in {<<>>, <<e>>} : queue' = WithNormal(r, l)
  BY DEF tpsl_on_updated, on_trailing_stop_updated
<1>4. \A l \in {<<>>, <<e>>} : IsList(l) /\ Kinds(l, K)
  <2>1. e.event \in K
    OBVIOUS
  <2> HIDE DEF e, K
  <2> QED BY <2>1, KindsOfOne, KindsOfNothing
<1>5. K \subseteq NormalKinds \ {"InstanceTrade"}
  BY DEF NormalKinds, GatewayKinds
<1> HIDE DEF q, d, e, K
<1>6. ASSUME NEW r \in {q, d}, NEW l \in {<<>>, <<e>>}, queue' = WithNormal(r, l)
      PROVE  Gets(K)
  <2>1. IsQueue(r) /\ Rest(r.normal) /\ IsList(l) /\ Kinds(l, K)
    BY <1>2, <1>4
  <2>2. queue'.normal = r.normal \o l
    BY <1>5, <1>6, <2>1, PushOthers DEF Follows
  <2> QED BY <2>1, <2>2 DEF Gets
<1>7. queue' = q \/ queue' = d => Gets(K)
  BY <1>2, GetsNothing
<1>8. Gets(K)
  BY <1>3, <1>6, <1>7
<1> QED BY <1>2, <1>8 DEF K

LEMMA OrderSent ==
  ASSUME Shapes, NEW q, IsQueue(q), NEW vol \in Int, SendOrder(q, vol)
  PROVE  \E r :
           LET o  == NextGuid(Orders, created)
               x  == <<OrderResponseEvent(o)>>
               tr == <<TradeEvent(o, vol, gateway.m_last_price),
                       [event |-> "InstanceTrade", volume |-> vol,
                        price |-> gateway.m_last_price]>>
           IN  /\ r = <<>> \/ \E g : r = <<TpslUpdatedEvent(g, FALSE, FALSE, FALSE)>>
               /\ IsList(x \o r) /\ IsList(tr) /\ Kinds((x \o r) \o tr, GatewayKinds)
               /\ queue'.normal = q.normal \o ((x \o r) \o tr)
               /\ gateway' = Gateway(gateway.m_pos_volume + vol, gateway.m_last_price,
                                     gateway.m_tpsl, gateway.m_trailing_stop, <<>>)
<1> DEFINE o == NextGuid(Orders, created)
           pos == gateway.m_pos_volume + vol
           price == gateway.m_last_price
           tpsl == gateway.m_tpsl
           t == gateway.m_trailing_stop
           x == <<OrderResponseEvent(o)>>
           y == <<TradeEvent(o, vol, price)>>
           tr == <<TradeEvent(o, vol, price),
                   [event |-> "InstanceTrade", volume |-> vol, price |-> price]>>
           ev(r) == x \o r \o y
<1>1. Calls(q, push_order_request(gateway, o, vol))
  BY DEF SendOrder
<1>2. PICK r : /\ r = IF pos = 0 /\ tpsl # None
                      THEN <<TpslUpdatedEvent(tpsl.guid, FALSE, FALSE, FALSE)>> ELSE <<>>
               /\ push_order_request(gateway, o, vol) = Gateway(pos, price, tpsl, t, ev(r))
  BY OrderAtGateway DEF Shapes
<1>3. r = <<>> \/ \E g : r = <<TpslUpdatedEvent(g, FALSE, FALSE, FALSE)>>
  BY <1>2
<1>4. /\ Entries(ev(r)) = x \o r \o tr /\ Moves(Entries(ev(r)), vol)
      /\ Moves(r, 0) /\ Moves(x, 0) /\ Moves(tr, vol)
  <2> HIDE DEF o, price
  <2> QED BY <1>3, OrderEntries
<1>5. pos \in Int /\ (t # None => IsTrailingStop(t))
  BY DEF Shapes, IsGateway
<1> DEFINE e == ev(r)
<1>6. Calls(q, Gateway(pos, price, tpsl, t, e)) /\ Moves(Entries(e), vol)
  BY <1>1, <1>2, <1>4
<1>7. Entries(e) = (x \o r) \o tr
  BY <1>4
<1> HIDE DEF e, pos, price, tpsl, t, o, ev, x, tr, y
<1>8. /\ Follows(q, queue', q.normal \o Entries(e))
      /\ gateway' = Gateway(pos, price, tpsl, t, <<>>)
  BY <1>5, <1>6, CallsMoves
<1>9. IsList(x \o r) /\ IsList(tr) /\ Kinds((x \o r) \o tr, GatewayKinds)
  BY <1>4, <1>6, <1>7, MovesList, ListConcat DEF Moves
<1> QED BY <1>3, <1>7, <1>8, <1>9 DEF Follows, pos, price, tpsl, t, o, x, tr

LEMMA OrdersPush ==
  ASSUME Books, HandleStop \/ \E side \in {-1, 0, 1} : HandleSignal(side)
  PROVE  /\ queue.normal # <<>> /\ Head(queue.normal).event \in {"Stop", "SignalToEntry"}
         /\ gateway'.m_trailing_stop = gateway.m_trailing_stop
         /\ gateway'.m_tpsl = gateway.m_tpsl
         /\ Gets({"OrderResponse", "TpslUpdated", "Trade", "InstanceTrade"})
<1> DEFINE K == {"OrderResponse", "TpslUpdated", "Trade", "InstanceTrade"}
           q == Popped
<1>1. PICK k \in {"Stop", "SignalToEntry"} :
        /\ Runs(k)
        /\ \/ queue' = Popped /\ gateway' = gateway
           \/ \E vol \in Int : SendOrder(Popped, vol)
  <2>1. CASE HandleStop
    <3>1. m_opened_position # None => -m_opened_position.volume \in Int
      BY DEF Books, Shapes, IsPosition
    <3> QED BY <2>1, <3>1 DEF HandleStop
  <2>2. CASE \E side \in {-1, 0, 1} : HandleSignal(side)
    BY <2>2 DEF HandleSignal
  <2> QED BY <2>1, <2>2
<1>2. k \in NormalKinds
  BY DEF NormalKinds, GatewayKinds
<1>3. /\ IsQueue(queue) /\ IsQueue(q) /\ queue.normal # <<>>
      /\ Head(queue.normal).event = k /\ Rest(q.normal)
  BY <1>1, <1>2, TakesHead, DiscardedRests
<1>4. CASE queue' = q /\ gateway' = gateway
  <2> HIDE DEF q, K
  <2>1. Gets(K)
    BY <1>3, <1>4, GetsNothing
  <2> QED BY <1>3, <1>4, <2>1 DEF K
<1>5. ASSUME NEW vol \in Int, SendOrder(q, vol)
      PROVE  /\ Gets(K) /\ gateway'.m_trailing_stop = gateway.m_trailing_stop
             /\ gateway'.m_tpsl = gateway.m_tpsl
  <2> DEFINE o  == NextGuid(Orders, created)
             x  == <<OrderResponseEvent(o)>>
             tr == <<TradeEvent(o, vol, gateway.m_last_price),
                     [event |-> "InstanceTrade", volume |-> vol,
                      price |-> gateway.m_last_price]>>
             l(r) == (x \o r) \o tr
  <2> HIDE DEF q
  <2>1. PICK r : /\ r = <<>> \/ \E g : r = <<TpslUpdatedEvent(g, FALSE, FALSE, FALSE)>>
                 /\ IsList(x \o r) /\ IsList(tr)
                 /\ queue'.normal = q.normal \o l(r)
                 /\ gateway' = Gateway(gateway.m_pos_volume + vol, gateway.m_last_price,
                                       gateway.m_tpsl, gateway.m_trailing_stop, <<>>)
    BY <1>3, <1>5, OrderSent DEF Books
  <2>2. gateway'.m_trailing_stop = gateway.m_trailing_stop /\ gateway'.m_tpsl = gateway.m_tpsl
    BY <2>1 DEF Gateway
  <2>3. IsList(x) /\ Kinds(x, K)
    <3> DEFINE e == OrderResponseEvent(o)
    <3>1. e.event \in K
      BY DEF OrderResponseEvent
    <3> HIDE DEF e, K
    <3> QED BY <3>1, KindsOfOne DEF e
  <2>4. IsList(r) /\ Kinds(r, K)
    <3>1. ASSUME NEW g
          PROVE  LET u == <<TpslUpdatedEvent(g, FALSE, FALSE, FALSE)>>
                 IN  IsList(u) /\ Kinds(u, K)
      <4> DEFINE e == TpslUpdatedEvent(g, FALSE, FALSE, FALSE)
      <4>1. e.event \in K
        BY DEF TpslUpdatedEvent
      <4> HIDE DEF e, K
      <4> QED BY <4>1, KindsOfOne DEF e
    <3> HIDE DEF K
    <3> QED BY <2>1, <3>1, KindsOfNothing
  <2>5. Kinds(tr, K)
    <3> DEFINE a == TradeEvent(o, vol, gateway.m_last_price)
               b == [event |-> "InstanceTrade", volume |-> vol, price |-> gateway.m_last_price]
               u == <<a>>
               v == <<b>>
    <3>1. a.event \in K /\ b.event \in K
      BY DEF TradeEvent
    <3>2. tr = u \o v
      BY LiteralLists
    <3> HIDE DEF a, b, K, tr
    <3>3. IsList(u) /\ Kinds(u, K) /\ IsList(v) /\ Kinds(v, K)
      BY <3>1, KindsOfOne
    <3> HIDE DEF u, v
    <3> QED BY <3>2, <3>3, KindsConcat
  <2> HIDE DEF x, tr, K
  <2>6. Kinds(x \o r, K)
    BY <2>3, <2>4, KindsConcat
  <2>7. Kinds(l(r), K) /\ IsList(l(r))
    BY <2>1, <2>5, <2>6, KindsConcat
  <2>8. Gets(K)
    BY <1>3, <2>1, <2>7 DEF Gets
  <2> QED BY <2>2, <2>8
<1> HIDE DEF K
<1> QED BY <1>1, <1>3, <1>4, <1>5 DEF K

LEMMA TradePush ==
  ASSUME Books, HandleTrade
  PROVE  /\ queue.normal # <<>> /\ Head(queue.normal).event = "InstanceTrade"
         /\ Gets({"PriceLevels", "OpenedPosToEntry", "OpenedPosToExit", "TradeToExit"})
         /\ \E u, a, c : /\ queue'.normal = Tail(queue.normal) \o (u \o <<a>> \o c)
                         /\ IsList(u) /\ IsList(c) /\ Kinds(u, {"PriceLevels"})
                         /\ Kinds(c, {"OpenedPosToExit", "TradeToExit"})
                         /\ a = [event |-> "OpenedPosToEntry",
                                 opened |-> m_opened_position' # None]
<1> DEFINE vol == Next_Event.volume
           pos == PositionAfter(m_opened_position, vol, Next_Event.price)
           opened == pos # None
           p == [event |-> "PriceLevels", no_loss_price |-> pos.entry]
           u == IF opened /\ ~HasTpsl(strategy) THEN <<p>> ELSE <<>>
           a == [event |-> "OpenedPosToEntry", opened |-> opened]
           b == [event |-> "OpenedPosToExit", opened |-> opened]
           d == [event |-> "TradeToExit", volume |-> vol, price |-> Next_Event.price]
           x == <<a>>
           y == <<b>>
           z == <<d>>
           q == Popped
<1>1. Runs("InstanceTrade") /\ "InstanceTrade" \in NormalKinds
  BY DEF HandleTrade, NormalKinds, GatewayKinds
<1>2. /\ IsQueue(queue) /\ IsQueue(q) /\ queue.normal # <<>>
      /\ Head(queue.normal).event = "InstanceTrade" /\ q.normal = Tail(queue.normal)
      /\ Rest(q.normal)
  BY <1>1, TakesHead, DiscardedRests
<1>3. queue' = WithNormal(q, u \o <<a, b, d>>) /\ m_opened_position' = pos
  BY DEF HandleTrade
<1>4. <<a, b, d>> = (x \o y) \o z
  <2> HIDE DEF a, b, d
  <2> QED BY ThreeOfAKind
<1>5. IsList(u) /\ Kinds(u, {"PriceLevels"})
  <2>1. p.event = "PriceLevels"
    OBVIOUS
  <2>2. u = <<>> \/ u = <<p>>
    OBVIOUS
  <2> HIDE DEF p, u
  <2> QED BY <2>1, <2>2, KindsOfOne, KindsOfNothing
<1>6. /\ IsList(x) /\ IsList(y) /\ IsList(z) /\ Kinds(x, {"OpenedPosToEntry"})
      /\ Kinds(y, {"OpenedPosToExit", "TradeToExit"})
      /\ Kinds(z, {"OpenedPosToExit", "TradeToExit"})
  <2>1. a.event = "OpenedPosToEntry" /\ b.event = "OpenedPosToExit" /\ d.event = "TradeToExit"
    OBVIOUS
  <2> HIDE DEF a, b, d
  <2> QED BY <2>1, KindsOfOne
<1> DEFINE c == y \o z
           l == u \o x \o c
           K == {"PriceLevels", "OpenedPosToEntry", "OpenedPosToExit", "TradeToExit"}
<1>7. a = [event |-> "OpenedPosToEntry", opened |-> m_opened_position' # None]
  BY <1>3
<1> HIDE DEF u, a, b, d, q
<1>8. IsList(c) /\ Kinds(c, {"OpenedPosToExit", "TradeToExit"})
  <2> HIDE DEF y, z
  <2> QED BY <1>6, ListConcat, KindsConcat
<1>9. u \o <<a, b, d>> = l
  <2> HIDE DEF x, y, z
  <2>1. (x \o y) \o z = x \o c
    BY <1>6, ListAssociative
  <2>2. IsList(u) /\ IsList(x) /\ IsList(c)
    BY <1>5, <1>6, <1>8
  <2> HIDE DEF c
  <2>3. (u \o x) \o c = u \o (x \o c)
    BY <2>2, ListAssociative
  <2> QED BY <1>4, <2>1, <2>3
<1>10. IsList(l) /\ Kinds(l, K)
  <2>1. Kinds(u, K) /\ Kinds(x, K) /\ Kinds(c, K)
    BY <1>5, <1>6, <1>8, KindsSubset
  <2> HIDE DEF x, c, K
  <2>2. IsList(u \o x) /\ Kinds(u \o x, K)
    BY <1>5, <1>6, <2>1, ListConcat, KindsConcat
  <2> QED BY <1>8, <2>1, <2>2, ListConcat, KindsConcat
<1>11. queue'.normal = q.normal \o l
  <2>1. K \subseteq NormalKinds \ {"InstanceTrade"}
    BY DEF NormalKinds, GatewayKinds
  <2>2. queue' = WithNormal(q, l)
    BY <1>3, <1>9
  <2> HIDE DEF l, K
  <2> QED BY <1>2, <1>10, <2>1, <2>2, PushOthers DEF Follows
<1>12. Gets(K)
  <2> HIDE DEF l, K
  <2> QED BY <1>2, <1>10, <1>11 DEF Gets
<1>13. \E u0, a0, c0 :
             /\ queue'.normal = Tail(queue.normal) \o (u0 \o <<a0>> \o c0)
             /\ IsList(u0) /\ IsList(c0) /\ Kinds(u0, {"PriceLevels"})
             /\ Kinds(c0, {"OpenedPosToExit", "TradeToExit"})
             /\ a0 = [event |-> "OpenedPosToEntry", opened |-> m_opened_position' # None]
  <2> HIDE DEF c
  <2>1. queue'.normal = Tail(queue.normal) \o (u \o <<a>> \o c)
    BY <1>2, <1>11
  <2> QED BY <1>5, <1>7, <1>8, <2>1
<1> QED BY <1>2, <1>12, <1>13 DEF K

LEMMA ExitSent ==
  ASSUME Shapes, NEW d, IsQueue(d), NEW tpsl, NEW t, t # None => IsTrailingStop(t),
         NEW ev, Entries(ev) = ev, Moves(ev, 0),
         Calls(d, Gateway(gateway.m_pos_volume, gateway.m_last_price, tpsl, t, ev))
  PROVE  /\ queue'.normal = d.normal \o ev
         /\ gateway' = Gateway(gateway.m_pos_volume, gateway.m_last_price, tpsl, t, <<>>)
<1> DEFINE pos == gateway.m_pos_volume
           price == gateway.m_last_price
<1>3. pos \in Int
  BY DEF Shapes, IsGateway
<1> HIDE DEF pos, price
<1>4. Calls(d, Gateway(pos, price, tpsl, t, ev)) /\ Moves(Entries(ev), 0)
  BY DEF pos, price
<1>5. /\ Follows(d, queue', d.normal \o Entries(ev))
      /\ gateway' = Gateway(pos, price, tpsl, t, <<>>)
  BY <1>3, <1>4, CallsMoves
<1> QED BY <1>5 DEF Follows, pos, price

(* A new exit order has a guid g of its own; the answer to it is the last entry. *)
NewTpsl(n, g, fields, e, tp, sl) ==
  /\ exitOrder' = [exitOrder EXCEPT ![g] = fields]
  /\ e.event = "TpslUpdated" /\ queue'.normal = n \o <<e>>
  /\ m_tpsl' = g /\ m_trailing_stop' = m_trailing_stop
  /\ gateway'.m_trailing_stop = gateway.m_trailing_stop
  /\ gateway'.m_pos_volume = gateway.m_pos_volume
  /\ \/ gateway'.m_tpsl = gateway.m_tpsl
     \/ gateway'.m_tpsl = [guid |-> g, take_profit |-> tp, stop_loss |-> sl]

NewTrailing(n, g, side, distance, stop) ==
  /\ exitOrder' = [exitOrder EXCEPT ![g] =
       [kind |-> "trailing", side |-> side, distance |-> distance, active |-> {}]]
  /\ queue'.normal = n \o <<TrailingUpdatedEvent({stop})>>
  /\ m_trailing_stop' = g /\ m_tpsl' = m_tpsl
  /\ gateway'.m_tpsl = gateway.m_tpsl /\ gateway'.m_pos_volume = gateway.m_pos_volume
  /\ gateway'.m_trailing_stop =
       [guid |-> g, side |-> side, distance |-> distance, stop |-> stop]

NewExit(n) ==
  /\ Rest(n) /\ IsList(n)
  /\ \E g : /\ g \in ExitOrders /\ g \notin issued /\ issued' = issued \cup {g}
            /\ m_exit_sub' = g
            /\ \/ \E fields, e, tp, sl : NewTpsl(n, g, fields, e, tp, sl)
               \/ \E side, distance, stop : NewTrailing(n, g, side, distance, stop)

LEMMA NewGuid ==
  ASSUME issued \subseteq ExitOrders, issued # ExitOrders
  PROVE  NextGuid(ExitOrders, issued) \in ExitOrders \ issued
<1>1. \E g : g \in ExitOrders \ issued
  OBVIOUS
<1> QED BY <1>1 DEF NextGuid

LEMMA TpslSent ==
  ASSUME Shapes, issued \subseteq ExitOrders, NEW tp, NEW sl, send_tpsl(tp, sl),
         IsQueue(Discarded(Popped)), Rest(Discarded(Popped).normal)
  PROVE  NewExit(Discarded(Popped).normal)
<1> DEFINE d == Discarded(Popped)
           g == NextGuid(ExitOrders, issued)
           r == [guid |-> g, take_profit |-> tp, stop_loss |-> sl]
           fields == [kind |-> "tpsl", acked |-> FALSE, rejected |-> FALSE,
                      suspended |-> FALSE, triggered |-> FALSE]
           pos == gateway.m_pos_volume
           price == gateway.m_last_price
           t == gateway.m_trailing_stop
           e(x) == TpslUpdatedEvent(r.guid, TRUE, FALSE, x)
<1>1. /\ issued # ExitOrders /\ m_tpsl' = g /\ Calls(d, push_tpsl_request(gateway, r))
      /\ m_trailing_stop' = m_trailing_stop
      /\ issued' = issued \cup {g} /\ exitOrder' = [exitOrder EXCEPT ![g] = fields]
      /\ m_exit_sub' = g
  BY DEF send_tpsl, NewExitOrder
<1>2. g \in ExitOrders /\ g \notin issued
  BY <1>1, NewGuid
<1>3. t # None => IsTrailingStop(t)
  BY DEF Shapes, IsGateway
<1>4. \A x : e(x).event = "TpslUpdated"
  BY DEF TpslUpdatedEvent
<1>5. IsGateway(gateway) /\ gateway.events = <<>> /\ IsQueue(d) /\ Rest(d.normal) /\ IsList(d.normal)
  BY DEF Shapes, IsQueue, Whole
<1> HIDE DEF d, g, r, fields, t
<1>6. push_tpsl_request(gateway, r) = Gateway(pos, price, gateway.m_tpsl, t, <<e(TRUE)>>)
      \/ push_tpsl_request(gateway, r) = Gateway(pos, price, r, t, <<e(FALSE)>>)
  <2>1. push_tpsl_request(gateway, r) =
           IF pos = 0
           THEN Gateway(0, price, gateway.m_tpsl, t, <<e(TRUE)>>)
           ELSE Gateway(pos, price, r, t, <<e(FALSE)>>)
    BY <1>5, TpslRequestAtGateway DEF t
  <2> QED BY <2>1
<1>7. PICK w, x : /\ w \in {gateway.m_tpsl, r}
                  /\ push_tpsl_request(gateway, r) = Gateway(pos, price, w, t, <<e(x)>>)
  <2> DEFINE Is(w, x) == /\ w \in {gateway.m_tpsl, r}
                         /\ push_tpsl_request(gateway, r) = Gateway(pos, price, w, t, <<e(x)>>)
  <2>1. Is(gateway.m_tpsl, TRUE) \/ Is(r, FALSE)
    BY <1>6, Zenon
  <2> HIDE DEF Is
  <2>2. \E w, x : Is(w, x)
    BY <2>1
  <2> QED BY <2>2 DEF Is
<1> DEFINE f == e(x)
<1>8. f.event = "TpslUpdated" /\ Calls(d, Gateway(pos, price, w, t, <<f>>))
  BY <1>1, <1>4, <1>7
<1> HIDE DEF f
<1>9. queue'.normal = d.normal \o <<f>> /\ gateway' = Gateway(pos, price, w, t, <<>>)
  <2> DEFINE ev == <<f>>
  <2>1. Entries(ev) = ev /\ Moves(ev, 0) /\ IsQueue(d)
    BY <1>5, <1>8, AnswerMoves DEF GatewayKinds
  <2>2. Calls(d, Gateway(pos, price, w, t, ev))
    BY <1>8
  <2> HIDE DEF ev
  <2>3. queue'.normal = d.normal \o ev /\ gateway' = Gateway(pos, price, w, t, <<>>)
    BY <1>3, <2>1, <2>2, ExitSent
  <2> QED BY <2>3 DEF ev
<1>10. gateway'.m_trailing_stop = t /\ gateway'.m_pos_volume = pos /\ gateway'.m_tpsl = w
  BY <1>9 DEF Gateway
<1>11. w = gateway.m_tpsl \/ w = [guid |-> g, take_profit |-> tp, stop_loss |-> sl]
  BY <1>7 DEF r
<1> HIDE DEF e
<1>12. NewTpsl(d.normal, g, fields, f, tp, sl)
  BY <1>1, <1>8, <1>9, <1>10, <1>11 DEF NewTpsl, t
<1>13. NewExit(d.normal)
  BY <1>1, <1>2, <1>5, <1>12 DEF NewExit
<1> QED BY <1>13 DEF d

LEMMA TrailingSent ==
  ASSUME Shapes, issued \subseteq ExitOrders, NEW side, NEW distance,
         send_trailing_stop(side, distance),
         IsQueue(Discarded(Popped)), Rest(Discarded(Popped).normal)
  PROVE  NewExit(Discarded(Popped).normal)
<1> DEFINE d == Discarded(Popped)
           g == NextGuid(ExitOrders, issued)
           fields == [kind |-> "trailing", side |-> side, distance |-> distance,
                      active |-> {}]
           pos == gateway.m_pos_volume
           price == gateway.m_last_price
           stop == StopPrice(side, distance, price)
           t == [guid |-> g, side |-> side, distance |-> distance, stop |-> stop]
           e == TrailingUpdatedEvent({stop})
<1>1. /\ issued # ExitOrders /\ m_trailing_stop' = g
      /\ Calls(d, push_trailing_stop_request(gateway, g, side, distance))
      /\ m_tpsl' = m_tpsl
      /\ issued' = issued \cup {g} /\ exitOrder' = [exitOrder EXCEPT ![g] = fields]
      /\ m_exit_sub' = g
  BY DEF send_trailing_stop, NewExitOrder
<1>2. g \in ExitOrders /\ g \notin issued
  BY <1>1, NewGuid
<1>4. e.event = "TrailingUpdated"
  BY DEF TrailingUpdatedEvent
<1>5. IsGateway(gateway) /\ gateway.events = <<>> /\ IsQueue(d) /\ Rest(d.normal) /\ IsList(d.normal)
  BY DEF Shapes, IsQueue, Whole
<1>6. /\ IsTrailingStop(t)
      /\ push_trailing_stop_request(gateway, g, side, distance)
           = Gateway(pos, price, gateway.m_tpsl, t, <<e>>)
  <2> HIDE DEF g
  <2> QED BY <1>5, TrailingRequestAtGateway
<1> HIDE DEF d, g, t, e
<1>8. Calls(d, Gateway(pos, price, gateway.m_tpsl, t, <<e>>))
  BY <1>1, <1>6
<1>9. queue'.normal = d.normal \o <<e>> /\ gateway' = Gateway(pos, price, gateway.m_tpsl, t, <<>>)
  <2> DEFINE ev == <<e>>
  <2>1. Entries(ev) = ev /\ Moves(ev, 0) /\ IsQueue(d)
    BY <1>4, <1>5, AnswerMoves DEF GatewayKinds
  <2>2. t # None => IsTrailingStop(t)
    BY <1>6
  <2>3. Calls(d, Gateway(pos, price, gateway.m_tpsl, t, ev))
    BY <1>8
  <2> HIDE DEF ev
  <2>4. /\ queue'.normal = d.normal \o ev
        /\ gateway' = Gateway(pos, price, gateway.m_tpsl, t, <<>>)
    BY <2>1, <2>2, <2>3, ExitSent
  <2> QED BY <2>4 DEF ev
<1>10. /\ gateway'.m_trailing_stop = t /\ gateway'.m_pos_volume = pos
       /\ gateway'.m_tpsl = gateway.m_tpsl
  BY <1>9 DEF Gateway
<1>11. gateway'.m_trailing_stop = [guid |-> g, side |-> side, distance |-> distance, stop |-> stop]
  BY <1>10 DEF t
<1>12. queue'.normal = d.normal \o <<TrailingUpdatedEvent({stop})>>
  BY <1>9 DEF e
<1>13. NewTrailing(d.normal, g, side, distance, stop)
  BY <1>1, <1>10, <1>11, <1>12 DEF NewTrailing
<1>14. NewExit(d.normal)
  BY <1>1, <1>2, <1>5, <1>13 DEF NewExit
<1> QED BY <1>14 DEF d

LEMMA ExitsPush ==
  ASSUME Books, issued \subseteq ExitOrders, exit_on_trade \/ on_price_changed
  PROVE  /\ queue.normal # <<>> /\ Head(queue.normal).event \in {"TradeToExit", "PriceToExit"}
         /\ \/ queue'.normal = Tail(queue.normal) /\ gateway' = gateway
               /\ UNCHANGED <<omExitVars, m_exit_sub>>
            \/ \E n : NewExit(n)
<1>1. PICK k \in {"TradeToExit", "PriceToExit"} : Runs(k)
  BY DEF exit_on_trade, on_price_changed
<1>2. k \in NormalKinds
  BY DEF NormalKinds, GatewayKinds
<1>3. /\ IsQueue(queue) /\ queue.normal # <<>> /\ Head(queue.normal).event = k
      /\ Popped.normal = Tail(queue.normal)
      /\ IsQueue(Discarded(Popped)) /\ Rest(Discarded(Popped).normal)
  BY <1>1, <1>2, TakesHead, DiscardedRests
<1>4. \/ queue' = Popped /\ gateway' = gateway /\ UNCHANGED <<omExitVars, m_exit_sub>>
      \/ \E tp, sl : send_tpsl(tp, sl)
      \/ \E side, distance : send_trailing_stop(side, distance)
  BY Zenon DEF exit_on_trade, on_price_changed
<1>5. (\E tp, sl : send_tpsl(tp, sl)) => \E n : NewExit(n)
  BY <1>3, TpslSent DEF Books
<1>6. (\E side, distance : send_trailing_stop(side, distance)) => \E n : NewExit(n)
  BY <1>3, TrailingSent DEF Books
<1> QED BY <1>1, <1>3, <1>4, <1>5, <1>6

(* The entries of a TP/SL that triggers *)
LEMMA TpslNews ==
  ASSUME NEW pos0 \in Int, NEW tpsl0, NEW a, NEW pos \in Int, NEW tpsl,
         TpslPart(pos0, tpsl0, a, pos, tpsl)
  PROVE  IsList(Entries(a)) /\ Kinds(Entries(a), {"TpslUpdated", "Trade", "InstanceTrade"})
<1> DEFINE K == {"TpslUpdated", "Trade", "InstanceTrade"}
<1>1. CASE a = <<>>
  <2> HIDE DEF K
  <2> QED BY <1>1, EntriesOfNothing, KindsOfNothing DEF K
<1>2. CASE a # <<>>
  <2>1. PICK p : a = <<TpslUpdatedEvent(tpsl0.guid, FALSE, TRUE, FALSE),
                       TradeEvent(tpsl0.guid, -pos0, p)>>
    BY <1>2 DEF TpslPart
  <2> DEFINE e == TpslUpdatedEvent(tpsl0.guid, FALSE, TRUE, FALSE)
             x == <<e>>
             v == -pos0
             f == TradeEvent(tpsl0.guid, v, p)
             y == <<f>>
             tr == Entries(y)
  <2>2. a = x \o y /\ v \in Int
    <3>1. a = <<e, f>> /\ v \in Int
      BY <2>1
    <3> HIDE DEF e, f, v
    <3> QED BY <3>1, LiteralLists
  <2>3. Entries(x) = x /\ Kinds(x, K) /\ IsList(x)
    <3>1. e.event \in GatewayKinds \ {"Trade", "InstanceTrade"} /\ e.event \in K
      BY DEF TpslUpdatedEvent, GatewayKinds
    <3> HIDE DEF e, K
    <3> QED BY <3>1, AnswerMoves, KindsOfOne
  <2>4. IsList(tr) /\ Kinds(tr, {"Trade", "InstanceTrade"}) /\ IsList(y)
    <3> HIDE DEF v
    <3>1. Whole(tr) /\ Kinds(tr, {"Trade", "InstanceTrade"})
      BY <2>2, EntriesOfTrade
    <3> QED BY <3>1, LiteralLists DEF Whole
  <2>5. Kinds(tr, K)
    <3> HIDE DEF tr
    <3> QED BY <2>4, KindsSubset
  <2> HIDE DEF x, y, K
  <2>6. Entries(a) = x \o tr
    BY <2>2, <2>3, <2>4, EntriesConcat
  <2> HIDE DEF tr
  <2> QED BY <2>3, <2>4, <2>5, <2>6, KindsConcat, ListConcat DEF K
<1> QED BY <1>1, <1>2

LEMMA PricePush ==
  ASSUME Books, NEW price, NEW candles \in 0 .. MaxCandles, HandlePrice(price, candles)
  PROVE  /\ queue.normal = <<>>
         /\ \E n, s : /\ PriceNews(gateway, price, n, gateway')
                      /\ IsList(n) /\ IsList(s) /\ Kinds(s, {"Stop"})
                      /\ queue'.normal = n \o s
<1> DEFINE q  == AfterPrice(price, candles)
           gw == [on_new_price(gateway, price) EXCEPT !.events = <<>>]
           l  == <<E("Stop")>>
           o  == <<>>
           K  == {"Stop"}
<1>1. Shapes /\ gateway' = gw /\ Runs("Price") /\ IsQueue(queue)
  BY DEF Books, Shapes, HandlePrice
<1>2. IsQueue(q) /\ PriceNews(gateway, price, q.normal, gw)
  BY <1>1, PriceQueued
<1>3. queue.normal = <<>>
  BY <1>1, PopLow DEF LowKinds
<1>4. \/ queue' = q \/ queue' = WithNormal(q, l)
      \/ queue' = [q EXCEPT !.low = Append(@, E("Price"))]
  BY DEF HandlePrice, NextPrice
<1>5. IsList(l) /\ Kinds(l, K) /\ K \subseteq NormalKinds \ {"InstanceTrade"}
  BY KindsOfOne DEF E, NormalKinds, GatewayKinds
<1>6. IsList(o) /\ Kinds(o, K)
  BY KindsOfNothing
<1>7. IsList(q.normal) /\ q.normal \o o = q.normal
  BY <1>2, LiteralLists DEF IsQueue, Whole
<1> HIDE DEF q, l, K, gw, o
<1>8. queue'.normal = q.normal \o l \/ queue'.normal = q.normal \o o
  <2>1. CASE queue' = WithNormal(q, l)
    BY <1>2, <1>5, <2>1, PushOthers DEF Follows
  <2>2. CASE queue' = [q EXCEPT !.low = Append(@, E("Price"))]
    BY <1>2, <1>7, <2>2, PricePushed
  <2> QED BY <1>4, <1>7, <2>1, <2>2
<1>9. \E n, s : /\ PriceNews(gateway, price, n, gateway')
                /\ IsList(n) /\ IsList(s) /\ Kinds(s, K)
                /\ queue'.normal = n \o s
  BY <1>1, <1>2, <1>5, <1>6, <1>7, <1>8
<1> QED BY <1>3, <1>9 DEF K

-----------------------------------------------------------------------------
(* The stop loss that is shown *)
IsStop(o) ==
  o = [kind |-> o.kind, side |-> o.side, distance |-> o.distance, active |-> o.active]

(* When the responses in the list q are handled, the price shown, a before, is stop. *)
Shows(q, a, stop) ==
  \E e0, e : Final(q, "TrailingUpdated", e0, e) /\ e0.stop_loss = a /\ e.stop_loss = {stop}

Shown ==
  m_trailing_stop # None /\ gateway.m_trailing_stop # None =>
    /\ gateway.m_trailing_stop.guid = m_trailing_stop
    /\ Shows(queue.normal, exitOrder[m_trailing_stop].active, gateway.m_trailing_stop.stop)

Stops ==
  /\ issued \subseteq ExitOrders
  /\ exitOrder = [g \in ExitOrders |-> exitOrder[g]]
  /\ m_tpsl # None => m_tpsl \in issued
  /\ m_trailing_stop # None =>
       /\ m_trailing_stop \in issued /\ m_trailing_stop # m_tpsl
       /\ IsStop(exitOrder[m_trailing_stop])
  /\ Shown

LEMMA GetsPasses ==
  ASSUME IsQueue(queue), NEW k, k # "ExitUpdated",
         queue.normal # <<>> => Head(queue.normal).event # k, NEW K, k \notin K, Gets(K)
  PROVE  Passes(k)
<1>1. PICK n, l : Rest(n) /\ IsList(l) /\ Kinds(l, K) /\ queue'.normal = n \o l
  BY DEF Gets
<1>2. n = queue.normal \/ Head(queue.normal).event # k
  BY <1>1 DEF Rest
<1>3. NoneOf(l, k)
  BY <1>1, NoneOfSome
<1> QED BY <1>1, <1>2, <1>3, RestPasses

LEMMA StopsKept ==
  ASSUME Stops, issued' = issued, m_trailing_stop' = m_trailing_stop,
         m_tpsl' \in {None, m_tpsl},
         exitOrder' = [g \in ExitOrders |-> exitOrder'[g]],
         m_trailing_stop # None => exitOrder'[m_trailing_stop] = exitOrder[m_trailing_stop],
         gateway'.m_trailing_stop = gateway.m_trailing_stop,
         Passes("TrailingUpdated")
  PROVE  Stops'
<1>1. Shown'
  <2> SUFFICES ASSUME m_trailing_stop # None, gateway.m_trailing_stop # None
               PROVE  /\ gateway.m_trailing_stop.guid = m_trailing_stop
                      /\ Shows(queue'.normal, exitOrder'[m_trailing_stop].active,
                               gateway.m_trailing_stop.stop)
    BY DEF Shown, Shows
  <2>1. /\ gateway.m_trailing_stop.guid = m_trailing_stop
        /\ Shows(queue.normal, exitOrder[m_trailing_stop].active,
                 gateway.m_trailing_stop.stop)
    BY DEF Stops, Shown
  <2> QED BY <2>1 DEF Shows, Passes
<1>2. m_trailing_stop # None => IsStop(exitOrder'[m_trailing_stop])
  BY DEF Stops
<1>3. /\ issued \subseteq ExitOrders /\ (m_tpsl # None => m_tpsl \in issued)
      /\ m_trailing_stop # None => m_trailing_stop \in issued /\ m_trailing_stop # m_tpsl
  BY DEF Stops
<1> QED BY <1>1, <1>2, <1>3 DEF Stops, IsStop

(* Most steps leave the exit orders alone. *)
LEMMA StopsApart ==
  ASSUME Books, Stops, UNCHANGED <<exitOrder, issued, m_tpsl, m_trailing_stop>>,
         gateway'.m_trailing_stop = gateway.m_trailing_stop,
         queue.normal # <<>> => Head(queue.normal).event # "TrailingUpdated",
         NEW K, "TrailingUpdated" \notin K, Gets(K)
  PROVE  Stops'
<1>1. IsQueue(queue)
  BY DEF Books, Shapes
<1>2. Passes("TrailingUpdated")
  BY <1>1, GetsPasses
<1> QED BY <1>2, StopsKept DEF Stops

LEMMA StopsAnswered ==
  ASSUME Books, Stops, on_tpsl_reposnse \/ on_trailing_stop_response
  PROVE  Stops'
<1> DEFINE q == queue.normal
<1>1. IsQueue(queue) /\ IsList(q)
  BY DEF Books, Shapes, IsQueue, Whole
<1>2. PICK l : /\ q # <<>> /\ Next_Event = Head(q)
               /\ IsList(l) /\ Kinds(l, {"ExitUpdated"}) /\ queue'.normal = Tail(q) \o l
  BY AnswersPush
<1>3. CASE on_tpsl_reposnse
  <2>1. Head(q).event # "TrailingUpdated"
    BY <1>2, <1>3 DEF on_tpsl_reposnse, Runs
  <2>2. Gets({"ExitUpdated"})
    BY <1>2 DEF Gets, Rest
  <2>3. Passes("TrailingUpdated")
    BY <1>1, <2>1, <2>2, GetsPasses
  <2>4. /\ issued' = issued /\ m_trailing_stop' = m_trailing_stop /\ gateway' = gateway
        /\ m_tpsl' \in {None, m_tpsl}
        /\ \/ exitOrder' = exitOrder
           \/ m_tpsl # None /\ \E r : exitOrder' = [exitOrder EXCEPT ![m_tpsl] = r]
    BY <1>3 DEF on_tpsl_reposnse
  <2>5. /\ exitOrder = [g \in ExitOrders |-> exitOrder[g]]
        /\ m_trailing_stop # None => m_trailing_stop \in ExitOrders /\ m_trailing_stop # m_tpsl
    BY DEF Stops
  <2>6. /\ exitOrder' = [g \in ExitOrders |-> exitOrder'[g]]
        /\ m_trailing_stop # None => exitOrder'[m_trailing_stop] = exitOrder[m_trailing_stop]
    BY <2>4, <2>5
  <2> QED BY <2>3, <2>4, <2>6, StopsKept
<1>4. CASE on_trailing_stop_response
  <2> DEFINE stop == Next_Event.stop_loss
  <2>1. Head(q).event = "TrailingUpdated" /\ Head(q).stop_loss = stop
    BY <1>2, <1>4 DEF on_trailing_stop_response, Runs
  <2>2. /\ issued' = issued /\ gateway' = gateway /\ m_tpsl' = m_tpsl
        /\ \/ exitOrder' = exitOrder /\ m_trailing_stop' = None
           \/ /\ m_trailing_stop # None /\ m_trailing_stop' = m_trailing_stop
              /\ exitOrder' = [exitOrder EXCEPT ![m_trailing_stop].active = stop]
    BY <1>4 DEF on_trailing_stop_response, WithActiveStop
  <2>3. CASE exitOrder' = exitOrder /\ m_trailing_stop' = None
    BY <2>2, <2>3 DEF Stops, Shown
  <2>4. ASSUME m_trailing_stop # None, m_trailing_stop' = m_trailing_stop,
               exitOrder' = [exitOrder EXCEPT ![m_trailing_stop].active = stop]
        PROVE  Stops'
    <3> DEFINE m == m_trailing_stop
               o == exitOrder[m]
    <3>1. /\ issued \subseteq ExitOrders /\ exitOrder = [g \in ExitOrders |-> exitOrder[g]]
          /\ (m_tpsl # None => m_tpsl \in issued)
          /\ m \in issued /\ m # m_tpsl /\ IsStop(o) /\ Shown
      BY <2>4 DEF Stops
    <3>2. exitOrder'[m] = [o EXCEPT !.active = stop]
      BY <2>4, <3>1
    <3>3. exitOrder' = [g \in ExitOrders |-> exitOrder'[g]]
      BY <2>4, <3>1
    <3>4. IsStop(exitOrder'[m]) /\ exitOrder'[m].active = stop
      <4> HIDE DEF o, stop
      <4>1. [o EXCEPT !.active = stop] =
              [kind |-> o.kind, side |-> o.side, distance |-> o.distance, active |-> stop]
        BY <3>1 DEF IsStop
      <4> QED BY <3>2, <4>1 DEF IsStop
    <3>5. ASSUME gateway.m_trailing_stop # None
          PROVE  /\ gateway.m_trailing_stop.guid = m
                 /\ Shows(queue'.normal, stop, gateway.m_trailing_stop.stop)
      <4>1. /\ gateway.m_trailing_stop.guid = m
            /\ Shows(q, o.active, gateway.m_trailing_stop.stop)
        BY <2>4, <3>1, <3>5 DEF Shown
      <4>2. PICK e0, e : Final(q, "TrailingUpdated", e0, e)
                         /\ e.stop_loss = {gateway.m_trailing_stop.stop}
        BY <4>1 DEF Shows
      <4> DEFINE h == Head(q)
                 t == Tail(q)
      <4>3. IsList(t) /\ Final(t, "TrailingUpdated", h, e)
        BY <1>1, <1>2, <2>1, <4>2, FinalTail, ListTail
      <4>4. NoneOf(l, "TrailingUpdated")
        BY <1>2, NoneOfSome
      <4> HIDE DEF t, h
      <4>5. Final(t \o l, "TrailingUpdated", h, e)
        BY <1>2, <4>3, <4>4, FinalConcat
      <4>6. h.stop_loss = stop /\ queue'.normal = t \o l
        BY <1>2, <2>1 DEF h, t
      <4> QED BY <4>1, <4>2, <4>5, <4>6 DEF Shows
    <3>6. Shown'
      <4> HIDE DEF stop
      <4>1. gateway' = gateway /\ m_trailing_stop' = m
        BY <2>2, <2>4
      <4> QED BY <3>4, <3>5, <4>1 DEF Shown, Shows
    <3> QED BY <2>2, <2>4, <3>1, <3>3, <3>4, <3>6 DEF Stops, IsStop
  <2> QED BY <2>2, <2>3, <2>4
<1> QED BY <1>3, <1>4

LEMMA StopsSent ==
  ASSUME Books, Stops, queue.normal # <<>>, Head(queue.normal).event # "TrailingUpdated",
         NEW n, NewExit(n)
  PROVE  Stops'
<1> DEFINE q == queue.normal
           k == "TrailingUpdated"
<1>1. IsQueue(queue) /\ IsList(q) /\ IsList(n) /\ Rest(n)
  BY DEF Books, Shapes, IsQueue, Whole, NewExit
<1>2. /\ issued \subseteq ExitOrders /\ exitOrder = [g \in ExitOrders |-> exitOrder[g]]
      /\ m_tpsl # None => m_tpsl \in issued
      /\ m_trailing_stop # None =>
           /\ m_trailing_stop \in issued /\ m_trailing_stop # m_tpsl
           /\ IsStop(exitOrder[m_trailing_stop])
      /\ Shown
  BY DEF Stops
<1>3. PICK g : /\ g \in ExitOrders /\ g \notin issued /\ issued' = issued \cup {g}
               /\ \/ \E fields, e, tp, sl : NewTpsl(n, g, fields, e, tp, sl)
                  \/ \E side, distance, stop : NewTrailing(n, g, side, distance, stop)
  BY DEF NewExit
<1>4. issued' \subseteq ExitOrders
  BY <1>2, <1>3
<1>5. ASSUME NEW fields, NEW e, NEW tp, NEW sl, NewTpsl(n, g, fields, e, tp, sl)
      PROVE  Stops'
  <2>0. /\ exitOrder' = [exitOrder EXCEPT ![g] = fields]
        /\ e.event = "TpslUpdated" /\ queue'.normal = n \o <<e>>
        /\ m_tpsl' = g /\ m_trailing_stop' = m_trailing_stop
        /\ gateway'.m_trailing_stop = gateway.m_trailing_stop
    BY <1>5 DEF NewTpsl
  <2> DEFINE l == <<e>>
  <2>1. IsList(l) /\ NoneOf(l, k)
    <3>1. e.event # k
      BY <2>0
    <3> QED BY <3>1, NoneOfOne, LiteralLists
  <2>2. queue'.normal = n \o l
    BY <2>0
  <2> HIDE DEF l, k
  <2>3. Passes(k)
    <3>1. Head(queue.normal).event # k /\ k # "ExitUpdated"
      BY DEF k
    <3> QED BY <1>1, <2>1, <2>2, <3>1, RestPasses
  <2>4. m_trailing_stop # None => exitOrder'[m_trailing_stop] = exitOrder[m_trailing_stop]
    BY <1>2, <1>3, <2>0
  <2>5. exitOrder' = [x \in ExitOrders |-> exitOrder'[x]]
    BY <1>2, <2>0
  <2>6. Shown'
    <3> SUFFICES ASSUME m_trailing_stop # None, gateway.m_trailing_stop # None
                 PROVE  /\ gateway.m_trailing_stop.guid = m_trailing_stop
                        /\ Shows(queue'.normal, exitOrder'[m_trailing_stop].active,
                                 gateway.m_trailing_stop.stop)
      BY <2>0 DEF Shown, Shows
    <3>1. /\ gateway.m_trailing_stop.guid = m_trailing_stop
          /\ Shows(queue.normal, exitOrder[m_trailing_stop].active,
                   gateway.m_trailing_stop.stop)
      BY <1>2 DEF Shown
    <3> QED BY <2>3, <2>4, <3>1 DEF Shows, Passes, k
  <2>7. m_trailing_stop # None =>
          m_trailing_stop \in issued' /\ m_trailing_stop # g /\ IsStop(exitOrder'[m_trailing_stop])
    BY <1>2, <1>3, <2>4
  <2> QED BY <1>3, <1>4, <2>0, <2>5, <2>6, <2>7 DEF Stops, IsStop
<1>6. ASSUME NEW side, NEW distance, NEW stop, NewTrailing(n, g, side, distance, stop)
      PROVE  Stops'
  <2>0. /\ exitOrder' = [exitOrder EXCEPT ![g] =
             [kind |-> "trailing", side |-> side, distance |-> distance, active |-> {}]]
        /\ queue'.normal = n \o <<TrailingUpdatedEvent({stop})>>
        /\ m_trailing_stop' = g /\ m_tpsl' = m_tpsl
        /\ gateway'.m_trailing_stop =
             [guid |-> g, side |-> side, distance |-> distance, stop |-> stop]
    BY <1>6 DEF NewTrailing
  <2> DEFINE f == [kind |-> "trailing", side |-> side, distance |-> distance, active |-> {}]
             e == TrailingUpdatedEvent({stop})
             e0 == TrailingUpdatedEvent({})
             l == <<e>>
  <2>1. exitOrder'[g] = f /\ exitOrder' = [x \in ExitOrders |-> exitOrder'[x]]
    BY <1>2, <1>3, <2>0
  <2>2. IsStop(f) /\ f.active = {}
    BY DEF IsStop
  <2>3. e.event = k /\ e.stop_loss = {stop} /\ e0.stop_loss = {}
    BY DEF TrailingUpdatedEvent
  <2>4. queue'.normal = n \o l
    BY <2>0
  <2> HIDE DEF e, e0, k
  <2>5. LastOf(l, k, e) /\ IsList(l)
    BY <2>3, LastOfOne, LiteralLists
  <2> HIDE DEF l, f
  <2>6. Final(n \o l, k, e0, e)
    BY <1>1, <2>5, FinalConcat
  <2>7. gateway'.m_trailing_stop.guid = g /\ gateway'.m_trailing_stop.stop = stop
    BY <2>0
  <2>8. Shows(queue'.normal, {}, stop)
    BY <2>3, <2>4, <2>6 DEF Shows, k
  <2>9. Shown'
    BY <2>0, <2>1, <2>2, <2>7, <2>8 DEF Shown, Shows
  <2>10. (m_tpsl # None => m_tpsl \in issued' /\ m_tpsl # g) /\ g \in issued'
    BY <1>2, <1>3
  <2>11. IsStop(exitOrder'[g]) /\ m_trailing_stop' = g /\ m_tpsl' = m_tpsl
    BY <2>0, <2>1, <2>2
  <2> QED BY <1>4, <2>1, <2>9, <2>10, <2>11 DEF Stops, IsStop
<1> HIDE DEF k
<1> QED BY <1>3, <1>5, <1>6

LEMMA StopsPriced ==
  ASSUME Books, Stops, NEW price, NEW candles \in 0 .. MaxCandles,
         HandlePrice(price, candles)
  PROVE  Stops'
<1> DEFINE k == "TrailingUpdated"
           m == m_trailing_stop
<1>1. PICK n, s : /\ PriceNews(gateway, price, n, gateway')
                  /\ IsList(n) /\ IsList(s) /\ Kinds(s, {"Stop"})
                  /\ queue'.normal = n \o s
  BY PricePush
<1>2. queue.normal = <<>>
  BY PricePush
<1>3. PICK a, b, tpsl, t, x, z : \E last \in Int :
        /\ PriceOutcome(gateway, a, b, last, tpsl, t)
        /\ gateway' = Gateway(last, price, tpsl, t, <<>>)
        /\ IsList(x) /\ Kinds(x, {"PriceToExit", "SignalToEntry"})
        /\ IsList(z) /\ Kinds(z, {"PriceToExit", "SignalToEntry"})
        /\ n = (x \o Entries(a \o b)) \o z
  BY <1>1, ZenonT(30) DEF PriceNews
<1>4. PICK last \in Int :
        /\ PriceOutcome(gateway, a, b, last, tpsl, t)
        /\ gateway' = Gateway(last, price, tpsl, t, <<>>)
        /\ IsList(x) /\ Kinds(x, {"PriceToExit", "SignalToEntry"})
        /\ IsList(z) /\ Kinds(z, {"PriceToExit", "SignalToEntry"})
        /\ n = (x \o Entries(a \o b)) \o z
  BY <1>3
<1>5. gateway'.m_trailing_stop = t
  BY <1>4 DEF Gateway
<1>6. UNCHANGED <<exitOrder, issued, m_tpsl, m_trailing_stop>>
  BY DEF HandlePrice, omExitVars
<1>7. IsGateway(gateway) /\ gateway.m_pos_volume \in Int
  BY DEF Books, Shapes, IsGateway
<1>8. PICK pos \in Int : /\ TpslPart(gateway.m_pos_volume, gateway.m_tpsl, a, pos, tpsl)
                         /\ TrailingPart(pos, gateway.m_trailing_stop, b, last, t)
  BY <1>4 DEF PriceOutcome
<1> DEFINE A == Entries(a)
           B == Entries(b)
<1>9. IsList(A) /\ Kinds(A, {"TpslUpdated", "Trade", "InstanceTrade"})
  BY <1>7, <1>8, TpslNews
<1>10. Entries(a \o b) = A \o B /\ IsList(B)
  BY <1>4, <1>7, <1>8, PriceEntries, TrailingEntries, MovesList
<1>11. NoneOf(x, k) /\ NoneOf(z, k) /\ NoneOf(s, k) /\ NoneOf(A, k)
  BY <1>1, <1>4, <1>9, NoneOfSome
<1> HIDE DEF A, B
<1>12. queue'.normal = ((x \o (A \o B)) \o z) \o s
  BY <1>1, <1>4, <1>10
<1>13. IsList(A \o B) /\ IsList(x \o (A \o B)) /\ IsList((x \o (A \o B)) \o z)
  <2>1. IsList(A \o B)
    BY <1>9, <1>10, ListConcat
  <2> DEFINE c == A \o B
  <2> HIDE DEF c
  <2>2. IsList(c)
    BY <2>1 DEF c
  <2>3. IsList(x \o c)
    BY <1>4, <2>2, ListConcat
  <2> QED BY <1>4, <2>1, <2>3, ListConcat DEF c
<1> HIDE DEF k
<1>14. NoneOf(B, k) => NoneOf(queue'.normal, k)
  <2> SUFFICES ASSUME NoneOf(B, k) PROVE NoneOf(queue'.normal, k)
    OBVIOUS
  <2>1. NoneOf(A \o B, k)
    BY <1>9, <1>10, <1>11, NoneOfConcat
  <2> DEFINE c == A \o B
             d == x \o c
             f == d \o z
  <2>2. IsList(c) /\ IsList(d) /\ IsList(f) /\ NoneOf(c, k) /\ queue'.normal = f \o s
    BY <1>12, <1>13, <2>1
  <2> HIDE DEF c
  <2>3. NoneOf(d, k)
    BY <1>4, <1>11, <2>2, NoneOfConcat
  <2> HIDE DEF d
  <2>4. NoneOf(f, k)
    BY <1>4, <1>11, <2>2, <2>3, NoneOfConcat
  <2> HIDE DEF f
  <2> QED BY <1>1, <1>11, <2>2, <2>4, NoneOfConcat
<1>15. ASSUME NEW e, LastOf(B, k, e) PROVE LastOf(queue'.normal, k, e)
  <2>1. LastOf(A \o B, k, e)
    BY <1>9, <1>10, <1>15, LastOfConcat
  <2> DEFINE c == A \o B
             d == x \o c
             f == d \o z
  <2>2. IsList(c) /\ IsList(d) /\ IsList(f) /\ LastOf(c, k, e) /\ queue'.normal = f \o s
    BY <1>12, <1>13, <2>1
  <2> HIDE DEF c
  <2>3. LastOf(d, k, e)
    BY <1>4, <2>2, LastOfConcat
  <2> HIDE DEF d
  <2>4. LastOf(f, k, e)
    BY <1>4, <1>11, <2>2, <2>3, LastOfConcat
  <2> HIDE DEF f
  <2> QED BY <1>1, <1>11, <2>2, <2>4, LastOfConcat
<1>16. ASSUME m # None, t # None
       PROVE  /\ t.guid = m /\ Shows(queue'.normal, exitOrder[m].active, t.stop)
  <2> DEFINE t0 == gateway.m_trailing_stop
  <2>1. t0 # None
    BY <1>8, <1>16 DEF TrailingPart
  <2>2. t0.guid = m /\ Shows(queue.normal, exitOrder[m].active, t0.stop) /\ IsTrailingStop(t0)
    BY <1>7, <1>16, <2>1 DEF Stops, Shown, IsGateway
  <2>3. PICK e0, e1 : /\ Final(queue.normal, k, e0, e1) /\ e0.stop_loss = exitOrder[m].active
                      /\ e1.stop_loss = {t0.stop}
    BY <2>2 DEF Shows, k
  <2>4. e1 = e0
    <3> DEFINE o == <<>>
    <3>1. queue.normal = o /\ IsList(o)
      BY <1>2, LiteralLists
    <3>2. ~LastOf(o, k, e1)
      BY LastOfIsThere, LiteralLists
    <3> HIDE DEF o
    <3> QED BY <2>3, <3>1, <3>2 DEF Final
  <2>5. CASE b = <<>> /\ t = t0
    <3>1. NoneOf(B, k)
      BY <2>5, EntriesOfNothing, NoneOfNothing DEF B
    <3>2. Final(queue'.normal, k, e0, e0)
      BY <1>14, <3>1 DEF Final
    <3> QED BY <2>2, <2>3, <2>4, <2>5, <3>2 DEF Shows, k
  <2>6. CASE \E new : b = <<TrailingUpdatedEvent({new})>> /\ t = [t0 EXCEPT !.stop = new]
    <3>1. PICK new : b = <<TrailingUpdatedEvent({new})>> /\ t = [t0 EXCEPT !.stop = new]
      BY <2>6
    <3> DEFINE e == TrailingUpdatedEvent({new})
    <3>2. e.event = k /\ e.stop_loss = {new} /\ e.event \in GatewayKinds \ {"Trade", "InstanceTrade"}
      BY DEF TrailingUpdatedEvent, k, GatewayKinds
    <3>3. b = <<e>>
      BY <3>1
    <3> HIDE DEF e
    <3>4. B = <<e>>
      BY <3>2, <3>3, AnswerMoves DEF B
    <3>5. LastOf(B, k, e)
      BY <3>2, <3>4, LastOfOne
    <3>6. Final(queue'.normal, k, e0, e)
      BY <1>15, <3>5 DEF Final
    <3>7. t.guid = t0.guid /\ t.stop = new
      <4> HIDE DEF t0
      <4> QED BY <2>2, <3>1 DEF IsTrailingStop
    <3> QED BY <2>2, <2>3, <3>2, <3>6, <3>7 DEF Shows, k
  <2> QED BY <1>8, <1>16, <2>1, <2>5, <2>6 DEF TrailingPart
<1>17. Shown'
  BY <1>5, <1>6, <1>16 DEF Shown, Shows
<1> QED BY <1>6, <1>17 DEF Stops, IsStop

LEMMA StopsStep ==
  ASSUME started, Books, Stops, [Next]_vars
  PROVE  Stops'
<1> DEFINE k == "TrailingUpdated"
           q == queue.normal
           Same == UNCHANGED <<exitOrder, issued, m_tpsl, m_trailing_stop>>
<1>1. ~HandleStart
  BY NeverStart DEF HandleStart
<1>2. CASE run_async \/ stop_async \/ AnswerOwn \/ AnswerForeign \/ HandleGenerator \/ HandleError
  <2>1. PICK l : IsList(l) /\ Kinds(l, {"Stop"}) /\ queue'.normal = q \o l
    BY <1>2, OthersPush
  <2>2. Gets({"Stop"})
    BY <2>1 DEF Gets, Rest
  <2>3. Same /\ gateway' = gateway
    BY <1>2 DEF run_async, stop_async, AnswerOwn, AnswerForeign, HandleGenerator, HandleError,
                omExitVars
  <2>4. Passes(k)
    <3>1. IsQueue(queue) /\ IsList(q)
      BY DEF Books, Shapes, IsQueue, Whole
    <3>2. NoneOf(l, k)
      BY <2>1, NoneOfSome
    <3> QED BY <2>1, <3>1, <3>2, RestPasses DEF Rest
  <2> QED BY <2>3, <2>4, StopsKept DEF Stops
<1>3. CASE \/ HandleStopThrows \/ HandleOpenedPos \/ HandleOrderResponse
           \/ HandleOrderTrade \/ ForwardError
           \/ on_exit_trade \/ exit_on_opened_pos \/ exit_on_price_levels
  <2>1. q # <<>> /\ Next_Event = Head(q) /\ queue'.normal = Tail(q)
    BY <1>3, TakersPush
  <2>2. Head(q).event # k
    BY <1>3, <2>1 DEF Runs, HandleStopThrows, HandleOpenedPos, HandleOrderResponse,
         HandleOrderTrade, ForwardError, on_exit_trade, exit_on_opened_pos,
         exit_on_price_levels
  <2>3. Same /\ gateway' = gateway
    BY <1>3 DEF HandleStopThrows, HandleOpenedPos, HandleOrderResponse,
         HandleOrderTrade, ForwardError, on_exit_trade, exit_on_opened_pos,
         exit_on_price_levels, omExitVars
  <2>4. Gets({})
    <3>1. Rest(Tail(q)) /\ IsQueue(queue)
      BY <2>1 DEF Rest, Books, Shapes
    <3> QED BY <2>1, <3>1, GetsNothing
  <2> QED BY <2>2, <2>3, <2>4, StopsApart
<1>4. CASE HandleStop \/ \E side \in {-1, 0, 1} : HandleSignal(side)
  <2>1. /\ q # <<>> /\ Head(q).event # k
        /\ gateway'.m_trailing_stop = gateway.m_trailing_stop
        /\ Gets({"OrderResponse", "TpslUpdated", "Trade", "InstanceTrade"})
    BY <1>4, OrdersPush
  <2>2. Same
    BY <1>4 DEF HandleStop, HandleSignal, omExitVars
  <2> QED BY <2>1, <2>2, StopsApart
<1>5. CASE HandleTrade
  <2>1. /\ q # <<>> /\ Head(q).event # k
        /\ Gets({"PriceLevels", "OpenedPosToEntry", "OpenedPosToExit", "TradeToExit"})
    BY <1>5, TradePush
  <2>2. Same /\ gateway' = gateway
    BY <1>5 DEF HandleTrade, omExitVars
  <2> QED BY <2>1, <2>2, StopsApart
<1>6. CASE tpsl_on_updated \/ on_trailing_stop_updated
  <2>1. q # <<>> /\ Head(q).event # k /\ Gets({"ExitError"})
    BY <1>6, UpdatedPush
  <2>2. Same /\ gateway' = gateway
    BY <1>6 DEF tpsl_on_updated, on_trailing_stop_updated, omExitVars
  <2> QED BY <2>1, <2>2, StopsApart
<1>7. CASE on_tpsl_reposnse \/ on_trailing_stop_response
  BY <1>7, StopsAnswered
<1>8. CASE exit_on_trade \/ on_price_changed
  <2>1. /\ q # <<>> /\ Head(q).event # k
        /\ \/ queue'.normal = Tail(q) /\ gateway' = gateway /\ UNCHANGED omExitVars
           \/ \E n : NewExit(n)
    BY <1>8, ExitsPush DEF Stops
  <2>2. CASE queue'.normal = Tail(q) /\ gateway' = gateway /\ UNCHANGED omExitVars
    <3>1. Rest(Tail(q)) /\ IsQueue(queue)
      BY <2>1 DEF Rest, Books, Shapes
    <3>2. Gets({})
      BY <2>2, <3>1, GetsNothing
    <3>3. Same
      BY <2>2 DEF omExitVars
    <3> QED BY <2>1, <2>2, <3>2, <3>3, StopsApart
  <2> QED BY <2>1, <2>2, StopsSent
<1>9. CASE \E price \in Prices, candles \in 0 .. MaxCandles : HandlePrice(price, candles)
  BY <1>9, StopsPriced
<1>10. CASE UNCHANGED vars
  <2>1. UNCHANGED <<queue, gateway>> /\ Same
    BY <1>10 DEF vars, omExitVars
  <2>2. Passes(k)
    BY <2>1 DEF Passes
  <2> QED BY <2>1, <2>2, StopsKept DEF Stops
<1> QED BY <1>1, <1>2, <1>3, <1>4, <1>5, <1>6, <1>7, <1>8, <1>9, <1>10
        DEF Next, LoopStep, ExitHandlers

LEMMA IdleStops ==
  ASSUME Idle
  PROVE  Stops
<1>1. m_tpsl = None /\ m_trailing_stop = None /\ issued = {}
      /\ exitOrder = [g \in ExitOrders |-> NoOrder]
  BY DEF Idle
<1> QED BY <1>1 DEF Stops, Shown

LEMMA IdleStopsNext == (Idle => Stops)'
<1>1. Idle => Stops
  BY IdleStops
<1> QED BY <1>1, PTL

(* The inductive invariant of the trailing stop *)
StopsAreKept == BooksAgree /\ Stops

LEMMA StopsAreKeptStep ==
  ASSUME StopsAreKept, [Next]_vars
  PROVE  StopsAreKept'
<1>1. BooksAgree'
  BY StepKept DEF StopsAreKept
<1>2. CASE started /\ Books
  BY <1>1, <1>2, StopsStep DEF StopsAreKept
<1>3. CASE Before
  <2>1. Before' \/ Fresh'
    BY <1>3, BeforeStep
  <2>2. Idle'
    BY <2>1 DEF Before, Fresh
  <2> QED BY <1>1, <2>2, IdleStopsNext DEF StopsAreKept
<1> QED BY <1>2, <1>3 DEF StopsAreKept, BooksAgree

(* When the responses are handled, the stop loss that the instance shows of its
   trailing stop is the one that the gateway will execute, also when the no-loss stop
   has replaced the first one before the first one's responses were handled
   (OrderManager::on_trailing_stop_response, DynamicTrailingStopLossStrategy). *)
THEOREM ShownStopWillExecute == Spec => []StopLossShownIsCurrent
<1>1. Init => StopsAreKept
  BY InitKept, InitBefore, IdleStops DEF StopsAreKept, Before
<1>2. StopsAreKept => StopLossShownIsCurrent
  <2> SUFFICES ASSUME Stops, Quiet, m_trailing_stop # None, gateway.m_trailing_stop # None
               PROVE  /\ gateway.m_trailing_stop.guid = m_trailing_stop
                      /\ exitOrder[m_trailing_stop].active = {gateway.m_trailing_stop.stop}
    BY DEF StopLossShownIsCurrent, StopsAreKept
  <2> DEFINE o == <<>>
             k == "TrailingUpdated"
  <2>1. queue.normal = o
    BY DEF Quiet
  <2>2. /\ gateway.m_trailing_stop.guid = m_trailing_stop
        /\ Shows(queue.normal, exitOrder[m_trailing_stop].active, gateway.m_trailing_stop.stop)
    BY DEF Stops, Shown
  <2>3. PICK e0, e : /\ Final(queue.normal, k, e0, e)
                     /\ e0.stop_loss = exitOrder[m_trailing_stop].active
                     /\ e.stop_loss = {gateway.m_trailing_stop.stop}
    BY <2>2 DEF Shows
  <2>4. ~LastOf(o, k, e)
    BY LastOfIsThere, LiteralLists
  <2> HIDE DEF o, k
  <2> QED BY <2>1, <2>2, <2>3, <2>4 DEF Final
<1>3. StopsAreKept /\ [Next]_vars => StopsAreKept'
  BY StopsAreKeptStep
<1> QED BY <1>1, <1>2, <1>3, PTL DEF Spec

-----------------------------------------------------------------------------
(* The lists before which, and behind which, a signal may stand *)

(* An entry that says nothing of an order or of the position to the strategy *)
Silent(e) ==
  /\ e.event \notin {"OpenedPosToEntry", "OrderResponse"}
  /\ e.event = "Trade" => e.guid \in ExitOrders

Early(q) == \E S : q \in Seq(S) /\ \A e \in S : Silent(e)
Late(q)  == IsList(q) /\ NoneOf(q, "SignalToEntry")

(* The signals stand before the first news. *)
EarlyLate(q) == \E a, b : Early(a) /\ Late(b) /\ q = a \o b

LEMMA EarlyOfOne ==
  ASSUME NEW e, Silent(e)
  PROVE  Early(<<e>>)
<1> DEFINE q == <<e>>
           S == {e}
<1>1. q \in Seq(S) /\ \A x \in S : Silent(x)
  OBVIOUS
<1> HIDE DEF q, S
<1>2. Early(q)
  BY <1>1 DEF Early
<1> QED BY <1>2 DEF q

LEMMA EarlyOfNothing == Early(<<>>)
<1> DEFINE q == <<>>
           S == {}
<1>1. q \in Seq(S) /\ \A x \in S : Silent(x)
  OBVIOUS
<1> HIDE DEF q, S
<1>2. Early(q)
  BY <1>1 DEF Early
<1> QED BY <1>2 DEF q

LEMMA EarlyList ==
  ASSUME NEW q, Early(q)
  PROVE  IsList(q)
BY DEF Early, IsList

LEMMA EarlyConcat ==
  ASSUME NEW q, NEW r, Early(q), Early(r)
  PROVE  Early(q \o r)
<1>1. PICK S : q \in Seq(S) /\ \A e \in S : Silent(e)
  BY DEF Early
<1>2. PICK T : r \in Seq(T) /\ \A e \in T : Silent(e)
  BY DEF Early
<1>3. q \in Seq(S \cup T) /\ r \in Seq(S \cup T)
  BY <1>1, <1>2, SeqMonotonic
<1>4. q \o r \in Seq(S \cup T)
  BY <1>3
<1>5. \A e \in S \cup T : Silent(e)
  BY <1>1, <1>2
<1> QED BY <1>4, <1>5, Zenon DEF Early

(* Entries of kinds that the strategy is not told of *)
LEMMA EarlyOfKinds ==
  ASSUME NEW q, NEW K, IsList(q), Kinds(q, K),
         K \cap {"OpenedPosToEntry", "OrderResponse", "Trade"} = {}
  PROVE  Early(q)
<1>1. PICK S : q \in Seq(S)
  BY DEF IsList
<1> DEFINE T == {e \in S : e.event \in K}
<1>2. q \in Seq(T)
  <2>1. Len(q) \in Nat /\ \A i \in 1 .. Len(q) : q[i] \in T
    BY <1>1 DEF Kinds
  <2> HIDE DEF T
  <2> QED BY <1>1, <2>1, SeqDef
<1>3. \A e \in T : Silent(e)
  BY DEF Silent
<1> HIDE DEF T
<1> QED BY <1>2, <1>3 DEF Early

LEMMA EarlyTail ==
  ASSUME NEW q, Early(q), q # <<>>
  PROVE  Early(Tail(q)) /\ Silent(Head(q))
<1>1. PICK S : q \in Seq(S) /\ \A e \in S : Silent(e)
  BY DEF Early
<1>2. Tail(q) \in Seq(S) /\ Head(q) \in S
  BY <1>1
<1> QED BY <1>1, <1>2 DEF Early

LEMMA EarlyWithout ==
  ASSUME NEW q, NEW D, Early(q)
  PROVE  Early(Without(q, D))
<1>1. PICK S : q \in Seq(S) /\ \A e \in S : Silent(e)
  BY DEF Early
<1>2. Without(q, D) \in Seq(S)
  BY <1>1, WithoutSelects
<1> QED BY <1>1, <1>2 DEF Early

LEMMA LateConcat ==
  ASSUME NEW q, NEW l, IsList(l), NoneOf(l, "SignalToEntry")
  PROVE  /\ Late(q) => Late(q \o l)
         /\ EarlyLate(q) => EarlyLate(q \o l)
<1>1. \A r : Late(r) => Late(r \o l)
  BY NoneOfConcat, ListConcat DEF Late
<1>2. ASSUME NEW a, NEW b, Early(a), Late(b), q = a \o b
      PROVE  EarlyLate(q \o l)
  <2>1. IsList(a) /\ IsList(b)
    BY <1>2, EarlyList DEF Late
  <2> DEFINE c == b \o l
  <2>2. q \o l = a \o c
    BY <1>2, <2>1, ListAssociative
  <2>3. Late(c)
    BY <1>1, <1>2
  <2> HIDE DEF c
  <2> QED BY <1>2, <2>2, <2>3 DEF EarlyLate
<1> QED BY <1>1, <1>2 DEF EarlyLate

LEMMA LateTail ==
  ASSUME NEW q, q # <<>>
  PROVE  /\ Late(q) => Late(Tail(q)) /\ Head(q).event # "SignalToEntry"
         /\ EarlyLate(q) => \/ Late(Tail(q)) /\ Head(q).event # "SignalToEntry"
                            \/ EarlyLate(Tail(q)) /\ Silent(Head(q))
<1>1. \A r : Late(r) /\ r # <<>> => Late(Tail(r)) /\ Head(r).event # "SignalToEntry"
  <2> TAKE r
  <2> HAVE Late(r) /\ r # <<>>
  <2>1. PICK K : Kinds(r, K) /\ "SignalToEntry" \notin K /\ IsList(r)
    BY DEF Late, NoneOf
  <2>2. IsList(Tail(r)) /\ Kinds(Tail(r), K) /\ Head(r).event \in K
    BY <2>1, KindsTail
  <2> QED BY <2>1, <2>2 DEF Late, NoneOf
<1>2. ASSUME NEW a, NEW b, Early(a), Late(b), q = a \o b
      PROVE  \/ Late(Tail(q)) /\ Head(q).event # "SignalToEntry"
             \/ EarlyLate(Tail(q)) /\ Silent(Head(q))
  <2>1. IsList(a) /\ IsList(b)
    BY <1>2, EarlyList DEF Late
  <2>2. CASE a = <<>>
    <3>1. q = b
      BY <1>2, <2>1, <2>2, LiteralLists
    <3> QED BY <1>1, <1>2, <3>1
  <2>3. CASE a # <<>>
    <3>1. Head(q) = Head(a) /\ Tail(q) = Tail(a) \o b
      BY <1>2, <2>1, <2>3, ListTakes
    <3>2. Early(Tail(a)) /\ Silent(Head(a))
      BY <1>2, <2>3, EarlyTail
    <3> DEFINE t == Tail(a)
    <3> HIDE DEF t
    <3>3. Tail(q) = t \o b /\ Early(t)
      BY <3>1, <3>2 DEF t
    <3> QED BY <1>2, <3>1, <3>2, <3>3 DEF EarlyLate
  <2> QED BY <2>2, <2>3
<1> QED BY <1>1, <1>2 DEF EarlyLate

LEMMA LateWithout ==
  ASSUME NEW q, NEW D
  PROVE  /\ Late(q) => Late(Without(q, D))
         /\ EarlyLate(q) => EarlyLate(Without(q, D))
<1>1. \A r : Late(r) => Late(Without(r, D))
  BY NoneOfWithout, ListWithout DEF Late
<1>2. ASSUME NEW a, NEW b, Early(a), Late(b), q = a \o b
      PROVE  EarlyLate(Without(q, D))
  <2>1. IsList(a) /\ IsList(b)
    BY <1>2, EarlyList DEF Late
  <2> DEFINE v == Without(a, D)
             w == Without(b, D)
  <2>2. Without(q, D) = v \o w
    BY <1>2, <2>1, ListWithoutConcat
  <2>3. Early(v) /\ Late(w)
    BY <1>1, <1>2, EarlyWithout
  <2> HIDE DEF v, w
  <2> QED BY <2>2, <2>3 DEF EarlyLate
<1> QED BY <1>1, <1>2 DEF EarlyLate

(* What a handler leaves of the list *)
LEMMA LateRest ==
  ASSUME NEW n, Rest(n)
  PROVE  /\ Late(queue.normal) => Late(n)
         /\ EarlyLate(queue.normal) => EarlyLate(n) \/ Late(n)
<1> DEFINE q == queue.normal
<1>1. CASE n = q
  BY <1>1
<1>2. ASSUME q # <<>>
      PROVE  /\ Late(q) => Late(Tail(q))
             /\ EarlyLate(q) => EarlyLate(Tail(q)) \/ Late(Tail(q))
  BY <1>2, LateTail
<1>3. ASSUME q # <<>>, NEW D, n = Without(Tail(q), D)
      PROVE  /\ Late(q) => Late(n)
             /\ EarlyLate(q) => EarlyLate(n) \/ Late(n)
  <2> DEFINE t == Tail(q)
  <2>1. n = Without(t, D)
    BY <1>3
  <2>2. /\ Late(q) => Late(t)
        /\ EarlyLate(q) => EarlyLate(t) \/ Late(t)
    BY <1>2, <1>3
  <2> HIDE DEF t, q
  <2> QED BY <2>1, <2>2, LateWithout
<1> HIDE DEF q
<1> QED BY <1>1, <1>2, <1>3 DEF Rest, q

(* The list after a handler that pushes no signal *)
LEMMA LateGets ==
  ASSUME NEW K, "SignalToEntry" \notin K, Gets(K)
  PROVE  /\ Late(queue.normal) => Late(queue'.normal)
         /\ EarlyLate(queue.normal) => EarlyLate(queue'.normal) \/ Late(queue'.normal)
<1>1. PICK n, l : Rest(n) /\ IsList(l) /\ Kinds(l, K) /\ queue'.normal = n \o l
  BY DEF Gets
<1>2. NoneOf(l, "SignalToEntry")
  BY <1>1, NoneOfSome
<1> QED BY <1>1, <1>2, LateRest, LateConcat

(* The exits at the gateway were made by the strategy. *)
GatewayGuids ==
  /\ gateway.m_tpsl # None => gateway.m_tpsl.guid \in ExitOrders
  /\ gateway.m_trailing_stop # None => gateway.m_trailing_stop.guid \in ExitOrders

OneOrder == \A x, y \in m_orders : x = y

MayEnter == ~m_has_opened_pos /\ m_orders = {}

(* A signal that is still to be handled was pushed before any news of the position, and
   finds a strategy that may enter only where there is no position. *)
Split ==
  \/ Late(queue.normal)
  \/ EarlyLate(queue.normal) /\ (MayEnter => gateway.m_pos_volume = 0)

(* The news of the position that the strategy is told last *)
NewsIsTrue ==
  \E e0, e : /\ Final(queue.normal, "OpenedPosToEntry", e0, e)
             /\ e0.opened = m_has_opened_pos
             /\ m_opened_position # None => e.opened

Alone ==
  /\ GatewayGuids
  /\ ~m_stop_request_handled =>
       /\ OneOrder /\ gateway.m_pos_volume \in -1 .. 1
       /\ Split /\ NewsIsTrue

(* The handlers that neither take nor give the strategy any news *)
LEMMA AloneKept ==
  ASSUME Alone, GatewayGuids',
         UNCHANGED <<m_orders, m_has_opened_pos, m_opened_position, m_stop_request_handled>>,
         gateway'.m_pos_volume = gateway.m_pos_volume,
         Passes("OpenedPosToEntry"), NEW K, "SignalToEntry" \notin K, Gets(K)
  PROVE  Alone'
<1> SUFFICES ASSUME ~m_stop_request_handled PROVE OneOrder' /\ gateway'.m_pos_volume \in -1 .. 1 /\ Split' /\ NewsIsTrue'
  BY DEF Alone
<1>1. OneOrder /\ gateway.m_pos_volume \in -1 .. 1 /\ Split /\ NewsIsTrue
  BY DEF Alone
<1>2. OneOrder' /\ gateway'.m_pos_volume \in -1 .. 1
  BY <1>1 DEF OneOrder
<1>3. Split'
  BY <1>1, LateGets DEF Split, MayEnter
<1>4. NewsIsTrue'
  BY <1>1 DEF NewsIsTrue, Passes
<1> QED BY <1>2, <1>3, <1>4

LEMMA AloneApart ==
  ASSUME Books, Alone, GatewayGuids',
         UNCHANGED <<m_orders, m_has_opened_pos, m_opened_position, m_stop_request_handled>>,
         gateway'.m_pos_volume = gateway.m_pos_volume,
         queue.normal # <<>> => Head(queue.normal).event # "OpenedPosToEntry",
         NEW K, K \cap {"SignalToEntry", "OpenedPosToEntry"} = {}, Gets(K)
  PROVE  Alone'
<1> DEFINE k == "OpenedPosToEntry"
<1>1. IsQueue(queue) /\ k # "ExitUpdated" /\ k \notin K
  BY DEF Books, Shapes
<1>2. queue.normal # <<>> => Head(queue.normal).event # k
  OBVIOUS
<1> HIDE DEF k
<1>3. Passes(k)
  BY <1>1, <1>2, GetsPasses
<1> QED BY <1>3, AloneKept DEF k

(* The response of an order, its trade, and the news of the position: whatever signal
   there was has been handled. *)
LEMMA AloneTold ==
  ASSUME Books, Alone, HandleOrderResponse \/ HandleOrderTrade \/ HandleOpenedPos
  PROVE  Alone'
<1> DEFINE q == queue.normal
           k == "OpenedPosToEntry"
<1>1. q # <<>> /\ Next_Event = Head(q) /\ queue'.normal = Tail(q) /\ IsList(q)
  BY TakersPush DEF Books, Shapes, IsQueue, Whole
<1>2. ~Silent(Head(q))
  BY <1>1, ExitGuidsAreUnique DEF HandleOrderResponse, HandleOrderTrade, HandleOpenedPos, Runs, Silent
<1>3. UNCHANGED <<gateway, m_opened_position, m_stop_request_handled>>
  BY DEF HandleOrderResponse, HandleOrderTrade, HandleOpenedPos, instanceVars, stopVars
<1>4. m_orders' \subseteq m_orders
  BY DEF HandleOrderResponse, HandleOrderTrade, HandleOpenedPos, omVars, on_order_response,
         on_trade, try_trade_market_order, try_trade_conditional, EraseOrder
<1>5. GatewayGuids'
  BY <1>3 DEF Alone, GatewayGuids
<1> SUFFICES ASSUME ~m_stop_request_handled
             PROVE  OneOrder' /\ gateway'.m_pos_volume \in -1 .. 1 /\ Split' /\ NewsIsTrue'
  BY <1>3, <1>5 DEF Alone
<1>6. OneOrder /\ gateway.m_pos_volume \in -1 .. 1 /\ Split /\ NewsIsTrue
  BY DEF Alone
<1>7. OneOrder' /\ gateway'.m_pos_volume \in -1 .. 1
  BY <1>3, <1>4, <1>6 DEF OneOrder
<1>8. Split'
  <2>1. Late(q) \/ EarlyLate(q)
    BY <1>6 DEF Split
  <2>2. Late(Tail(q))
    <3> HIDE DEF q
    <3> QED BY <1>1, <1>2, <2>1, LateTail
  <2> QED BY <1>1, <2>2 DEF Split
<1>9. PICK e0, e : Final(q, k, e0, e) /\ e0.opened = m_has_opened_pos
                   /\ (m_opened_position # None => e.opened)
  BY <1>6 DEF NewsIsTrue
<1>10. /\ Head(q).event # k => Final(Tail(q), k, e0, e)
       /\ Head(q).event = k => Final(Tail(q), k, Head(q), e)
  <2> HIDE DEF k, q
  <2> QED BY <1>1, <1>9, FinalTail
<1>11. NewsIsTrue'
  <2>1. CASE HandleOpenedPos
    <3>1. Head(q).event = k /\ m_has_opened_pos' = Head(q).opened
      BY <1>1, <2>1 DEF HandleOpenedPos, Runs
    <3>2. m_opened_position' # None => e.opened
      BY <1>3, <1>9
    <3> QED BY <1>1, <1>10, <3>1, <3>2 DEF NewsIsTrue
  <2>2. CASE HandleOrderResponse \/ HandleOrderTrade
    <3>1. Head(q).event # k /\ m_has_opened_pos' = m_has_opened_pos
      BY <1>1, <2>2 DEF HandleOrderResponse, HandleOrderTrade, Runs, instanceVars
    <3> QED BY <1>1, <1>3, <1>9, <1>10, <3>1 DEF NewsIsTrue
  <2> QED BY <2>1, <2>2
<1> QED BY <1>7, <1>8, <1>11

(* A stop: from now on nothing is promised. *)
LEMMA AloneStopped ==
  ASSUME Books, Alone, HandleStop
  PROVE  Alone'
<1>1. /\ gateway'.m_trailing_stop = gateway.m_trailing_stop
      /\ gateway'.m_tpsl = gateway.m_tpsl
  BY OrdersPush
<1>2. m_stop_request_handled' = TRUE
  BY DEF HandleStop
<1>3. GatewayGuids'
  BY <1>1 DEF Alone, GatewayGuids
<1> QED BY <1>2, <1>3 DEF Alone

(* The signal enters only a market without a position and without an order. *)
LEMMA AloneSignalled ==
  ASSUME Books, Alone, NEW side \in {-1, 0, 1}, HandleSignal(side)
  PROVE  Alone'
<1> DEFINE q == queue.normal
           k == "OpenedPosToEntry"
           K == {"OrderResponse", "TpslUpdated", "Trade", "InstanceTrade"}
<1>1. /\ q # <<>> /\ gateway'.m_trailing_stop = gateway.m_trailing_stop
      /\ gateway'.m_tpsl = gateway.m_tpsl /\ Gets(K)
  BY OrdersPush
<1>2. Next_Event = Head(q) /\ Head(q).event = "SignalToEntry"
  <2>1. "SignalToEntry" \in NormalKinds /\ Runs("SignalToEntry")
    BY DEF NormalKinds, HandleSignal
  <2> QED BY <2>1, TakesHead
<1>3. GatewayGuids'
  BY <1>1 DEF Alone, GatewayGuids
<1>4. UNCHANGED <<m_has_opened_pos, m_opened_position, m_stop_request_handled>>
  BY DEF HandleSignal, instanceVars, stopVars
<1>5. CASE side # 0 /\ MaySendOrder
  <2>1. SendOrder(Popped, side) /\ IsQueue(Popped) /\ Shapes /\ side \in Int
    <3>1. "SignalToEntry" \in NormalKinds /\ Runs("SignalToEntry")
      BY DEF NormalKinds, HandleSignal
    <3> QED BY <1>5, <3>1, TakesHead DEF HandleSignal, Books
  <2>2. gateway'.m_pos_volume = gateway.m_pos_volume + side
    BY <2>1, SendOrderMoves
  <2>3. \E o : m_orders' = m_orders \cup {o}
    BY <2>1 DEF SendOrder, send_market_order
  <2> SUFFICES ASSUME ~m_stop_request_handled
               PROVE  OneOrder' /\ gateway'.m_pos_volume \in -1 .. 1 /\ Split' /\ NewsIsTrue'
    BY <1>3, <1>4 DEF Alone
  <2>4. Split /\ NewsIsTrue
    BY DEF Alone
  <2>5. ~Late(q) /\ EarlyLate(q)
    <3>1. ~Late(q)
      <4> HIDE DEF q
      <4> QED BY <1>1, <1>2, LateTail
    <3> QED BY <2>4, <3>1 DEF Split
  <2>6. gateway.m_pos_volume = 0
    BY <1>5, <2>4, <2>5 DEF Split, MayEnter, MaySendOrder
  <2>7. OneOrder' /\ gateway'.m_pos_volume \in -1 .. 1
    BY <1>5, <2>2, <2>3, <2>6 DEF OneOrder, MaySendOrder
  <2>8. Split'
    <3>1. "SignalToEntry" \notin K
      OBVIOUS
    <3> HIDE DEF K
    <3>2. EarlyLate(queue'.normal) \/ Late(queue'.normal)
      BY <1>1, <2>5, <3>1, LateGets
    <3> QED BY <2>3, <3>2 DEF Split, MayEnter
  <2>9. Passes(k)
    <3>1. k \notin K /\ k # "ExitUpdated" /\ Head(q).event # k /\ IsQueue(queue)
      BY <1>2 DEF Books, Shapes
    <3> HIDE DEF k, K
    <3> QED BY <1>1, <3>1, GetsPasses
  <2>10. NewsIsTrue'
    BY <1>4, <2>4, <2>9 DEF NewsIsTrue, Passes
  <2> QED BY <2>7, <2>8, <2>10
<1>6. CASE ~(side # 0 /\ MaySendOrder)
  <2>1. gateway' = gateway /\ m_orders' = m_orders
    BY <1>6 DEF HandleSignal, omVars
  <2>2. K \cap {"SignalToEntry", k} = {} /\ Head(q).event # k
    BY <1>2
  <2> HIDE DEF K
  <2> QED BY <1>1, <1>3, <1>4, <2>1, <2>2, AloneApart
<1> QED BY <1>5, <1>6

(* A trade told to the instance: the news of it is the last one. *)
LEMMA AloneTraded ==
  ASSUME Books, Alone, HandleTrade
  PROVE  Alone'
<1> DEFINE q == queue.normal
           k == "OpenedPosToEntry"
           K == {"PriceLevels", "OpenedPosToEntry", "OpenedPosToExit", "TradeToExit"}
<1>1. q # <<>> /\ Head(q).event # k /\ Gets(K)
  BY TradePush
<1>2. PICK u, a, c : /\ queue'.normal = Tail(q) \o (u \o <<a>> \o c)
                     /\ IsList(u) /\ IsList(c) /\ Kinds(u, {"PriceLevels"})
                     /\ Kinds(c, {"OpenedPosToExit", "TradeToExit"})
                     /\ a = [event |-> "OpenedPosToEntry", opened |-> m_opened_position' # None]
  BY TradePush
<1>3. /\ gateway' = gateway
      /\ UNCHANGED <<m_orders, m_has_opened_pos, m_stop_request_handled>>
  BY DEF HandleTrade, omVars, stopVars
<1>4. GatewayGuids'
  BY <1>3 DEF Alone, GatewayGuids
<1> SUFFICES ASSUME ~m_stop_request_handled
             PROVE  OneOrder' /\ gateway'.m_pos_volume \in -1 .. 1 /\ Split' /\ NewsIsTrue'
  BY <1>3, <1>4 DEF Alone
<1>5. OneOrder /\ gateway.m_pos_volume \in -1 .. 1 /\ Split /\ NewsIsTrue
  BY DEF Alone
<1>6. OneOrder'
  BY <1>3, <1>5 DEF OneOrder
<1>7. Split'
  <2>1. "SignalToEntry" \notin K
    OBVIOUS
  <2> HIDE DEF K
  <2> QED BY <1>1, <1>3, <1>5, <2>1, LateGets DEF Split, MayEnter
<1>8. PICK e0, e : Final(q, k, e0, e) /\ e0.opened = m_has_opened_pos
  BY <1>5 DEF NewsIsTrue
<1>9. Final(queue'.normal, k, e0, a)
  <2>1. IsQueue(queue) /\ IsList(q) /\ IsList(Tail(q))
    BY <1>1, ListTail DEF Books, Shapes, IsQueue, Whole
  <2>2. a.event = k /\ IsList(<<a>>)
    BY <1>2, LiteralLists
  <2>3. k \notin {"OpenedPosToExit", "TradeToExit"}
    OBVIOUS
  <2> DEFINE m == <<a>>
             t == Tail(q)
  <2> HIDE DEF k
  <2>4. LastOf(m, k, a) /\ IsList(m)
    BY <2>2, LastOfOne
  <2> HIDE DEF m
  <2>5. LastOf(u \o m, k, a) /\ IsList(u \o m)
    BY <1>2, <2>4, LastOfConcat, ListConcat
  <2> DEFINE v == u \o m
  <2> HIDE DEF v
  <2>6. NoneOf(c, k)
    BY <1>2, <2>3, NoneOfSome
  <2>7. LastOf(v \o c, k, a) /\ IsList(v \o c)
    BY <1>2, <2>5, <2>6, LastOfConcat, ListConcat DEF v
  <2> DEFINE w == v \o c
  <2>8. IsList(t) /\ LastOf(w, k, a)
    BY <2>1, <2>7
  <2> HIDE DEF t, w
  <2>9. Final(t \o w, k, e0, a)
    BY <2>8, FinalConcat, <2>7 DEF w
  <2> QED BY <1>2, <2>9 DEF t, w, v, m
<1>10. m_opened_position' # None => a.opened
  BY <1>2
<1>11. NewsIsTrue'
  BY <1>3, <1>8, <1>9, <1>10 DEF NewsIsTrue
<1> QED BY <1>3, <1>5, <1>6, <1>7, <1>11

(* What the exits at the gateway answer to a price says nothing to the strategy. *)
LEMMA ExitTradeIsEarly ==
  ASSUME NEW g \in ExitOrders, NEW vol \in Int, NEW price
  PROVE  Early(Entries(<<TradeEvent(g, vol, price)>>))
<1> DEFINE e == TradeEvent(g, vol, price)
           t == [event |-> "InstanceTrade", volume |-> vol, price |-> price]
           x == <<e>>
           y == <<t>>
<1>1. Entries(<<TradeEvent(g, vol, price)>>) = <<e, t>>
  BY TradeMoves
<1>2. <<e, t>> = x \o y
  <2> HIDE DEF e, t
  <2> QED BY LiteralLists
<1>3. Silent(e) /\ Silent(t)
  BY DEF Silent, TradeEvent
<1> HIDE DEF e, t
<1>4. Early(x) /\ Early(y)
  BY <1>3, EarlyOfOne
<1> HIDE DEF x, y
<1>5. Early(x \o y)
  BY <1>4, EarlyConcat
<1> QED BY <1>1, <1>2, <1>5

LEMMA AnswerIsEarly ==
  ASSUME NEW e, e.event \in {"TpslUpdated", "TrailingUpdated"}
  PROVE  Early(Entries(<<e>>))
<1>1. e.event \in GatewayKinds \ {"Trade", "InstanceTrade"} /\ Silent(e)
  BY DEF GatewayKinds, Silent
<1>2. Entries(<<e>>) = <<e>>
  BY <1>1, AnswerMoves
<1> QED BY <1>1, <1>2, EarlyOfOne

LEMMA PairIsEarly ==
  ASSUME NEW e, NEW f, Early(Entries(<<e>>)), Early(Entries(<<f>>))
  PROVE  Early(Entries(<<e, f>>))
<1> DEFINE x == <<e>>
           y == <<f>>
<1>1. <<e, f>> = x \o y /\ IsList(x) /\ IsList(y)
  BY LiteralLists
<1>2. Early(Entries(x)) /\ Early(Entries(y))
  OBVIOUS
<1> HIDE DEF x, y
<1>3. Early(Entries(x) \o Entries(y))
  BY <1>2, EarlyConcat
<1>4. Entries(x \o y) = Entries(x) \o Entries(y)
  BY <1>1, EntriesConcat
<1> QED BY <1>1, <1>3, <1>4

LEMMA TpslIsEarly ==
  ASSUME NEW pos0 \in Int, NEW tpsl0, NEW a, NEW pos \in Int, NEW tpsl,
         TpslPart(pos0, tpsl0, a, pos, tpsl),
         tpsl0 # None => tpsl0.guid \in ExitOrders
  PROVE  Early(Entries(a))
<1>1. CASE a = <<>>
  BY <1>1, EntriesOfNothing, EarlyOfNothing
<1>2. CASE a # <<>>
  <2>1. PICK p : a = <<TpslUpdatedEvent(tpsl0.guid, FALSE, TRUE, FALSE),
                       TradeEvent(tpsl0.guid, -pos0, p)>>
    BY <1>2 DEF TpslPart
  <2> DEFINE e == TpslUpdatedEvent(tpsl0.guid, FALSE, TRUE, FALSE)
             v == -pos0
             f == TradeEvent(tpsl0.guid, v, p)
  <2>2. a = <<e, f>> /\ v \in Int /\ tpsl0.guid \in ExitOrders
    BY <1>2, <2>1 DEF TpslPart
  <2>3. Early(Entries(<<e>>))
    <3>1. e.event \in {"TpslUpdated", "TrailingUpdated"}
      BY DEF TpslUpdatedEvent
    <3> HIDE DEF e
    <3> QED BY <3>1, AnswerIsEarly
  <2>4. Early(Entries(<<f>>))
    <3> HIDE DEF v
    <3> QED BY <2>2, ExitTradeIsEarly
  <2> HIDE DEF e, f
  <2> QED BY <2>2, <2>3, <2>4, PairIsEarly
<1> QED BY <1>1, <1>2

LEMMA TrailingIsEarly ==
  ASSUME NEW pos0 \in Int, NEW t, NEW b, NEW pos \in Int, NEW trailing,
         TrailingPart(pos0, t, b, pos, trailing),
         t # None => t.guid \in ExitOrders
  PROVE  Early(Entries(b))
<1>0. \A s : Early(Entries(<<TrailingUpdatedEvent(s)>>))
  <2> TAKE s
  <2> DEFINE e == TrailingUpdatedEvent(s)
  <2>1. e.event \in {"TpslUpdated", "TrailingUpdated"}
    BY DEF TrailingUpdatedEvent
  <2> HIDE DEF e
  <2>2. Early(Entries(<<e>>))
    BY <2>1, AnswerIsEarly
  <2> QED BY <2>2 DEF e
<1>1. CASE b = <<>>
  BY <1>1, EntriesOfNothing, EarlyOfNothing
<1>2. CASE \E new : b = <<TrailingUpdatedEvent({new})>>
  BY <1>0, <1>2
<1>3. CASE t # None /\ b = <<TradeEvent(t.guid, -pos0, t.stop), TrailingUpdatedEvent({})>>
  <2> DEFINE v == -pos0
             f == TradeEvent(t.guid, v, t.stop)
             e == TrailingUpdatedEvent({})
  <2>1. b = <<f, e>> /\ v \in Int /\ t.guid \in ExitOrders
    BY <1>3
  <2>2. Early(Entries(<<f>>))
    <3> HIDE DEF v
    <3> QED BY <2>1, ExitTradeIsEarly
  <2>3. Early(Entries(<<e>>))
    BY <1>0
  <2> HIDE DEF e, f
  <2> QED BY <2>1, <2>2, <2>3, PairIsEarly
<1> QED BY <1>1, <1>2, <1>3 DEF TrailingPart

LEMMA EarlyIsQuiet ==
  ASSUME NEW q, Early(q)
  PROVE  EarlyLate(q) /\ NoneOf(q, "OpenedPosToEntry") /\ IsList(q)
<1>1. PICK S : q \in Seq(S) /\ \A e \in S : Silent(e)
  BY DEF Early
<1> DEFINE K == {e.event : e \in S}
           o == <<>>
<1>2. Kinds(q, K)
  BY <1>1 DEF Kinds
<1>3. "OpenedPosToEntry" \notin K
  BY <1>1 DEF Silent
<1> HIDE DEF K
<1>4. NoneOf(q, "OpenedPosToEntry")
  BY <1>2, <1>3 DEF NoneOf
<1>5. IsList(q) /\ q = q \o o /\ Late(o)
  BY EarlyList, LiteralLists, NoneOfNothing DEF Late
<1> HIDE DEF o
<1>6. EarlyLate(q)
  BY <1>5 DEF EarlyLate
<1> QED BY <1>4, <1>5, <1>6

(* A price comes when the news has been told: without a position the strategy may
   enter, and with one the price can only close it. *)
(* A price that the gateway is told of changes the market, but nobody in the strategy
   is told of it yet. *)
LEMMA PricedEarly ==
  ASSUME Books, GatewayGuids, NEW price, NEW candles \in 0 .. MaxCandles,
         HandlePrice(price, candles)
  PROVE  /\ queue.normal = <<>> /\ Early(queue'.normal) /\ GatewayGuids'
         /\ gateway'.m_pos_volume \in {gateway.m_pos_volume, 0}
<1>1. /\ queue.normal = <<>>
      /\ \E n, s : /\ PriceNews(gateway, price, n, gateway')
                   /\ IsList(n) /\ IsList(s) /\ Kinds(s, {"Stop"})
                   /\ queue'.normal = n \o s
  BY PricePush
<1>2. PICK n, s : /\ PriceNews(gateway, price, n, gateway')
                  /\ IsList(n) /\ IsList(s) /\ Kinds(s, {"Stop"})
                  /\ queue'.normal = n \o s
  BY <1>1
<1>3. PICK a, b, tpsl, t, x, z : \E last \in Int :
        /\ PriceOutcome(gateway, a, b, last, tpsl, t)
        /\ gateway' = Gateway(last, price, tpsl, t, <<>>)
        /\ IsList(x) /\ Kinds(x, {"PriceToExit", "SignalToEntry"})
        /\ IsList(z) /\ Kinds(z, {"PriceToExit", "SignalToEntry"})
        /\ n = (x \o Entries(a \o b)) \o z
  BY <1>2, ZenonT(30) DEF PriceNews
<1>4. PICK last \in Int :
        /\ PriceOutcome(gateway, a, b, last, tpsl, t)
        /\ gateway' = Gateway(last, price, tpsl, t, <<>>)
        /\ IsList(x) /\ Kinds(x, {"PriceToExit", "SignalToEntry"})
        /\ IsList(z) /\ Kinds(z, {"PriceToExit", "SignalToEntry"})
        /\ n = (x \o Entries(a \o b)) \o z
  BY <1>3
<1>5. gateway'.m_trailing_stop = t /\ gateway'.m_tpsl = tpsl /\ gateway'.m_pos_volume = last
  BY <1>4 DEF Gateway
<1>7. /\ IsGateway(gateway) /\ gateway.m_pos_volume \in Int
      /\ gateway.m_trailing_stop # None => IsTrailingStop(gateway.m_trailing_stop)
  BY DEF Books, Shapes, IsGateway
<1>8. PICK pos \in Int : /\ TpslPart(gateway.m_pos_volume, gateway.m_tpsl, a, pos, tpsl)
                         /\ TrailingPart(pos, gateway.m_trailing_stop, b, last, t)
  BY <1>4 DEF PriceOutcome
<1>9. GatewayGuids
  OBVIOUS
<1>10. GatewayGuids'
  <2>1. tpsl # None => tpsl.guid \in ExitOrders
    BY <1>8, <1>9 DEF TpslPart, GatewayGuids
  <2>2. t # None => t.guid \in ExitOrders
    <3> DEFINE t0 == gateway.m_trailing_stop
    <3>1. \A new : t0 # None => [t0 EXCEPT !.stop = new].guid = t0.guid
      <4> HIDE DEF t0
      <4> QED BY <1>7 DEF IsTrailingStop, t0
    <3> QED BY <1>8, <1>9, <3>1 DEF TrailingPart, GatewayGuids
  <2> QED BY <1>5, <2>1, <2>2 DEF GatewayGuids
<1> DEFINE A == Entries(a)
           B == Entries(b)
<1>11. Early(A)
  BY <1>7, <1>8, <1>9, TpslIsEarly DEF GatewayGuids
<1>12. Early(B)
  BY <1>8, <1>9, TrailingIsEarly DEF GatewayGuids
<1>13. Entries(a \o b) = A \o B
  BY <1>4, <1>7, PriceEntries
<1>14. Early(x) /\ Early(z) /\ Early(s)
  BY <1>2, <1>4, EarlyOfKinds
<1> HIDE DEF A, B
<1>15. Early(queue'.normal)
  <2>1. queue'.normal = ((x \o (A \o B)) \o z) \o s
    BY <1>2, <1>4, <1>13
  <2> DEFINE c == A \o B
             d == x \o c
             e == d \o z
  <2>2. Early(c)
    BY <1>11, <1>12, EarlyConcat
  <2> HIDE DEF c
  <2>3. Early(d)
    BY <1>14, <2>2, EarlyConcat
  <2> HIDE DEF d
  <2>4. Early(e)
    BY <1>14, <2>3, EarlyConcat
  <2> HIDE DEF e
  <2>5. Early(e \o s)
    BY <1>14, <2>4, EarlyConcat
  <2> QED BY <2>1, <2>5 DEF c, d, e
<1>16. last = gateway.m_pos_volume \/ last = 0
  BY <1>8 DEF TpslPart, TrailingPart
<1> QED BY <1>1, <1>5, <1>10, <1>15, <1>16

LEMMA AlonePriced ==
  ASSUME Books, Alone, NEW price, NEW candles \in 0 .. MaxCandles,
         HandlePrice(price, candles)
  PROVE  Alone'
<1> DEFINE k == "OpenedPosToEntry"
<1>1. /\ queue.normal = <<>> /\ Early(queue'.normal) /\ GatewayGuids'
      /\ gateway'.m_pos_volume \in {gateway.m_pos_volume, 0}
  BY PricedEarly DEF Alone
<1>2. UNCHANGED <<m_orders, m_has_opened_pos, m_opened_position, m_stop_request_handled>>
  BY DEF HandlePrice, omVars, stopVars
<1> HIDE DEF k
<1> SUFFICES ASSUME ~m_stop_request_handled
             PROVE  OneOrder' /\ gateway'.m_pos_volume \in -1 .. 1 /\ Split' /\ NewsIsTrue'
  BY <1>1, <1>2 DEF Alone
<1>3. OneOrder /\ gateway.m_pos_volume \in -1 .. 1 /\ NewsIsTrue
  BY DEF Alone
<1>4. OneOrder' /\ gateway'.m_pos_volume \in -1 .. 1
  BY <1>1, <1>2, <1>3 DEF OneOrder
<1>5. PICK e0 : e0.opened = m_has_opened_pos /\ (m_opened_position # None => e0.opened)
  <2>1. PICK e0, e : /\ Final(queue.normal, k, e0, e) /\ e0.opened = m_has_opened_pos
                     /\ m_opened_position # None => e.opened
    BY <1>3 DEF NewsIsTrue, k
  <2> DEFINE o == <<>>
  <2>2. queue.normal = o
    BY <1>1
  <2>3. ~LastOf(o, k, e)
    BY LastOfIsThere
  <2> HIDE DEF o
  <2>4. e = e0
    BY <2>1, <2>2, <2>3 DEF Final
  <2> QED BY <2>1, <2>4
<1>6. EarlyLate(queue'.normal) /\ NoneOf(queue'.normal, k)
  BY <1>1, EarlyIsQuiet DEF k
<1>7. Split'
  <2>1. m_opened_position = None => gateway.m_pos_volume = 0
    <3>1. LotsIn(queue.normal) = 0
      BY <1>1, LotsOfNothing
    <3>2. gateway.m_pos_volume \in Int
      BY DEF Books, Shapes, IsGateway
    <3> QED BY <3>1, <3>2 DEF Books, PositionAgrees, UnseenVolume
  <2>2. MayEnter' => gateway'.m_pos_volume = 0
    BY <1>1, <1>2, <1>5, <2>1 DEF MayEnter
  <2> QED BY <1>6, <2>2 DEF Split
<1>8. NewsIsTrue'
  <2>1. Final(queue'.normal, k, e0, e0)
    BY <1>6 DEF Final
  <2> QED BY <1>2, <1>5, <2>1 DEF NewsIsTrue, k
<1> QED BY <1>4, <1>7, <1>8

(* A new exit order at the gateway *)
LEMMA AloneSent ==
  ASSUME Books, Alone, queue.normal # <<>>, Head(queue.normal).event # "OpenedPosToEntry",
         UNCHANGED <<m_orders, m_has_opened_pos, m_opened_position, m_stop_request_handled>>,
         NEW n, NewExit(n)
  PROVE  Alone'
<1> DEFINE K == {"TpslUpdated", "TrailingUpdated"}
<1>1. PICK g : /\ g \in ExitOrders
               /\ \/ \E fields, e, tp, sl : NewTpsl(n, g, fields, e, tp, sl)
                  \/ \E side, distance, stop : NewTrailing(n, g, side, distance, stop)
  BY DEF NewExit
<1>2. Rest(n)
  BY DEF NewExit
<1>3. ASSUME NEW e, e.event \in K, queue'.normal = n \o <<e>>
      PROVE  Gets(K)
  <2> DEFINE l == <<e>>
  <2> HIDE DEF K
  <2>1. IsList(l) /\ Kinds(l, K) /\ queue'.normal = n \o l
    BY <1>3, KindsOfOne
  <2> HIDE DEF l
  <2> QED BY <1>2, <2>1 DEF Gets
<1>4. Gets(K) /\ GatewayGuids' /\ gateway'.m_pos_volume = gateway.m_pos_volume
  <2>0. GatewayGuids
    BY DEF Alone
  <2>1. ASSUME NEW fields, NEW e, NEW tp, NEW sl, NewTpsl(n, g, fields, e, tp, sl)
        PROVE  Gets(K) /\ GatewayGuids' /\ gateway'.m_pos_volume = gateway.m_pos_volume
    <3>1. /\ e.event = "TpslUpdated" /\ queue'.normal = n \o <<e>>
          /\ gateway'.m_trailing_stop = gateway.m_trailing_stop
          /\ gateway'.m_pos_volume = gateway.m_pos_volume
          /\ \/ gateway'.m_tpsl = gateway.m_tpsl
             \/ gateway'.m_tpsl = [guid |-> g, take_profit |-> tp, stop_loss |-> sl]
      BY <2>1 DEF NewTpsl
    <3>2. Gets(K)
      BY <1>3, <3>1
    <3>3. GatewayGuids'
      BY <1>1, <2>0, <3>1 DEF GatewayGuids
    <3> QED BY <3>1, <3>2, <3>3
  <2>2. ASSUME NEW side, NEW distance, NEW stop, NewTrailing(n, g, side, distance, stop)
        PROVE  Gets(K) /\ GatewayGuids' /\ gateway'.m_pos_volume = gateway.m_pos_volume
    <3> DEFINE e == TrailingUpdatedEvent({stop})
    <3>1. /\ queue'.normal = n \o <<e>> /\ gateway'.m_tpsl = gateway.m_tpsl
          /\ gateway'.m_pos_volume = gateway.m_pos_volume
          /\ gateway'.m_trailing_stop =
               [guid |-> g, side |-> side, distance |-> distance, stop |-> stop]
      BY <2>2 DEF NewTrailing
    <3>2. e.event \in K
      BY DEF TrailingUpdatedEvent
    <3> HIDE DEF e
    <3>3. Gets(K)
      BY <1>3, <3>1, <3>2
    <3>4. GatewayGuids'
      BY <1>1, <2>0, <3>1 DEF GatewayGuids
    <3> QED BY <3>1, <3>3, <3>4
  <2> HIDE DEF K
  <2> QED BY <1>1, <2>1, <2>2
<1>5. K \cap {"SignalToEntry", "OpenedPosToEntry"} = {}
  OBVIOUS
<1> HIDE DEF K
<1> QED BY <1>4, <1>5, AloneApart

LEMMA AloneStep ==
  ASSUME started, Books, Stops, Alone, [Next]_vars
  PROVE  Alone'
<1> DEFINE k == "OpenedPosToEntry"
           q == queue.normal
           Same == UNCHANGED <<m_orders, m_has_opened_pos, m_opened_position,
                               m_stop_request_handled>>
<1>0. /\ ~HandleStart /\ IsQueue(queue) /\ Rest(q)
      /\ gateway' = gateway => GatewayGuids' /\ gateway'.m_pos_volume = gateway.m_pos_volume
  BY NeverStart DEF HandleStart, Books, Shapes, Rest, Alone, GatewayGuids
<1>1. \A K : K \subseteq {"Stop", "ExitUpdated", "ExitError"} =>
               K \cap {"SignalToEntry", "OpenedPosToEntry"} = {}
  OBVIOUS
<1>2. CASE run_async \/ stop_async \/ AnswerOwn \/ AnswerForeign \/ HandleGenerator \/ HandleError
  <2>1. PICK l : IsList(l) /\ Kinds(l, {"Stop"}) /\ queue'.normal = q \o l
    BY <1>2, OthersPush
  <2>2. Gets({"Stop"})
    BY <1>0, <2>1 DEF Gets
  <2>3. Same /\ gateway' = gateway
    BY <1>2 DEF run_async, stop_async, AnswerOwn, AnswerForeign, HandleGenerator, HandleError,
                omVars, stopVars, instanceVars
  <2>4. Passes(k)
    <3>1. NoneOf(l, k)
      BY <2>1, NoneOfSome
    <3> QED BY <1>0, <2>1, <3>1, RestPasses
  <2> QED BY <1>0, <2>2, <2>3, <2>4, AloneKept
<1>3. CASE \/ HandleStopThrows \/ ForwardError
           \/ (on_exit_trade \/ exit_on_opened_pos \/ exit_on_price_levels)
              /\ UNCHANGED instanceVars
  <2>1. q # <<>> /\ Next_Event = Head(q) /\ queue'.normal = Tail(q)
    BY <1>3, TakersPush
  <2>2. Head(q).event # k
    BY <1>3, <2>1 DEF Runs, HandleStopThrows, ForwardError, on_exit_trade, exit_on_opened_pos,
         exit_on_price_levels
  <2>3. Same /\ gateway' = gateway
    BY <1>3 DEF HandleStopThrows, ForwardError, on_exit_trade, exit_on_opened_pos,
         exit_on_price_levels, omVars, stopVars, instanceVars
  <2>4. Gets({})
    <3>1. Rest(Tail(q))
      BY <2>1 DEF Rest
    <3> QED BY <1>0, <2>1, <3>1, GetsNothing
  <2>5. {} \cap {"SignalToEntry", "OpenedPosToEntry"} = {}
    OBVIOUS
  <2> QED BY <1>0, <2>2, <2>3, <2>4, <2>5, AloneApart
<1>4. CASE HandleOrderResponse \/ HandleOrderTrade \/ HandleOpenedPos
  BY <1>4, AloneTold
<1>5. CASE HandleStop \/ \E side \in {-1, 0, 1} : HandleSignal(side)
  BY <1>5, AloneStopped, AloneSignalled
<1>6. CASE HandleTrade
  BY <1>6, AloneTraded
<1>7. CASE (tpsl_on_updated \/ on_trailing_stop_updated) /\ UNCHANGED instanceVars
  <2>1. q # <<>> /\ Head(q).event # k /\ Gets({"ExitError"})
    BY <1>7, UpdatedPush
  <2>2. Same /\ gateway' = gateway
    BY <1>7 DEF tpsl_on_updated, on_trailing_stop_updated, omVars, stopVars, instanceVars
  <2> QED BY <1>0, <1>1, <2>1, <2>2, AloneApart
<1>8. CASE (on_tpsl_reposnse \/ on_trailing_stop_response) /\ UNCHANGED instanceVars
  <2>1. PICK l : /\ q # <<>> /\ Next_Event = Head(q) /\ IsList(l)
                 /\ Kinds(l, {"ExitUpdated"}) /\ queue'.normal = Tail(q) \o l
    BY <1>8, AnswersPush
  <2>2. Head(q).event # k
    BY <1>8, <2>1 DEF Runs, on_tpsl_reposnse, on_trailing_stop_response
  <2>3. Gets({"ExitUpdated"})
    BY <2>1 DEF Gets, Rest
  <2>4. Same /\ gateway' = gateway
    BY <1>8 DEF on_tpsl_reposnse, on_trailing_stop_response, omVars, stopVars, instanceVars
  <2> QED BY <1>0, <1>1, <2>2, <2>3, <2>4, AloneApart
<1>9. CASE (exit_on_trade \/ on_price_changed) /\ UNCHANGED instanceVars
  <2>1. /\ q # <<>> /\ Head(q).event # k
        /\ \/ queue'.normal = Tail(q) /\ gateway' = gateway
           \/ \E n : NewExit(n)
    BY <1>9, ExitsPush DEF Stops
  <2>2. Same
    BY <1>9 DEF exit_on_trade, on_price_changed, omVars, stopVars, instanceVars
  <2>3. CASE queue'.normal = Tail(q) /\ gateway' = gateway
    <3>1. Rest(Tail(q))
      BY <2>1 DEF Rest
    <3>2. Gets({})
      BY <1>0, <2>3, <3>1, GetsNothing
    <3>3. {} \cap {"SignalToEntry", "OpenedPosToEntry"} = {}
      OBVIOUS
    <3> QED BY <1>0, <2>1, <2>2, <2>3, <3>2, <3>3, AloneApart
  <2> QED BY <2>1, <2>2, <2>3, AloneSent
<1>10. CASE \E price \in Prices, candles \in 0 .. MaxCandles : HandlePrice(price, candles)
  BY <1>10, AlonePriced
<1>11. CASE UNCHANGED vars
  <2>1. UNCHANGED <<queue, gateway>> /\ Same
    BY <1>11 DEF vars, omVars, stopVars, instanceVars
  <2>2. Passes(k)
    BY <2>1 DEF Passes
  <2>3. Gets({})
    BY <1>0, <2>1, GetsNothing
  <2>4. "SignalToEntry" \notin {}
    OBVIOUS
  <2> QED BY <1>0, <2>1, <2>2, <2>3, <2>4, AloneKept
<1> QED BY <1>0, <1>2, <1>3, <1>4, <1>5, <1>6, <1>7, <1>8, <1>9, <1>10, <1>11
        DEF Next, LoopStep, ExitHandlers

LEMMA IdleQueue ==
  ASSUME Before \/ Fresh
  PROVE  IsList(queue.normal) /\ Kinds(queue.normal, {"Start", "Stop"})
<1> DEFINE q == queue.normal
           K == {"Start", "Stop"}
<1> SUFFICES IsList(q) /\ Kinds(q, K)
  OBVIOUS
<1>1. CASE Fresh
  <2>1. Kinds(q, {"Stop"}) /\ IsList(q)
    BY <1>1 DEF Fresh, IsQueue, Whole
  <2> HIDE DEF q
  <2> QED BY <2>1, KindsSubset
<1>2. CASE Before /\ ~started
  <2>1. q = <<>>
    BY <1>2 DEF Before, Waiting
  <2> HIDE DEF q, K
  <2> QED BY <2>1, KindsOfNothing
<1>3. CASE Before /\ started
  <2> DEFINE s == E("Start")
             m == <<s>>
  <2>1. PICK stops : q = m \o stops /\ IsList(stops) /\ Kinds(stops, {"Stop"})
    BY <1>3 DEF Before, Waiting
  <2>2. s.event \in K
    BY DEF E
  <2>3. Kinds(stops, K)
    BY <2>1, KindsSubset
  <2> HIDE DEF K, s, q
  <2>4. IsList(m) /\ Kinds(m, K)
    BY <2>2, KindsOfOne
  <2> HIDE DEF m
  <2> QED BY <2>1, <2>3, <2>4, KindsConcat
<1> QED BY <1>1, <1>2, <1>3

LEMMA IdleAlone ==
  ASSUME Before \/ Fresh
  PROVE  Alone
<1> DEFINE q == queue.normal
           k == "OpenedPosToEntry"
           e == [opened |-> FALSE]
           K == {"Start", "Stop"}
<1>1. IsList(q) /\ Kinds(q, K)
  BY IdleQueue
<1>2. NoneOf(q, k) /\ NoneOf(q, "SignalToEntry")
  <2>1. k \notin K /\ "SignalToEntry" \notin K
    OBVIOUS
  <2> HIDE DEF q, K, k
  <2> QED BY <1>1, <2>1, NoneOfSome
<1>3. Idle
  BY DEF Before, Fresh
<1>4. /\ gateway.m_pos_volume = 0 /\ gateway.m_tpsl = None /\ gateway.m_trailing_stop = None
  BY <1>3, IdleGateway
<1>5. m_orders = {} /\ m_has_opened_pos = FALSE /\ m_opened_position = None
  BY <1>3 DEF Idle
<1>6. GatewayGuids /\ OneOrder
  BY <1>4, <1>5 DEF GatewayGuids, OneOrder
<1>7. Split
  BY <1>1, <1>2 DEF Split, Late
<1>8. NewsIsTrue
  <2>1. Final(q, k, e, e) /\ e.opened = m_has_opened_pos
    BY <1>2, <1>5 DEF Final
  <2> QED BY <1>5, <2>1 DEF NewsIsTrue
<1> QED BY <1>4, <1>6, <1>7, <1>8 DEF Alone

LEMMA IdleAloneNext == (Before \/ Fresh => Alone)'
<1>1. Before \/ Fresh => Alone
  BY IdleAlone
<1> QED BY <1>1, PTL

(* The inductive invariant of the entries *)
AloneIsKept == StopsAreKept /\ Alone

LEMMA AloneIsKeptStep ==
  ASSUME AloneIsKept, [Next]_vars
  PROVE  AloneIsKept'
<1>1. StopsAreKept'
  BY StopsAreKeptStep DEF AloneIsKept
<1>2. CASE started /\ Books
  BY <1>1, <1>2, AloneStep DEF AloneIsKept, StopsAreKept
<1>3. CASE Before
  BY <1>1, <1>3, BeforeStep, IdleAloneNext DEF AloneIsKept
<1> QED BY <1>2, <1>3 DEF AloneIsKept, StopsAreKept, BooksAgree

(* However many prices signal while an order, its trade or the news of the position
   waits in the loop, a strategy enters only a market in which it has nothing
   (StrategyBase::try_send_order looks at m_orders and m_has_opened_pos, which lag
   behind the gateway): until a stop, there is one order and one lot at most. *)
THEOREM OneEntryAtATime == Spec => []NoAdditionalOrders
<1>1. Init => AloneIsKept
  <2> SUFFICES ASSUME Init PROVE AloneIsKept
    OBVIOUS
  <2>1. Before
    BY InitBefore
  <2> QED BY <2>1, IdleStops, IdleAlone DEF AloneIsKept, StopsAreKept, BooksAgree, Before
<1>2. AloneIsKept => NoAdditionalOrders
  <2> SUFFICES ASSUME Alone, ~m_stop_request_handled
               PROVE  gateway.m_pos_volume \in -1 .. 1 /\ Cardinality(m_orders) <= 1
    BY DEF NoAdditionalOrders, AloneIsKept
  <2>1. gateway.m_pos_volume \in -1 .. 1 /\ OneOrder
    BY DEF Alone
  <2>2. m_orders = {} \/ \E o : m_orders = {o}
    BY <2>1 DEF OneOrder
  <2>3. Cardinality(m_orders) \in {0, 1}
    BY <2>2, FS_EmptySet, FS_Singleton
  <2> QED BY <2>1, <2>3
<1>3. AloneIsKept /\ [Next]_vars => AloneIsKept'
  BY AloneIsKeptStep
<1> QED BY <1>1, <1>2, <1>3, PTL DEF Spec

-----------------------------------------------------------------------------
(***************************************************************************)
(* The life of a position and of its exit in a strategy instance: between  *)
(* two prices an open position has its exit at the gateway, a closed one   *)
(* has left none behind, and the order manager hears of no order that it   *)
(* does not know.                                                          *)
(*                                                                         *)
(* Core(q) is what a list q of the event loop says of the position and its *)
(* exit.  Each phase of a position's life fixes the state and the core of  *)
(* the list (Phase, Priced); each handler takes the head of a core to the  *)
(* next phase.                                                             *)
(***************************************************************************)

(* What of a list is about the position and its exit: all but the noise of starts and
   stops, prices and signals, market orders and the news for the strategy's entry. *)
NoisyKinds ==
  {"Start", "Stop", "PriceToExit", "SignalToEntry", "OpenedPosToEntry", "OrderResponse",
   "ExitError"}

Noise(e) == e.event \in NoisyKinds \/ (e.event = "Trade" /\ e.guid \in Orders)

Core(q) == Without(q, {e \in ToSet(q) : Noise(e)})

LEMMA CoreIs ==
  ASSUME NEW S, NEW q \in Seq(S)
  PROVE  Core(q) = Without(q, {e \in S : Noise(e)})
<1> DEFINE D == {e \in ToSet(q) : Noise(e)}
           F == {e \in S : Noise(e)}
<1>1. \A i \in 1 .. Len(q) : q[i] \in S /\ q[i] \in ToSet(q)
  BY DEF ToSet
<1>2. \A i \in 1 .. Len(q) : q[i] \in D <=> q[i] \in F
  BY <1>1
<1> HIDE DEF D, F
<1>3. Without(q, D) = Without(q, F)
  BY <1>2, WithoutAlike
<1> QED BY <1>3 DEF Core, D, F

LEMMA CoreOfNothing == Core(<<>>) = <<>>
<1> DEFINE e == <<>>
           D == {x \in ToSet(e) : Noise(x)}
<1>1. Without(e, D) = e
  <2> HIDE DEF D
  <2> QED BY WithoutNothing
<1> QED BY <1>1 DEF Core

LEMMA CoreConcat ==
  ASSUME NEW q, NEW r, IsList(q), IsList(r)
  PROVE  IsList(Core(q)) /\ IsList(Core(r)) /\ Core(q \o r) = Core(q) \o Core(r)
<1>1. PICK S : q \in Seq(S) /\ r \in Seq(S)
  BY CommonSet
<1> DEFINE D == {e \in S : Noise(e)}
<1>2. q \o r \in Seq(S)
  BY <1>1
<1>3. Core(q) = Without(q, D) /\ Core(r) = Without(r, D)
  BY <1>1, CoreIs
<1>4. Core(q \o r) = Without(q \o r, D)
  BY <1>2, CoreIs
<1> HIDE DEF D
<1>5. Without(q \o r, D) = Without(q, D) \o Without(r, D)
  BY ListWithoutConcat
<1>6. IsList(Without(q, D)) /\ IsList(Without(r, D))
  BY ListWithout
<1> QED BY <1>3, <1>4, <1>5, <1>6

LEMMA CoreOfOne ==
  ASSUME NEW e
  PROVE  IsList(<<e>>) /\ Core(<<e>>) = IF Noise(e) THEN <<>> ELSE <<e>>
<1> DEFINE n == <<>>
           q == <<e>>
           S == {e}
           D == {x \in S : Noise(x)}
<1>1. n \in Seq(S) /\ q = Append(n, e) /\ q \in Seq(S) /\ IsList(q)
  BY LiteralLists
<1>2. Core(q) = Without(q, D)
  BY <1>1, CoreIs
<1>3. e \in D <=> Noise(e)
  OBVIOUS
<1> HIDE DEF n, q, D
<1>4. Without(n, D) = n
  BY WithoutNothing DEF n
<1>5. Without(q, D) = IF e \in D THEN n ELSE Append(n, e)
  BY <1>1, <1>4, WithoutAppend
<1>6. Core(q) = IF Noise(e) THEN n ELSE q
  BY <1>1, <1>2, <1>3, <1>5
<1> QED BY <1>1, <1>6 DEF n, q

(* An entry is taken from a list. *)
LEMMA CoreTail ==
  ASSUME NEW q, IsList(q), q # <<>>
  PROVE  /\ IsList(Core(Tail(q)))
         /\ Noise(Head(q)) => Core(q) = Core(Tail(q))
         /\ ~Noise(Head(q)) => Core(q) = <<Head(q)>> \o Core(Tail(q))
<1> DEFINE h == Head(q)
           t == Tail(q)
           x == <<h>>
<1>1. IsList(t) /\ q = x \o t
  BY ListTail
<1>2. IsList(x) /\ Core(x) = IF Noise(h) THEN <<>> ELSE x
  BY CoreOfOne
<1> HIDE DEF x, t, h
<1>3. IsList(Core(t)) /\ Core(q) = Core(x) \o Core(t)
  BY <1>1, <1>2, CoreConcat
<1>4. ASSUME Noise(h) PROVE Core(q) = Core(t)
  <2> DEFINE c == Core(t)
             n == <<>>
  <2>1. n \o c = c
    BY <1>3, LiteralLists
  <2>2. Core(x) = n
    BY <1>2, <1>4
  <2> HIDE DEF n, c
  <2> QED BY <1>3, <2>1, <2>2 DEF c
<1> QED BY <1>2, <1>3, <1>4 DEF x, t, h

(* What is in the core of a list is in the list, and only noise is missing. *)
LEMMA InCore ==
  ASSUME NEW q, IsList(q), NEW k, \A e : e.event = k => ~Noise(e)
  PROVE  NoneOf(Core(q), k) => \A i \in 1 .. Len(q) : q[i].event # k
<1> SUFFICES ASSUME NoneOf(Core(q), k), NEW i \in 1 .. Len(q), q[i].event = k
             PROVE  FALSE
  OBVIOUS
<1>1. PICK S : q \in Seq(S)
  BY DEF IsList
<1> DEFINE D == {e \in S : Noise(e)}
           c == Core(q)
<1>2. c = Without(q, D)
  BY <1>1, CoreIs
<1>3. In(q[i], q) /\ q[i] \notin D
  BY DEF In
<1> HIDE DEF D, c
<1>4. In(q[i], c)
  BY <1>1, <1>2, <1>3, InWithout
<1>5. PICK K : Kinds(c, K) /\ k \notin K
  BY DEF NoneOf, c
<1> QED BY <1>4, <1>5 DEF In, Kinds

(* Without updates in the core there is nothing for a new subscriber to discard. *)
LEMMA CoreDiscards ==
  ASSUME NEW q, IsList(q), NoneOf(Core(q), "ExitUpdated")
  PROVE  Without(q, {e \in ToSet(q) : e.event = "ExitUpdated"}) = q
<1>1. PICK S : q \in Seq(S)
  BY DEF IsList
<1>2. \A e : e.event = "ExitUpdated" => ~Noise(e)
  BY DEF Noise, NoisyKinds
<1>3. \A i \in 1 .. Len(q) : q[i].event # "ExitUpdated"
  BY <1>2, InCore
<1> DEFINE D == {e \in ToSet(q) : e.event = "ExitUpdated"}
<1>4. \A i \in 1 .. Len(q) : q[i] \notin D
  BY <1>3
<1> HIDE DEF D
<1>5. Without(q, D) = q
  BY <1>1, <1>4, WithoutNone
<1> QED BY <1>5 DEF D

(* A list of noise *)
LEMMA CoreOfNoise ==
  ASSUME NEW q, IsList(q), \A i \in 1 .. Len(q) : Noise(q[i])
  PROVE  Core(q) = <<>>
<1>1. PICK S : q \in Seq(S)
  BY DEF IsList
<1> DEFINE D == {e \in S : Noise(e)}
           c == Without(q, D)
<1>2. Core(q) = c
  BY <1>1, CoreIs
<1>3. c \in Seq(S) /\ \A x : In(x, c) <=> In(x, q) /\ x \notin D
  <2> HIDE DEF D
  <2> QED BY <1>1, InWithout
<1>4. \A i \in 1 .. Len(q) : q[i] \in D
  BY <1>1
<1>5. \A x : ~In(x, c)
  BY <1>3, <1>4 DEF In
<1> HIDE DEF D, c
<1>6. Len(c) = 0
  <2> SUFFICES ASSUME Len(c) # 0 PROVE FALSE
    OBVIOUS
  <2>1. 1 \in 1 .. Len(c)
    BY <1>3
  <2> QED BY <1>5, <2>1 DEF In
<1>7. IsList(c)
  BY <1>3 DEF IsList
<1> QED BY <1>2, <1>6, <1>7, ListIndices

-----------------------------------------------------------------------------
(* The life of a position, told by the state and by the core of the list: while no stop
   has been handled the event loop has one thing to do about it at a time. *)

Lot(v, p)         == [event |-> "InstanceTrade", volume |-> v, price |-> p]
LevelsAt(p)       == [event |-> "PriceLevels", no_loss_price |-> p]
NewsToExit(b)     == [event |-> "OpenedPosToExit", opened |-> b]
TradeToExit(v, p) == [event |-> "TradeToExit", volume |-> v, price |-> p]
Update(g)         == [event |-> "ExitUpdated", guid |-> g]

Position == gateway.m_pos_volume
LastPrice == gateway.m_last_price
Amounts == Int \ {0}

NoneRests == gateway.m_tpsl = None /\ gateway.m_trailing_stop = None

NoExits ==
  /\ NoneRests /\ m_tpsl = None /\ m_trailing_stop = None
  /\ m_active_exit = None /\ m_exit_sub = None

(* No position *)
Free(c) == Position = 0 /\ NoExits /\ m_opened_position = None /\ c = <<>>

(* A position whose exit is still to be sent: its trade, its news, its trade again. *)
Entering(c) ==
  /\ Position # 0 /\ NoExits
  /\ \/ m_opened_position = None /\ c = <<Lot(Position, LastPrice)>>
     \/ /\ ~HasTpsl(strategy)
        /\ c = <<LevelsAt(LastPrice), NewsToExit(TRUE), TradeToExit(Position, LastPrice)>>
     \/ /\ HasTpsl(strategy) \/ no_loss_price = LastPrice
        /\ \/ c = <<NewsToExit(TRUE), TradeToExit(Position, LastPrice)>>
           \/ m_is_pos_opened /\ c = <<TradeToExit(Position, LastPrice)>>

IsTpsl(o) ==
  o = [kind |-> o.kind, acked |-> o.acked, rejected |-> o.rejected,
       suspended |-> o.suspended, triggered |-> o.triggered]

(* The TP/SL is in the market. *)
Covered(c) ==
  LET g == m_tpsl IN
  /\ HasTpsl(strategy) /\ Position # 0 /\ g # None /\ m_exit_sub = g
  /\ m_trailing_stop = None /\ gateway.m_trailing_stop = None
  /\ gateway.m_tpsl # None /\ gateway.m_tpsl.guid = g
  /\ IsTpsl(exitOrder[g])
  /\ \/ c = <<TpslUpdatedEvent(g, TRUE, FALSE, FALSE)>>
     \/ /\ tpsl_status(exitOrder[g]) = "Suspended"
        /\ c = <<Update(g)>> \/ (c = <<>> /\ m_active_exit = g)

(* The TP/SL has closed the position: its response, its trade, and the news. *)
TakenOut(c) ==
  LET g == m_exit_sub IN
  /\ g # None /\ IsTpsl(exitOrder[g])
  /\ \E v, p :
     /\ v \in Amounts
     /\ \/ /\ m_tpsl = g
           /\ c = <<TpslUpdatedEvent(g, FALSE, TRUE, FALSE), TradeEvent(g, v, p), Lot(v, p)>>
        \/ /\ m_tpsl = None /\ tpsl_status(exitOrder[g]) = "Filled"
           /\ \/ m_last_tpsl_guid = g /\ c = <<TradeEvent(g, v, p), Lot(v, p), Update(g)>>
              \/ c = <<Lot(v, p), Update(g)>>
              \/ /\ m_opened_position = None
                 /\ c = <<Update(g), NewsToExit(FALSE), TradeToExit(v, p)>>

TakenTold(c) ==
  /\ m_tpsl = None /\ m_active_exit = None /\ m_exit_sub = None
  /\ m_opened_position = None
  /\ \E v, p :
       \/ c = <<NewsToExit(FALSE), TradeToExit(v, p)>>
       \/ ~m_is_pos_opened /\ c = <<TradeToExit(v, p)>>

Taken(c) ==
  /\ HasTpsl(strategy) /\ Position = 0 /\ NoneRests /\ m_trailing_stop = None
  /\ TakenOut(c) \/ TakenTold(c)

(* The trailing stop is in the market; its updates say what it is at. *)
IsMove(e) == \E stop : e = TrailingUpdatedEvent(stop) /\ stop # {}

Ratchets ==
  LET g == m_trailing_stop
      t == gateway.m_trailing_stop
  IN /\ ~HasTpsl(strategy) /\ Position # 0
     /\ g # None /\ m_exit_sub = g /\ m_tpsl = None /\ gateway.m_tpsl = None
     /\ t # None /\ t.guid = g /\ t.side = -SideOf(Position)
     /\ exitOrder[g].side = t.side /\ t.stop \in Int /\ t.distance \in Nat
     /\ m_active_exit = g => exitOrder[g].active # {}

MovesOnly(c) ==
  \A i \in 1 .. Len(c) :
    \/ IsMove(c[i])
    \/ c[i] = Update(m_trailing_stop) /\ exitOrder[m_trailing_stop].active # {}

LongSide == -exitOrder[m_trailing_stop].side
NoLoss == no_loss_price + NoLossDistance * LongSide
Far(price) == (price - NoLoss) * LongSide >= 0

(* The first stop is no further than the level without loss. *)
FirstStop == ~m_triggered_once => gateway.m_trailing_stop.distance = RiskDistance
Near == ~m_triggered_once => (gateway.m_trailing_stop.stop - NoLoss) * LongSide <= 0

Trails(c) ==
  /\ Ratchets /\ FirstStop /\ Near
  /\ MovesOnly(c)
  /\ c = <<>> => m_active_exit = m_trailing_stop

(* The trailing stop has closed the position: its trade, its last update, the news. *)
StoppedOut(c) ==
  LET g == m_trailing_stop IN
  /\ g # None /\ m_exit_sub = g
  /\ \E v, p :
     /\ v \in Amounts
     /\ \/ c = <<TradeEvent(g, v, p), Lot(v, p), TrailingUpdatedEvent({})>>
        \/ c = <<Lot(v, p), TrailingUpdatedEvent({})>>
        \/ /\ m_opened_position = None
           /\ c = <<TrailingUpdatedEvent({}), NewsToExit(FALSE), TradeToExit(v, p)>>

StoppedTold(c) ==
  /\ m_trailing_stop = None /\ m_opened_position = None /\ m_exit_sub # None
  /\ \E v, p :
       \/ c = <<NewsToExit(FALSE), TradeToExit(v, p), Update(None)>>
       \/ ~m_is_pos_opened /\ c = <<TradeToExit(v, p), Update(None)>>
       \/ ~m_is_pos_opened /\ c = <<Update(None)>>

OutOfMarket == ~HasTpsl(strategy) /\ Position = 0 /\ NoneRests /\ m_tpsl = None

StoppedPhase(c) == OutOfMarket /\ (StoppedOut(c) \/ StoppedTold(c))

Phase(c) ==
  Free(c) \/ Entering(c) \/ Covered(c) \/ Taken(c) \/ Trails(c) \/ StoppedPhase(c)

(* A price the exit is still to hear of is the first entry of the list: after the
   gateway has heard of it, a stop that was reached has not been replaced by one. *)
PricedPhase(c, price) ==
  \/ Free(c)
  \/ /\ Ratchets /\ FirstStop /\ MovesOnly(c) /\ m_active_exit = m_trailing_stop
     /\ Near \/ Far(price)
  \/ /\ OutOfMarket /\ m_active_exit = m_trailing_stop
     /\ m_triggered_once \/ ~Far(price)
     /\ m_trailing_stop # None /\ m_exit_sub = m_trailing_stop
     /\ \E v, p :
          /\ v \in Amounts
          /\ c = <<TradeEvent(m_trailing_stop, v, p), Lot(v, p), TrailingUpdatedEvent({})>>

Priced(c) ==
  /\ ~HasTpsl(strategy) /\ queue.normal # <<>>
  /\ \E price \in Prices :
       /\ Head(queue.normal) = [event |-> "PriceToExit", price |-> price]
       /\ PricedPhase(c, price)
  /\ NoneOf(Tail(queue.normal), "PriceToExit") /\ NoneOf(c, "ExitUpdated")

(* Once an exit has closed the position, no signal can enter again before the strategy
   has been told: the news of the position is still "opened", or no signal waits. *)
Leaving(c) ==
  Position = 0 /\ c # <<>> => m_has_opened_pos \/ Late(queue.normal)

Life ==
  ~m_stop_request_handled =>
    /\ exitErrors = {} /\ LastPrice \in Int /\ no_loss_price \in Int
    /\ \E c :
         /\ c = Core(queue.normal) /\ Leaving(c)
         /\ (NoneOf(queue.normal, "PriceToExit") /\ Phase(c)) \/ Priced(c)

lifeVars ==
  <<gateway, strategy, exitOrder, m_tpsl, m_trailing_stop, m_last_tpsl_guid, exitErrors,
    m_is_pos_opened, m_active_exit, m_exit_sub, m_triggered_once, no_loss_price,
    m_opened_position>>

(* An event taken from the list of normal priority is noise, or the head of the core. *)
LEMMA TakesCore ==
  ASSUME Books, NEW k, k \in NormalKinds, Runs(k), NEW c, c = Core(queue.normal)
  PROVE  \E d :
           /\ d = Core(Popped.normal) /\ IsList(d) /\ IsList(Popped.normal)
           /\ Next_Event.event = k
           /\ Noise(Next_Event) => c = d
           /\ ~Noise(Next_Event) => Parts(c, Next_Event, d)
<1> DEFINE n == queue.normal
           t == Tail(n)
<1>1. IsQueue(queue) /\ n # <<>> /\ Next_Event = Head(n) /\ Head(n).event = k /\ Popped.normal = t
  BY TakesHead
<1>2. IsList(n)
  BY <1>1 DEF IsQueue, Whole
<1>3. /\ IsList(Core(t)) /\ IsList(t)
      /\ Noise(Head(n)) => Core(n) = Core(t)
      /\ ~Noise(Head(n)) => Core(n) = <<Head(n)>> \o Core(t)
  <2> HIDE DEF n
  <2> QED BY <1>1, <1>2, CoreTail, ListTail
<1> HIDE DEF t
<1> QED BY <1>1, <1>3 DEF Parts

LEMMA NoneGets ==
  ASSUME IsQueue(queue), NEW k, NoneOf(queue.normal, k), NEW K, k \notin K, Gets(K)
  PROVE  NoneOf(queue'.normal, k)
<1>1. PICK n, l : Rest(n) /\ IsList(l) /\ Kinds(l, K) /\ queue'.normal = n \o l
  BY DEF Gets
<1>2. IsList(queue.normal)
  BY DEF IsQueue, Whole
<1>3. IsList(n) /\ NoneOf(n, k)
  <2>1. CASE n = queue.normal
    BY <1>2, <2>1
  <2>2. CASE queue.normal # <<>> /\ n = Tail(queue.normal)
    BY <1>2, <2>2, NoneOfTail
  <2>3. ASSUME NEW D, queue.normal # <<>>, n = Without(Tail(queue.normal), D)
        PROVE  IsList(n) /\ NoneOf(n, k)
    <3> DEFINE t == Tail(queue.normal)
    <3>1. IsList(t) /\ NoneOf(t, k)
      BY <1>2, <2>3, NoneOfTail
    <3> HIDE DEF t
    <3>2. IsList(Without(t, D)) /\ NoneOf(Without(t, D), k)
      BY <3>1, NoneOfWithout
    <3> QED BY <2>3, <3>2 DEF t
  <2> QED BY <1>1, <2>1, <2>2, <2>3 DEF Rest
<1>4. NoneOf(l, k)
  BY <1>1, NoneOfSome
<1> QED BY <1>1, <1>3, <1>4, NoneOfConcat

(* One step of a position's life *)
LEMMA LifeGoesOn ==
  ASSUME Books, NEW c, Leaving(c), c # <<>>, NoneOf(queue.normal, "PriceToExit"),
         exitErrors' = {}, LastPrice' \in Int, no_loss_price' \in Int,
         Position' = Position, m_has_opened_pos' = m_has_opened_pos,
         NEW K, "SignalToEntry" \notin K, "PriceToExit" \notin K, Gets(K),
         NEW d, d = Core(queue'.normal), Phase(d)'
  PROVE  Life'
<1>1. NoneOf(queue'.normal, "PriceToExit")
  <2> DEFINE k == "PriceToExit"
  <2>1. IsQueue(queue) /\ NoneOf(queue.normal, k) /\ k \notin K
    BY DEF Books, Shapes
  <2> HIDE DEF k
  <2>2. NoneOf(queue'.normal, k)
    BY <2>1, NoneGets
  <2> QED BY <2>2 DEF k
<1>2. Leaving(d)'
  <2>1. Late(queue.normal) => Late(queue'.normal)
    BY LateGets
  <2> QED BY <2>1 DEF Leaving
<1> QED BY <1>1, <1>2 DEF Life

LEMMA PhaseStays ==
  ASSUME NEW c, UNCHANGED lifeVars
  PROVE  /\ Phase(c) => Phase(c)'
         /\ \A price : PricedPhase(c, price) => PricedPhase(c, price)'
<1> USE DEF lifeVars, Position, LastPrice, NoneRests, NoExits
<1>1. Free(c) => Free(c)'
  BY DEF Free
<1>2. Entering(c) => Entering(c)'
  BY DEF Entering
<1>3. Covered(c) => Covered(c)'
  BY DEF Covered
<1>4. Taken(c) => Taken(c)'
  BY DEF Taken, TakenOut, TakenTold
<1>5. Ratchets => Ratchets'
  BY DEF Ratchets
<1>6. (FirstStop => FirstStop') /\ (Near => Near') /\ \A price : Far(price) = Far(price)'
  BY DEF FirstStop, Near, NoLoss, LongSide, Far
<1>7. MovesOnly(c) => MovesOnly(c)'
  BY DEF MovesOnly
<1>8. Trails(c) => Trails(c)'
  BY <1>5, <1>6, <1>7 DEF Trails
<1>9. StoppedPhase(c) => StoppedPhase(c)'
  BY DEF StoppedPhase, StoppedOut, StoppedTold, OutOfMarket
<1>10. Phase(c) => Phase(c)'
  BY <1>1, <1>2, <1>3, <1>4, <1>8, <1>9 DEF Phase
<1>11. ASSUME NEW price, PricedPhase(c, price) PROVE PricedPhase(c, price)'
  BY <1>1, <1>5, <1>6, <1>7, <1>11 DEF PricedPhase, OutOfMarket
<1> QED BY <1>10, <1>11

LEMMA MovesHead ==
  ASSUME NEW c, NEW h, NEW d, Parts(c, h, d), MovesOnly(c)
  PROVE  /\ MovesOnly(d)
         /\ \/ IsMove(h)
            \/ h = Update(m_trailing_stop) /\ exitOrder[m_trailing_stop].active # {}
<1> DEFINE m == <<h>>
<1>1. IsList(m) /\ Len(m) = 1 /\ m[1] = h
  BY LiteralLists
<1> HIDE DEF m
<1>2. /\ Len(c) = 1 + Len(d) /\ c[1] = h /\ Len(d) \in Nat
      /\ \A i \in 1 .. Len(d) : c[1 + i] = d[i]
  <2>1. /\ Len(m \o d) = Len(m) + Len(d)
        /\ \A i \in 1 .. Len(m) : (m \o d)[i] = m[i]
        /\ \A i \in 1 .. Len(d) : (m \o d)[Len(m) + i] = d[i]
    <3>1. IsList(d)
      BY DEF Parts
    <3>2. IsList(m)
      BY <1>1
    <3> QED BY <3>1, <3>2, ListConcat
  <2>2. Len(d) \in Nat /\ c = m \o d
    BY ListIndices DEF Parts, m
  <2> QED BY <1>1, <2>1, <2>2 DEF m
<1>3. ASSUME NEW i \in 1 .. Len(d)
      PROVE  \/ IsMove(d[i])
             \/ d[i] = Update(m_trailing_stop) /\ exitOrder[m_trailing_stop].active # {}
  <2>1. 1 + i \in 1 .. Len(c) /\ c[1 + i] = d[i]
    BY <1>2
  <2> QED BY <2>1 DEF MovesOnly
<1>4. 1 \in 1 .. Len(c)
  BY <1>2
<1> QED BY <1>2, <1>3, <1>4 DEF MovesOnly

(* What an event about the position or its exit finds *)
NewsFound(c, h, d) ==
  \/ /\ Position # 0 /\ NoExits /\ (HasTpsl(strategy) \/ no_loss_price = LastPrice)
     /\ h = NewsToExit(TRUE) /\ d = <<TradeToExit(Position, LastPrice)>>
  \/ /\ Taken(c) /\ TakenTold(c)
     /\ h = NewsToExit(FALSE) /\ \E v, p : d = <<TradeToExit(v, p)>>
  \/ /\ OutOfMarket /\ StoppedTold(c)
     /\ h = NewsToExit(FALSE) /\ \E v, p : d = <<TradeToExit(v, p), Update(None)>>

LEMMA NextNews ==
  ASSUME NEW c, Phase(c), NEW h, NEW d, Parts(c, h, d),
         h.event = "OpenedPosToExit"
  PROVE  NewsFound(c, h, d)
<1>1. /\ c # <<>>
      /\ \A x : c = <<x>> => h = x /\ d = <<>>
      /\ \A x, y : c = <<x, y>> => h = x /\ d = <<y>>
      /\ \A x, y, z : c = <<x, y, z>> => h = x /\ d = <<y, z>>
  BY Scripts
<1> USE DEF Lot, LevelsAt, NewsToExit, TradeToExit, Update, TpslUpdatedEvent, TradeEvent,
            TrailingUpdatedEvent
<1>2. ~Free(c)
  BY <1>1 DEF Free
<1>3. ~Covered(c)
  BY <1>1 DEF Covered
<1>4. ~Trails(c)
  <2> SUFFICES ASSUME MovesOnly(c) PROVE FALSE
    BY DEF Trails
  <2>1. \/ IsMove(h)
        \/ h = Update(m_trailing_stop) /\ exitOrder[m_trailing_stop].active # {}
    BY MovesHead
  <2> QED BY <2>1 DEF IsMove
<1>5. ASSUME Entering(c)
      PROVE  /\ Position # 0 /\ NoExits /\ (HasTpsl(strategy) \/ no_loss_price = LastPrice)
             /\ h = NewsToExit(TRUE) /\ d = <<TradeToExit(Position, LastPrice)>>
  BY <1>1, <1>5 DEF Entering
<1>6. ASSUME Taken(c)
      PROVE  TakenTold(c) /\ h = NewsToExit(FALSE) /\ \E v, p : d = <<TradeToExit(v, p)>>
  <2>1. ~TakenOut(c)
    BY <1>1 DEF TakenOut
  <2> QED BY <1>1, <1>6, <2>1 DEF Taken, TakenTold
<1>7. ASSUME StoppedPhase(c)
      PROVE  /\ OutOfMarket /\ StoppedTold(c)
             /\ h = NewsToExit(FALSE) /\ \E v, p : d = <<TradeToExit(v, p), Update(None)>>
  <2>1. ~StoppedOut(c)
    BY <1>1 DEF StoppedOut
  <2> QED BY <1>1, <1>7, <2>1 DEF StoppedPhase, StoppedTold
<1> QED BY <1>2, <1>3, <1>4, <1>5, <1>6, <1>7 DEF Phase, NewsFound

TradeFound(c, h, d) ==
  \/ /\ Position # 0 /\ NoExits /\ (HasTpsl(strategy) \/ no_loss_price = LastPrice)
     /\ m_is_pos_opened /\ h = TradeToExit(Position, LastPrice) /\ d = <<>>
  \/ /\ Taken(c) /\ TakenTold(c) /\ ~m_is_pos_opened /\ d = <<>>
  \/ /\ OutOfMarket /\ StoppedTold(c) /\ ~m_is_pos_opened /\ d = <<Update(None)>>

LEMMA NextTrade ==
  ASSUME NEW c, Phase(c), NEW h, NEW d, Parts(c, h, d),
         h.event = "TradeToExit"
  PROVE  TradeFound(c, h, d)
<1>1. /\ c # <<>>
      /\ \A x : c = <<x>> => h = x /\ d = <<>>
      /\ \A x, y : c = <<x, y>> => h = x /\ d = <<y>>
      /\ \A x, y, z : c = <<x, y, z>> => h = x /\ d = <<y, z>>
  BY Scripts
<1> USE DEF Lot, LevelsAt, NewsToExit, TradeToExit, Update, TpslUpdatedEvent, TradeEvent,
            TrailingUpdatedEvent
<1>2. ~Free(c)
  BY <1>1 DEF Free
<1>3. ASSUME Entering(c)
      PROVE  /\ Position # 0 /\ NoExits /\ (HasTpsl(strategy) \/ no_loss_price = LastPrice)
             /\ m_is_pos_opened /\ h = TradeToExit(Position, LastPrice) /\ d = <<>>
  BY <1>1, <1>3 DEF Entering
<1>4. ~Covered(c)
  BY <1>1 DEF Covered
<1>5. ~TakenOut(c)
  BY <1>1 DEF TakenOut
<1>6. ASSUME Taken(c), TakenTold(c)
      PROVE  /\ Taken(c) /\ TakenTold(c) /\ ~m_is_pos_opened /\ d = <<>>
  BY <1>1, <1>6 DEF TakenTold
<1>7. ~Trails(c)
  <2> SUFFICES ASSUME MovesOnly(c) PROVE FALSE
    BY DEF Trails
  <2>1. \/ IsMove(h)
        \/ h = Update(m_trailing_stop) /\ exitOrder[m_trailing_stop].active # {}
    BY MovesHead
  <2> QED BY <2>1 DEF IsMove
<1>8. ~StoppedOut(c)
  BY <1>1 DEF StoppedOut
<1>9. ASSUME OutOfMarket, StoppedTold(c)
      PROVE  /\ OutOfMarket /\ StoppedTold(c) /\ ~m_is_pos_opened /\ d = <<Update(None)>>
  BY <1>1, <1>9 DEF StoppedTold
<1>10. (Taken(c) => TakenOut(c) \/ TakenTold(c))
       /\ (StoppedPhase(c) => OutOfMarket /\ (StoppedOut(c) \/ StoppedTold(c)))
  BY DEF Taken, StoppedPhase
<1> HIDE DEF Lot, LevelsAt, NewsToExit, TradeToExit, Update, TpslUpdatedEvent, TradeEvent,
             TrailingUpdatedEvent
<1> QED BY <1>2, <1>3, <1>4, <1>5, <1>6, <1>7, <1>8, <1>9, <1>10 DEF Phase, TradeFound

LevelsFound(c, h, d) ==
  /\ Position # 0 /\ NoExits /\ ~HasTpsl(strategy) /\ h = LevelsAt(LastPrice)
  /\ d = <<NewsToExit(TRUE), TradeToExit(Position, LastPrice)>>

LEMMA NextLevels ==
  ASSUME NEW c, Phase(c), NEW h, NEW d, Parts(c, h, d),
         h.event = "PriceLevels"
  PROVE  LevelsFound(c, h, d)
<1>1. /\ c # <<>>
      /\ \A x : c = <<x>> => h = x /\ d = <<>>
      /\ \A x, y : c = <<x, y>> => h = x /\ d = <<y>>
      /\ \A x, y, z : c = <<x, y, z>> => h = x /\ d = <<y, z>>
  BY Scripts
<1> USE DEF Lot, LevelsAt, NewsToExit, TradeToExit, Update, TpslUpdatedEvent, TradeEvent,
            TrailingUpdatedEvent
<1>2. ~Free(c)
  BY <1>1 DEF Free
<1>3. ASSUME Entering(c)
      PROVE  /\ Position # 0 /\ NoExits /\ ~HasTpsl(strategy) /\ h = LevelsAt(LastPrice)
             /\ d = <<NewsToExit(TRUE), TradeToExit(Position, LastPrice)>>
  BY <1>1, <1>3 DEF Entering
<1>4. ~Covered(c)
  BY <1>1 DEF Covered
<1>5. ~TakenOut(c)
  BY <1>1 DEF TakenOut
<1>6. ~TakenTold(c)
  BY <1>1 DEF TakenTold
<1>7. ~Trails(c)
  <2> SUFFICES ASSUME MovesOnly(c) PROVE FALSE
    BY DEF Trails
  <2>1. \/ IsMove(h)
        \/ h = Update(m_trailing_stop) /\ exitOrder[m_trailing_stop].active # {}
    BY MovesHead
  <2> QED BY <2>1 DEF IsMove
<1>8. ~StoppedOut(c)
  BY <1>1 DEF StoppedOut
<1>9. ~StoppedTold(c)
  BY <1>1 DEF StoppedTold
<1>10. (Taken(c) => TakenOut(c) \/ TakenTold(c))
       /\ (StoppedPhase(c) => OutOfMarket /\ (StoppedOut(c) \/ StoppedTold(c)))
  BY DEF Taken, StoppedPhase
<1> HIDE DEF Lot, LevelsAt, NewsToExit, TradeToExit, Update, TpslUpdatedEvent, TradeEvent,
             TrailingUpdatedEvent
<1> QED BY <1>2, <1>3, <1>4, <1>5, <1>6, <1>7, <1>8, <1>9, <1>10 DEF Phase, LevelsFound

LotFound(c, h, d) ==
  \/ /\ Position # 0 /\ NoExits /\ m_opened_position = None
     /\ h = Lot(Position, LastPrice) /\ d = <<>>
  \/ /\ Taken(c) /\ m_exit_sub # None /\ IsTpsl(exitOrder[m_exit_sub])
     /\ m_tpsl = None /\ tpsl_status(exitOrder[m_exit_sub]) = "Filled"
     /\ \E v, p : v \in Amounts /\ h = Lot(v, p)
     /\ d = <<Update(m_exit_sub)>>
  \/ /\ OutOfMarket /\ m_trailing_stop # None /\ m_exit_sub = m_trailing_stop
     /\ \E v, p : v \in Amounts /\ h = Lot(v, p)
     /\ d = <<TrailingUpdatedEvent({})>>

LEMMA NextLot ==
  ASSUME NEW c, Phase(c), NEW h, NEW d, Parts(c, h, d),
         h.event = "InstanceTrade"
  PROVE  LotFound(c, h, d)
<1>1. /\ c # <<>>
      /\ \A x : c = <<x>> => h = x /\ d = <<>>
      /\ \A x, y : c = <<x, y>> => h = x /\ d = <<y>>
      /\ \A x, y, z : c = <<x, y, z>> => h = x /\ d = <<y, z>>
  BY Scripts
<1> USE DEF Lot, LevelsAt, NewsToExit, TradeToExit, Update, TpslUpdatedEvent, TradeEvent,
            TrailingUpdatedEvent
<1>2. ~Free(c)
  BY <1>1 DEF Free
<1>3. ASSUME Entering(c)
      PROVE  /\ Position # 0 /\ NoExits /\ m_opened_position = None
             /\ h = Lot(Position, LastPrice) /\ d = <<>>
  BY <1>1, <1>3 DEF Entering
<1>4. ~Covered(c)
  BY <1>1 DEF Covered
<1>5. ASSUME Taken(c), TakenOut(c)
      PROVE  /\ Taken(c) /\ m_exit_sub # None /\ IsTpsl(exitOrder[m_exit_sub])
             /\ m_tpsl = None /\ tpsl_status(exitOrder[m_exit_sub]) = "Filled"
             /\ \E v, p : v \in Amounts /\ h = Lot(v, p)
             /\ d = <<Update(m_exit_sub)>>
  BY <1>1, <1>5 DEF TakenOut
<1>6. ~TakenTold(c)
  BY <1>1 DEF TakenTold
<1>7. ~Trails(c)
  <2> SUFFICES ASSUME MovesOnly(c) PROVE FALSE
    BY DEF Trails
  <2>1. \/ IsMove(h)
        \/ h = Update(m_trailing_stop) /\ exitOrder[m_trailing_stop].active # {}
    BY MovesHead
  <2> QED BY <2>1 DEF IsMove
<1>8. ASSUME OutOfMarket, StoppedOut(c)
      PROVE  /\ OutOfMarket /\ m_trailing_stop # None /\ m_exit_sub = m_trailing_stop
             /\ \E v, p : v \in Amounts /\ h = Lot(v, p)
             /\ d = <<TrailingUpdatedEvent({})>>
  BY <1>1, <1>8 DEF StoppedOut
<1>9. ~StoppedTold(c)
  BY <1>1 DEF StoppedTold
<1>10. (Taken(c) => TakenOut(c) \/ TakenTold(c))
       /\ (StoppedPhase(c) => OutOfMarket /\ (StoppedOut(c) \/ StoppedTold(c)))
  BY DEF Taken, StoppedPhase
<1> HIDE DEF Lot, LevelsAt, NewsToExit, TradeToExit, Update, TpslUpdatedEvent, TradeEvent,
             TrailingUpdatedEvent
<1> QED BY <1>2, <1>3, <1>4, <1>5, <1>6, <1>7, <1>8, <1>9, <1>10 DEF Phase, LotFound

TpslFound(c, h, d) ==
  \/ /\ Covered(c) /\ h = TpslUpdatedEvent(m_tpsl, TRUE, FALSE, FALSE) /\ d = <<>>
  \/ /\ Taken(c) /\ m_exit_sub # None /\ IsTpsl(exitOrder[m_exit_sub]) /\ m_tpsl = m_exit_sub
     /\ h = TpslUpdatedEvent(m_exit_sub, FALSE, TRUE, FALSE)
     /\ \E v, p : v \in Amounts /\ d = <<TradeEvent(m_exit_sub, v, p), Lot(v, p)>>

LEMMA NextTpsl ==
  ASSUME NEW c, Phase(c), NEW h, NEW d, Parts(c, h, d),
         h.event = "TpslUpdated"
  PROVE  TpslFound(c, h, d)
<1>1. /\ c # <<>>
      /\ \A x : c = <<x>> => h = x /\ d = <<>>
      /\ \A x, y : c = <<x, y>> => h = x /\ d = <<y>>
      /\ \A x, y, z : c = <<x, y, z>> => h = x /\ d = <<y, z>>
  BY Scripts
<1> USE DEF Lot, LevelsAt, NewsToExit, TradeToExit, Update, TpslUpdatedEvent, TradeEvent,
            TrailingUpdatedEvent
<1>2. ~Free(c)
  BY <1>1 DEF Free
<1>3. ~Entering(c)
  BY <1>1 DEF Entering
<1>4. ASSUME Covered(c)
      PROVE  /\ Covered(c) /\ h = TpslUpdatedEvent(m_tpsl, TRUE, FALSE, FALSE) /\ d = <<>>
  BY <1>1, <1>4 DEF Covered
<1>5. ASSUME Taken(c), TakenOut(c)
      PROVE  /\ Taken(c) /\ m_exit_sub # None /\ IsTpsl(exitOrder[m_exit_sub]) /\ m_tpsl = m_exit_sub
             /\ h = TpslUpdatedEvent(m_exit_sub, FALSE, TRUE, FALSE)
             /\ \E v, p : v \in Amounts /\ d = <<TradeEvent(m_exit_sub, v, p), Lot(v, p)>>
  BY <1>1, <1>5 DEF TakenOut
<1>6. ~TakenTold(c)
  BY <1>1 DEF TakenTold
<1>7. ~Trails(c)
  <2> SUFFICES ASSUME MovesOnly(c) PROVE FALSE
    BY DEF Trails
  <2>1. \/ IsMove(h)
        \/ h = Update(m_trailing_stop) /\ exitOrder[m_trailing_stop].active # {}
    BY MovesHead
  <2> QED BY <2>1 DEF IsMove
<1>8. ~StoppedOut(c)
  BY <1>1 DEF StoppedOut
<1>9. ~StoppedTold(c)
  BY <1>1 DEF StoppedTold
<1>10. (Taken(c) => TakenOut(c) \/ TakenTold(c))
       /\ (StoppedPhase(c) => OutOfMarket /\ (StoppedOut(c) \/ StoppedTold(c)))
  BY DEF Taken, StoppedPhase
<1> HIDE DEF Lot, LevelsAt, NewsToExit, TradeToExit, Update, TpslUpdatedEvent, TradeEvent,
             TrailingUpdatedEvent
<1> QED BY <1>2, <1>3, <1>4, <1>5, <1>6, <1>7, <1>8, <1>9, <1>10 DEF Phase, TpslFound

MoveFound(c, h, d) ==
  \/ /\ Trails(c) /\ IsMove(h) /\ MovesOnly(d)
  \/ /\ OutOfMarket /\ m_trailing_stop # None /\ m_exit_sub = m_trailing_stop
     /\ m_opened_position = None /\ h = TrailingUpdatedEvent({})
     /\ \E v, p : d = <<NewsToExit(FALSE), TradeToExit(v, p)>>

LEMMA NextMove ==
  ASSUME NEW c, Phase(c), NEW h, NEW d, Parts(c, h, d),
         h.event = "TrailingUpdated"
  PROVE  MoveFound(c, h, d)
<1>1. /\ c # <<>>
      /\ \A x : c = <<x>> => h = x /\ d = <<>>
      /\ \A x, y : c = <<x, y>> => h = x /\ d = <<y>>
      /\ \A x, y, z : c = <<x, y, z>> => h = x /\ d = <<y, z>>
  BY Scripts
<1> USE DEF Lot, LevelsAt, NewsToExit, TradeToExit, Update, TpslUpdatedEvent, TradeEvent,
            TrailingUpdatedEvent
<1>2. ~Free(c)
  BY <1>1 DEF Free
<1>3. ~Entering(c)
  BY <1>1 DEF Entering
<1>4. ~Covered(c)
  BY <1>1 DEF Covered
<1>5. ~TakenOut(c)
  BY <1>1 DEF TakenOut
<1>6. ~TakenTold(c)
  BY <1>1 DEF TakenTold
<1>7. ASSUME Trails(c)
      PROVE  /\ Trails(c) /\ IsMove(h) /\ MovesOnly(d)
  BY <1>7, MovesHead DEF Trails, IsMove
<1>8. ASSUME OutOfMarket, StoppedOut(c)
      PROVE  /\ OutOfMarket /\ m_trailing_stop # None /\ m_exit_sub = m_trailing_stop
             /\ m_opened_position = None /\ h = TrailingUpdatedEvent({})
             /\ \E v, p : d = <<NewsToExit(FALSE), TradeToExit(v, p)>>
  BY <1>1, <1>8 DEF StoppedOut
<1>9. ~StoppedTold(c)
  BY <1>1 DEF StoppedTold
<1>10. (Taken(c) => TakenOut(c) \/ TakenTold(c))
       /\ (StoppedPhase(c) => OutOfMarket /\ (StoppedOut(c) \/ StoppedTold(c)))
  BY DEF Taken, StoppedPhase
<1> HIDE DEF Lot, LevelsAt, NewsToExit, TradeToExit, Update, TpslUpdatedEvent, TradeEvent,
             TrailingUpdatedEvent
<1> QED BY <1>2, <1>3, <1>4, <1>5, <1>6, <1>7, <1>8, <1>9, <1>10 DEF Phase, MoveFound

UpdateFound(c, h, d) ==
  \/ /\ Covered(c) /\ tpsl_status(exitOrder[m_tpsl]) = "Suspended"
     /\ h = Update(m_tpsl) /\ d = <<>>
  \/ /\ Taken(c) /\ m_exit_sub # None /\ m_tpsl = None /\ m_opened_position = None
     /\ tpsl_status(exitOrder[m_exit_sub]) = "Filled" /\ h = Update(m_exit_sub)
     /\ \E v, p : d = <<NewsToExit(FALSE), TradeToExit(v, p)>>
  \/ /\ Trails(c) /\ h = Update(m_trailing_stop) /\ MovesOnly(d)
     /\ exitOrder[m_trailing_stop].active # {}
  \/ /\ OutOfMarket /\ StoppedTold(c) /\ ~m_is_pos_opened
     /\ h = Update(None) /\ d = <<>>

LEMMA NextUpdate ==
  ASSUME NEW c, Phase(c), NEW h, NEW d, Parts(c, h, d),
         h.event = "ExitUpdated"
  PROVE  UpdateFound(c, h, d)
<1>1. /\ c # <<>>
      /\ \A x : c = <<x>> => h = x /\ d = <<>>
      /\ \A x, y : c = <<x, y>> => h = x /\ d = <<y>>
      /\ \A x, y, z : c = <<x, y, z>> => h = x /\ d = <<y, z>>
  BY Scripts
<1> USE DEF Lot, LevelsAt, NewsToExit, TradeToExit, Update, TpslUpdatedEvent, TradeEvent,
            TrailingUpdatedEvent
<1>2. ~Free(c)
  BY <1>1 DEF Free
<1>3. ~Entering(c)
  BY <1>1 DEF Entering
<1>4. ASSUME Covered(c)
      PROVE  /\ Covered(c) /\ tpsl_status(exitOrder[m_tpsl]) = "Suspended"
             /\ h = Update(m_tpsl) /\ d = <<>>
  BY <1>1, <1>4 DEF Covered
<1>5. ASSUME Taken(c), TakenOut(c)
      PROVE  /\ Taken(c) /\ m_exit_sub # None /\ m_tpsl = None /\ m_opened_position = None
             /\ tpsl_status(exitOrder[m_exit_sub]) = "Filled" /\ h = Update(m_exit_sub)
             /\ \E v, p : d = <<NewsToExit(FALSE), TradeToExit(v, p)>>
  BY <1>1, <1>5 DEF TakenOut
<1>6. ~TakenTold(c)
  BY <1>1 DEF TakenTold
<1>7. ASSUME Trails(c)
      PROVE  /\ Trails(c) /\ h = Update(m_trailing_stop) /\ MovesOnly(d)
             /\ exitOrder[m_trailing_stop].active # {}
  BY <1>7, MovesHead DEF Trails, IsMove
<1>8. ~StoppedOut(c)
  BY <1>1 DEF StoppedOut
<1>9. ASSUME OutOfMarket, StoppedTold(c)
      PROVE  /\ OutOfMarket /\ StoppedTold(c) /\ ~m_is_pos_opened
             /\ h = Update(None) /\ d = <<>>
  BY <1>1, <1>9 DEF StoppedTold
<1>10. (Taken(c) => TakenOut(c) \/ TakenTold(c))
       /\ (StoppedPhase(c) => OutOfMarket /\ (StoppedOut(c) \/ StoppedTold(c)))
  BY DEF Taken, StoppedPhase
<1> HIDE DEF Lot, LevelsAt, NewsToExit, TradeToExit, Update, TpslUpdatedEvent, TradeEvent,
             TrailingUpdatedEvent
<1> QED BY <1>2, <1>3, <1>4, <1>5, <1>6, <1>7, <1>8, <1>9, <1>10 DEF Phase, UpdateFound

ExecutionFound(c, h, d) ==
  \/ /\ Taken(c) /\ m_exit_sub # None /\ IsTpsl(exitOrder[m_exit_sub])
     /\ m_tpsl = None /\ tpsl_status(exitOrder[m_exit_sub]) = "Filled"
     /\ m_last_tpsl_guid = m_exit_sub
     /\ \E v, p : /\ v \in Amounts /\ h = TradeEvent(m_exit_sub, v, p)
                  /\ d = <<Lot(v, p), Update(m_exit_sub)>>
  \/ /\ OutOfMarket /\ m_trailing_stop # None /\ m_exit_sub = m_trailing_stop
     /\ \E v, p : /\ v \in Amounts /\ h = TradeEvent(m_trailing_stop, v, p)
                  /\ d = <<Lot(v, p), TrailingUpdatedEvent({})>>

LEMMA NextExecution ==
  ASSUME NEW c, Phase(c), NEW h, NEW d, Parts(c, h, d),
         h.event = "Trade"
  PROVE  ExecutionFound(c, h, d)
<1>1. /\ c # <<>>
      /\ \A x : c = <<x>> => h = x /\ d = <<>>
      /\ \A x, y : c = <<x, y>> => h = x /\ d = <<y>>
      /\ \A x, y, z : c = <<x, y, z>> => h = x /\ d = <<y, z>>
  BY Scripts
<1> USE DEF Lot, LevelsAt, NewsToExit, TradeToExit, Update, TpslUpdatedEvent, TradeEvent,
            TrailingUpdatedEvent
<1>2. ~Free(c)
  BY <1>1 DEF Free
<1>3. ~Entering(c)
  BY <1>1 DEF Entering
<1>4. ~Covered(c)
  BY <1>1 DEF Covered
<1>5. ASSUME Taken(c), TakenOut(c)
      PROVE  /\ Taken(c) /\ m_exit_sub # None /\ IsTpsl(exitOrder[m_exit_sub])
             /\ m_tpsl = None /\ tpsl_status(exitOrder[m_exit_sub]) = "Filled"
             /\ m_last_tpsl_guid = m_exit_sub
             /\ \E v, p : /\ v \in Amounts /\ h = TradeEvent(m_exit_sub, v, p)
                          /\ d = <<Lot(v, p), Update(m_exit_sub)>>
  BY <1>1, <1>5 DEF TakenOut
<1>6. ~TakenTold(c)
  BY <1>1 DEF TakenTold
<1>7. ~Trails(c)
  <2> SUFFICES ASSUME MovesOnly(c) PROVE FALSE
    BY DEF Trails
  <2>1. \/ IsMove(h)
        \/ h = Update(m_trailing_stop) /\ exitOrder[m_trailing_stop].active # {}
    BY MovesHead
  <2> QED BY <2>1 DEF IsMove
<1>8. ASSUME OutOfMarket, StoppedOut(c)
      PROVE  /\ OutOfMarket /\ m_trailing_stop # None /\ m_exit_sub = m_trailing_stop
             /\ \E v, p : /\ v \in Amounts /\ h = TradeEvent(m_trailing_stop, v, p)
                          /\ d = <<Lot(v, p), TrailingUpdatedEvent({})>>
  BY <1>1, <1>8 DEF StoppedOut
<1>9. ~StoppedTold(c)
  BY <1>1 DEF StoppedTold
<1>10. (Taken(c) => TakenOut(c) \/ TakenTold(c))
       /\ (StoppedPhase(c) => OutOfMarket /\ (StoppedOut(c) \/ StoppedTold(c)))
  BY DEF Taken, StoppedPhase
<1> HIDE DEF Lot, LevelsAt, NewsToExit, TradeToExit, Update, TpslUpdatedEvent, TradeEvent,
             TrailingUpdatedEvent
<1> QED BY <1>2, <1>3, <1>4, <1>5, <1>6, <1>7, <1>8, <1>9, <1>10 DEF Phase, ExecutionFound

LEMMA LivesNews ==
  ASSUME Books, exit_on_opened_pos, UNCHANGED instanceVars,
         NEW c, c = Core(queue.normal), Phase(c)
  PROVE  \E d : d = Core(queue'.normal) /\ Phase(d)'
<1> DEFINE k == "OpenedPosToExit"
           h == Next_Event
<1>1. k \in NormalKinds /\ Runs(k) /\ queue' = Popped /\ m_is_pos_opened' = h.opened
  BY DEF exit_on_opened_pos, NormalKinds
<1>2. PICK d : /\ d = Core(Popped.normal) /\ IsList(d) /\ h.event = k
               /\ ~Noise(h) => Parts(c, h, d)
  <2> HIDE DEF k
  <2> QED BY <1>1, TakesCore
<1>3. Parts(c, h, d)
  BY <1>2 DEF Noise, NoisyKinds
<1>4. UNCHANGED <<gateway, strategy, exitOrder, m_tpsl, m_trailing_stop, m_last_tpsl_guid,
                  m_active_exit, m_exit_sub, no_loss_price, m_opened_position>>
  BY DEF exit_on_opened_pos, omExitVars, instanceVars
<1> HIDE DEF h
<1>5. ASSUME Position # 0, NoExits, HasTpsl(strategy) \/ no_loss_price = LastPrice,
             h = NewsToExit(TRUE), d = <<TradeToExit(Position, LastPrice)>>
      PROVE  Phase(d)'
  <2>1. m_is_pos_opened'
    BY <1>1, <1>5 DEF NewsToExit
  <2>2. Entering(d)'
    BY <1>4, <1>5, <2>1 DEF Entering, NoExits, NoneRests, Position, LastPrice, TradeToExit
  <2> QED BY <2>2 DEF Phase
<1>6. ASSUME h = NewsToExit(FALSE) PROVE ~m_is_pos_opened'
  BY <1>1, <1>6 DEF NewsToExit
<1>7. ASSUME Taken(c), TakenTold(c), h = NewsToExit(FALSE),
             \E v, p : d = <<TradeToExit(v, p)>>
      PROVE  Phase(d)'
  <2>1. TakenTold(d)'
    BY <1>4, <1>6, <1>7 DEF TakenTold, TradeToExit
  <2>2. Taken(d)'
    BY <1>4, <1>7, <2>1 DEF Taken, NoneRests, Position
  <2> QED BY <2>2 DEF Phase
<1>8. ASSUME OutOfMarket, StoppedTold(c), h = NewsToExit(FALSE),
             \E v, p : d = <<TradeToExit(v, p), Update(None)>>
      PROVE  Phase(d)'
  <2>1. StoppedTold(d)'
    BY <1>4, <1>6, <1>8 DEF StoppedTold, TradeToExit, Update
  <2>2. StoppedPhase(d)'
    BY <1>4, <1>8, <2>1 DEF StoppedPhase, OutOfMarket, NoneRests, Position
  <2> QED BY <2>2 DEF Phase
<1>9. Phase(d)'
  <2>1. h.event = "OpenedPosToExit"
    BY <1>2
  <2>2. NewsFound(c, h, d)
    BY <1>3, <2>1, NextNews
  <2> QED BY <1>2, <1>3, <1>5, <1>7, <1>8, <2>2 DEF NewsFound
<1> QED BY <1>1, <1>2, <1>9

LEMMA LivesLevels ==
  ASSUME Books, exit_on_price_levels, UNCHANGED instanceVars,
         NEW c, c = Core(queue.normal), Phase(c)
  PROVE  /\ \E d : d = Core(queue'.normal) /\ Phase(d)'
         /\ no_loss_price' = LastPrice
<1> DEFINE k == "PriceLevels"
           h == Next_Event
<1>1. k \in NormalKinds /\ Runs(k) /\ queue' = Popped /\ no_loss_price' = h.no_loss_price
  BY DEF exit_on_price_levels, NormalKinds
<1>2. PICK d : /\ d = Core(Popped.normal) /\ IsList(d) /\ h.event = k
               /\ ~Noise(h) => Parts(c, h, d)
  <2> HIDE DEF k
  <2> QED BY <1>1, TakesCore
<1>3. Parts(c, h, d)
  BY <1>2 DEF Noise, NoisyKinds
<1>4. UNCHANGED <<gateway, strategy, m_tpsl, m_trailing_stop, m_active_exit, m_exit_sub>>
  BY DEF exit_on_price_levels, omExitVars
<1> HIDE DEF h
<1>5. /\ Position # 0 /\ NoExits /\ ~HasTpsl(strategy) /\ h = LevelsAt(LastPrice)
      /\ d = <<NewsToExit(TRUE), TradeToExit(Position, LastPrice)>>
  <2>1. h.event = "PriceLevels"
    BY <1>2
  <2>2. LevelsFound(c, h, d)
    BY <1>3, <2>1, NextLevels
  <2> QED BY <2>2 DEF LevelsFound
<1>6. no_loss_price' = LastPrice
  BY <1>1, <1>5 DEF LevelsAt
<1>7. Entering(d)'
  BY <1>4, <1>5, <1>6 DEF Entering, NoExits, NoneRests, Position, LastPrice, TradeToExit,
                          NewsToExit
<1>8. Phase(d)'
  BY <1>7 DEF Phase
<1> QED BY <1>1, <1>2, <1>6, <1>8

LEMMA LivesExecution ==
  ASSUME Books, on_exit_trade, UNCHANGED instanceVars,
         NEW c, c = Core(queue.normal), Phase(c)
  PROVE  /\ \E d : d = Core(queue'.normal) /\ Phase(d)'
         /\ exitErrors' = exitErrors
<1> DEFINE k == "Trade"
           h == Next_Event
<1>1. /\ k \in NormalKinds /\ Runs(k) /\ queue' = Popped /\ h.guid \in ExitOrders
      /\ h.guid \in {m_trailing_stop, m_tpsl, m_last_tpsl_guid} => exitErrors' = exitErrors
  BY DEF on_exit_trade, NormalKinds, GatewayKinds
<1>2. PICK d : /\ d = Core(Popped.normal) /\ IsList(d) /\ h.event = k
               /\ ~Noise(h) => Parts(c, h, d)
  <2> HIDE DEF k
  <2> QED BY <1>1, TakesCore
<1>3. Parts(c, h, d)
  BY <1>1, <1>2, ExitGuidsAreUnique DEF Noise, NoisyKinds
<1>4. UNCHANGED <<gateway, strategy, exitOrder, m_tpsl, m_trailing_stop, m_last_tpsl_guid,
                  m_active_exit, m_exit_sub, m_opened_position>>
  BY DEF on_exit_trade, exitVars, instanceVars
<1> HIDE DEF h
<1>5. ASSUME Taken(c), m_exit_sub # None, IsTpsl(exitOrder[m_exit_sub]),
             m_tpsl = None, tpsl_status(exitOrder[m_exit_sub]) = "Filled",
             m_last_tpsl_guid = m_exit_sub,
             \E v, p : /\ v \in Amounts /\ h = TradeEvent(m_exit_sub, v, p)
                       /\ d = <<Lot(v, p), Update(m_exit_sub)>>
      PROVE  Phase(d)' /\ exitErrors' = exitErrors
  <2>1. h.guid = m_last_tpsl_guid
    BY <1>5 DEF TradeEvent
  <2>2. TakenOut(d)'
    BY <1>4, <1>5 DEF TakenOut, IsTpsl, tpsl_status, Lot, Update
  <2>3. Taken(d)'
    BY <1>4, <1>5, <2>2 DEF Taken, NoneRests, Position
  <2> QED BY <1>1, <2>1, <2>3 DEF Phase
<1>6. ASSUME OutOfMarket, m_trailing_stop # None, m_exit_sub = m_trailing_stop,
             \E v, p : /\ v \in Amounts /\ h = TradeEvent(m_trailing_stop, v, p)
                       /\ d = <<Lot(v, p), TrailingUpdatedEvent({})>>
      PROVE  Phase(d)' /\ exitErrors' = exitErrors
  <2>1. h.guid = m_trailing_stop
    BY <1>6 DEF TradeEvent
  <2>2. StoppedOut(d)'
    BY <1>4, <1>6 DEF StoppedOut, Lot, TrailingUpdatedEvent
  <2>3. StoppedPhase(d)'
    BY <1>4, <1>6, <2>2 DEF StoppedPhase, OutOfMarket, NoneRests, Position
  <2> QED BY <1>1, <2>1, <2>3 DEF Phase
<1>7. Phase(d)' /\ exitErrors' = exitErrors
  <2>1. h.event = "Trade"
    BY <1>2
  <2>2. ExecutionFound(c, h, d)
    BY <1>3, <2>1, NextExecution
  <2> QED BY <1>2, <1>3, <1>5, <1>6, <2>2 DEF ExecutionFound
<1> QED BY <1>1, <1>2, <1>7

-----------------------------------------------------------------------------
(* Lists written out, and what of them is about the position *)
LEMMA CoreOfMore ==
  ASSUME NEW e, NEW l, IsList(l)
  PROVE  /\ IsList(<<e>> \o l) /\ IsList(Core(l))
         /\ Core(<<e>> \o l) = IF Noise(e) THEN Core(l) ELSE <<e>> \o Core(l)
<1> DEFINE x == <<e>>
           n == <<>>
           c == Core(l)
<1>1. IsList(x) /\ Core(x) = IF Noise(e) THEN n ELSE x
  BY CoreOfOne
<1> HIDE DEF x, n
<1>2. IsList(c) /\ Core(x \o l) = Core(x) \o c /\ IsList(x \o l)
  BY <1>1, CoreConcat, ListConcat
<1>3. n \o c = c
  <2> HIDE DEF c
  <2> QED BY <1>2, LiteralLists DEF n
<1> HIDE DEF c
<1>4. Core(x \o l) = IF Noise(e) THEN c ELSE x \o c
  BY <1>1, <1>2, <1>3
<1> QED BY <1>2, <1>4 DEF x, c

LEMMA CoreOfFew ==
  ASSUME NEW a, NEW b, ~Noise(a), ~Noise(b)
  PROVE  Core(<<a>>) = <<a>> /\ Core(<<a, b>>) = <<a, b>>
<1> DEFINE x == <<a>>
           y == <<b>>
<1>1. IsList(y) /\ Core(x) = x /\ Core(y) = y /\ x \o y = <<a, b>>
  BY CoreOfOne, Written
<1> HIDE DEF y
<1>2. Core(<<a>> \o y) = <<a>> \o y
  BY <1>1, CoreOfMore
<1> QED BY <1>1, <1>2 DEF x, y

(* The lots of a list are in its core. *)
LEMMA CoreOfLots ==
  ASSUME NEW q, Whole(q)
  PROVE  Whole(Core(q)) /\ LotsIn(Core(q)) = LotsIn(q)
<1> DEFINE D == {e \in ToSet(q) : Noise(e)}
<1>1. \A e \in D : LotsOf(e) = 0
  BY DEF Noise, NoisyKinds, LotsOf
<1> HIDE DEF D
<1>2. Whole(Without(q, D)) /\ LotsIn(Without(q, D)) = LotsIn(q)
  BY <1>1, LotsWithout
<1> QED BY <1>2 DEF Core, D

-----------------------------------------------------------------------------
(* A trade reaches the instance. *)
TradeNews(pos, vol, price) ==
  IF pos # None /\ ~HasTpsl(strategy)
  THEN <<LevelsAt(pos.entry), NewsToExit(pos # None), TradeToExit(vol, price)>>
  ELSE <<NewsToExit(pos # None), TradeToExit(vol, price)>>

LEMMA PositionEnds ==
  ASSUME NEW pos, IsPosition(pos), NEW vol \in Amounts, NEW price,
         Held(PositionAfter(pos, vol, price)) = 0
  PROVE  PositionAfter(pos, vol, price) = None
<1>1. CASE pos = None
  BY <1>1 DEF PositionAfter, Held, Amounts, None
<1>2. ASSUME pos # None PROVE PositionAfter(pos, vol, price) = None
  <2>1. pos = [volume |-> pos.volume, entry |-> pos.entry] /\ pos.volume \in Int
    BY <1>2 DEF IsPosition
  <2> DEFINE v == pos.volume
             w == [volume |-> v + vol, entry |-> (pos.entry * v + price * vol) \div (v + vol)]
             u == [pos EXCEPT !.volume = @ + vol]
  <2>2. w.volume = v + vol /\ u.volume = v + vol
    BY <2>1
  <2>3. w # None /\ u # None
    BY <2>1 DEF None
  <2>4. vol # 0 /\ vol \in Int
    BY DEF Amounts
  <2>5. PositionAfter(pos, vol, price)
          = IF v = 0 \/ Sign(vol) = Sign(v) THEN w ELSE IF v + vol = 0 THEN None ELSE u
    <3> HIDE DEF v
    <3>1. PositionAfter(pos, vol, price)
            = IF pos.volume = 0 \/ Sign(vol) = Sign(pos.volume)
              THEN [volume |-> pos.volume + vol,
                    entry  |-> (pos.entry * pos.volume + price * vol) \div (pos.volume + vol)]
              ELSE IF pos.volume + vol = 0 THEN None ELSE [pos EXCEPT !.volume = @ + vol]
      BY <1>2, <2>4, Zenon DEF PositionAfter
    <3> QED BY <3>1 DEF v
  <2>6. v \in Int
    BY <2>1
  <2> HIDE DEF w, u, v
  <2>7. v = 0 \/ Sign(vol) = Sign(v) => v + vol # 0
    BY <2>4, <2>6 DEF Sign
  <2>8. \/ PositionAfter(pos, vol, price) # w /\ PositionAfter(pos, vol, price) # u
        \/ v + vol = 0
    BY <2>2, <2>3 DEF Held
  <2> QED BY <2>5, <2>7, <2>8
<1> QED BY <1>1, <1>2

LEMMA TradeTold ==
  ASSUME Books, HandleTrade, NEW c, c = Core(queue.normal)
  PROVE  \E d, vol, price :
           /\ IsList(d) /\ Parts(c, Next_Event, d)
           /\ Next_Event.event = "InstanceTrade" /\ vol \in Int
           /\ vol = Next_Event.volume /\ price = Next_Event.price
           /\ m_opened_position' = PositionAfter(m_opened_position, vol, price)
           /\ Whole(d) /\ Held(m_opened_position') + LotsIn(d) = Position
           /\ Core(queue'.normal) = d \o TradeNews(m_opened_position', vol, price)
<1> DEFINE k == "InstanceTrade"
           n == queue.normal
           q == Popped
           vol == Next_Event.volume
           price == Next_Event.price
           pos == PositionAfter(m_opened_position, vol, price)
<1>1. k \in NormalKinds /\ Runs(k)
  BY DEF HandleTrade, NormalKinds, GatewayKinds
<1>2. /\ IsQueue(queue) /\ Next_Event.event = k /\ IsQueue(q)
      /\ vol \in Int /\ LotsIn(n) \in Int /\ LotsIn(q.normal) = LotsIn(n) - vol
  <2>1. IsQueue(queue)
    BY DEF Books, Shapes
  <2>2. /\ Next_Event = Head(n) /\ Head(n).event = k /\ Follows(queue, q, Tail(n))
        /\ LotsOf(Head(n)) \in Int /\ LotsIn(n) \in Int
        /\ LotsIn(Tail(n)) = LotsIn(n) - LotsOf(Head(n))
    <3> HIDE DEF k
    <3> QED BY <1>1, <2>1, PopNormal
  <2> QED BY <2>1, <2>2 DEF Follows, LotsOf
<1>3. PICK d : /\ d = Core(q.normal) /\ IsList(d) /\ IsList(q.normal)
               /\ ~Noise(Next_Event) => Parts(c, Next_Event, d)
  <2> HIDE DEF k
  <2> QED BY <1>1, TakesCore
<1>4. Parts(c, Next_Event, d)
  BY <1>2, <1>3 DEF Noise, NoisyKinds
<1>5. m_opened_position' = pos /\ Held(m_opened_position) \in Int
      /\ Held(pos) = Held(m_opened_position) + vol
  <2>1. m_opened_position' = pos
    BY DEF HandleTrade
  <2>2. IsPosition(m_opened_position)
    BY DEF Books, Shapes
  <2> HIDE DEF vol, price
  <2> QED BY <1>2, <2>1, <2>2, PositionTraded
<1>6. Whole(d) /\ LotsIn(d) = LotsIn(q.normal)
  <2>1. Whole(q.normal)
    BY <1>2 DEF IsQueue
  <2> QED BY <1>3, <2>1, CoreOfLots
<1>7. Held(m_opened_position) + LotsIn(n) = Position
  BY DEF Books, PositionAgrees, UnseenVolume, Held, Position
<1>8. Held(pos) + LotsIn(d) = Position
  <2> HIDE DEF vol, pos, n
  <2> QED BY <1>2, <1>5, <1>6, <1>7
<1> DEFINE l == TradeNews(pos, vol, price)
<1>9. Core(queue'.normal) = d \o l
  <2> DEFINE opened == pos # None
             u == IF opened /\ ~HasTpsl(strategy)
                  THEN <<LevelsAt(pos.entry)>> ELSE <<>>
             a == [event |-> "OpenedPosToEntry", opened |-> opened]
             b == NewsToExit(opened)
             z == TradeToExit(vol, price)
             bz == <<b, z>>
             w == <<a>> \o bz
             K == {"PriceLevels", "OpenedPosToEntry", "OpenedPosToExit", "TradeToExit"}
  <2>1. queue' = WithNormal(q, u \o <<a, b, z>>)
    BY DEF HandleTrade, LevelsAt, NewsToExit, TradeToExit
  <2>2. w = <<a, b, z>> /\ IsList(bz)
    BY Written
  <2>3. /\ Noise(a) /\ ~Noise(b) /\ ~Noise(z) /\ ~Noise(LevelsAt(pos.entry))
        /\ a.event \in K /\ b.event \in K /\ z.event \in K /\ LevelsAt(pos.entry).event \in K
    BY DEF Noise, NoisyKinds, NewsToExit, TradeToExit, LevelsAt
  <2>4. K \subseteq NormalKinds \ {"InstanceTrade"}
    BY DEF NormalKinds, GatewayKinds
  <2> HIDE DEF a, b, z, K, vol, price, pos
  <2>5. Core(bz) = bz
    BY <2>3, CoreOfFew
  <2>6. Core(w) = bz /\ IsList(w)
    <3> HIDE DEF bz
    <3> QED BY <2>2, <2>3, <2>5, CoreOfMore
  <2>7. Kinds(w, K)
    <3>1. Kinds(<<a, b, z>>, K)
      BY <2>3 DEF Kinds
    <3> QED BY <2>2, <3>1
  <2> HIDE DEF w
  <2>8. /\ IsList(u \o w) /\ Kinds(u \o w, K)
        /\ Core(u \o w) = IF opened /\ ~HasTpsl(strategy)
                          THEN <<LevelsAt(pos.entry)>> \o bz ELSE bz
    <3>1. CASE opened /\ ~HasTpsl(strategy)
      <4> DEFINE e == LevelsAt(pos.entry)
                 x == <<e>>
      <4>1. IsList(x) /\ Kinds(x, K)
        <5> HIDE DEF e
        <5>1. e.event \in K
          BY <2>3 DEF e
        <5> QED BY <5>1, KindsOfOne
      <4>2. Core(<<e>> \o w) = <<e>> \o Core(w)
        <5> HIDE DEF e
        <5> QED BY <2>3, <2>6, CoreOfMore DEF e
      <4>3. u = x
        BY <3>1
      <4> HIDE DEF x, u, e
      <4>4. IsList(x \o w) /\ Kinds(x \o w, K)
        BY <2>6, <2>7, <4>1, KindsConcat
      <4> QED BY <2>6, <3>1, <4>2, <4>3, <4>4 DEF x, e
    <3>2. ASSUME ~(opened /\ ~HasTpsl(strategy))
          PROVE  IsList(u \o w) /\ Kinds(u \o w, K) /\ Core(u \o w) = bz
      <4> DEFINE e == <<>>
      <4>1. u = e
        BY <3>2
      <4>2. e \o w = w
        BY <2>6, LiteralLists
      <4> HIDE DEF u, e
      <4> QED BY <2>6, <2>7, <4>1, <4>2
    <3> QED BY <3>1, <3>2
  <2>9. Core(u \o w) = l
    <3>1. <<LevelsAt(pos.entry)>> \o bz = <<LevelsAt(pos.entry), b, z>>
      BY Written
    <3> QED BY <2>8, <3>1 DEF TradeNews, b, z
  <2>10. queue'.normal = q.normal \o (u \o w)
    <3>1. queue' = WithNormal(q, u \o w)
      BY <2>1, <2>2
    <3> HIDE DEF u, q
    <3> QED BY <1>2, <2>4, <2>8, <3>1, PushOthers DEF Follows
  <2> HIDE DEF u, l, q
  <2>11. Core(q.normal \o (u \o w)) = Core(q.normal) \o Core(u \o w)
    BY <1>3, <2>8, CoreConcat
  <2> QED BY <1>3, <2>9, <2>10, <2>11
<1> HIDE DEF l, pos
<1>10. /\ IsList(d) /\ Parts(c, Next_Event, d)
       /\ Next_Event.event = "InstanceTrade" /\ vol \in Int
       /\ m_opened_position' = PositionAfter(m_opened_position, vol, price)
       /\ Whole(d) /\ Held(m_opened_position') + LotsIn(d) = Position
       /\ Core(queue'.normal) = d \o TradeNews(m_opened_position', vol, price)
  BY <1>2, <1>3, <1>4, <1>5, <1>6, <1>8, <1>9 DEF l, pos
<1> QED BY <1>10

LEMMA LivesLot ==
  ASSUME Books, HandleTrade, NEW c, c = Core(queue.normal), Phase(c)
  PROVE  \E s : s = Core(queue'.normal) /\ Phase(s)'
<1> DEFINE h == Next_Event
<1>1. PICK d, vol, price :
        /\ IsList(d) /\ Parts(c, h, d)
        /\ h.event = "InstanceTrade" /\ vol \in Int
        /\ vol = h.volume /\ price = h.price
        /\ m_opened_position' = PositionAfter(m_opened_position, vol, price)
        /\ Whole(d) /\ Held(m_opened_position') + LotsIn(d) = Position
        /\ Core(queue'.normal) = d \o TradeNews(m_opened_position', vol, price)
  BY TradeTold
<1>2. UNCHANGED <<gateway, strategy, exitOrder, m_tpsl, m_trailing_stop, m_last_tpsl_guid,
                  m_is_pos_opened, m_active_exit, m_exit_sub, no_loss_price>>
  BY DEF HandleTrade, omExitVars, exitVars
<1>3. IsPosition(m_opened_position)
  BY DEF Books, Shapes
<1> HIDE DEF h
<1>s. PICK pos, s : pos = m_opened_position' /\ s = d \o TradeNews(pos, vol, price)
  OBVIOUS
<1>4. ASSUME Position # 0, NoExits, m_opened_position = None,
             h = Lot(Position, LastPrice), d = <<>>
      PROVE  Phase(s)'
  <2>1. vol = Position /\ price = LastPrice
    BY <1>1, <1>4 DEF Lot
  <2>2. pos = [volume |-> vol, entry |-> price]
    BY <1>1, <1>s, <1>4, <2>1, Zenon DEF PositionAfter
  <2>3. pos # None /\ pos.entry = price
    BY <2>2 DEF None
  <2>4. s = TradeNews(pos, vol, price)
    <3> DEFINE e == <<>>
               m == TradeNews(pos, vol, price)
    <3>1. IsList(m)
      BY Written DEF TradeNews
    <3>2. e \o m = m
      <4> HIDE DEF m
      <4> QED BY <3>1, LiteralLists
    <3> QED BY <1>4, <1>s, <3>2
  <2>5. /\ Position' # 0 /\ NoExits' /\ Position' = vol /\ LastPrice' = price
        /\ strategy' = strategy
    BY <1>2, <1>4, <2>1 DEF Position, LastPrice, NoExits, NoneRests
  <2>6. ASSUME HasTpsl(strategy) PROVE Phase(s)'
    <3>1. s = <<NewsToExit(TRUE), TradeToExit(vol, price)>>
      BY <2>3, <2>4, <2>6 DEF TradeNews
    <3>2. HasTpsl(strategy)'
      BY <2>5, <2>6
    <3>3. Entering(s)'
      BY <2>5, <3>1, <3>2 DEF Entering, NewsToExit, TradeToExit
    <3> QED BY <3>3 DEF Phase
  <2>7. ASSUME ~HasTpsl(strategy) PROVE Phase(s)'
    <3>1. s = <<LevelsAt(price), NewsToExit(TRUE), TradeToExit(vol, price)>>
      BY <2>3, <2>4, <2>7 DEF TradeNews
    <3>2. ~HasTpsl(strategy)'
      BY <2>5, <2>7
    <3>3. Entering(s)'
      BY <2>5, <3>1, <3>2 DEF Entering, NewsToExit, TradeToExit, LevelsAt
    <3> QED BY <3>3 DEF Phase
  <2> QED BY <2>6, <2>7
<1>5. ASSUME NEW e, e.event # "InstanceTrade", Position = 0,
             \E v, p : v \in Amounts /\ h = Lot(v, p), d = <<e>>
      PROVE  /\ m_opened_position' = None
             /\ s = <<e, NewsToExit(FALSE), TradeToExit(vol, price)>>
  <2>1. vol \in Amounts
    BY <1>1, <1>5 DEF Lot
  <2>2. LotsIn(d) = 0
    <3> DEFINE K == {e.event}
    <3>1. IsList(<<e>>) /\ Kinds(<<e>>, K)
      <4>1. e.event \in K
        OBVIOUS
      <4> HIDE DEF K
      <4> QED BY <4>1, KindsOfOne
    <3>2. "InstanceTrade" \notin K
      BY <1>5
    <3> HIDE DEF K
    <3> QED BY <1>5, <3>1, <3>2, LotsOfOthers
  <2>3. Held(pos) = 0
    <3>1. IsPosition(pos)
      BY <1>1, <1>s, <1>3, PositionTraded
    <3>2. Held(pos) \in Int
      BY <3>1 DEF IsPosition, Held
    <3> QED BY <1>1, <1>s, <1>5, <2>2, <3>2
  <2>4. pos = None
    BY <1>1, <1>s, <1>3, <2>1, <2>3, PositionEnds
  <2>5. TradeNews(pos, vol, price) = <<NewsToExit(FALSE), TradeToExit(vol, price)>>
    BY <2>4 DEF TradeNews
  <2>6. <<e>> \o <<NewsToExit(FALSE), TradeToExit(vol, price)>>
          = <<e, NewsToExit(FALSE), TradeToExit(vol, price)>>
    BY Written
  <2> QED BY <1>5, <1>s, <2>4, <2>5, <2>6
<1>6. ASSUME Taken(c), m_exit_sub # None, IsTpsl(exitOrder[m_exit_sub]),
             m_tpsl = None, tpsl_status(exitOrder[m_exit_sub]) = "Filled",
             \E v, p : v \in Amounts /\ h = Lot(v, p), d = <<Update(m_exit_sub)>>
      PROVE  Phase(s)'
  <2>1. Update(m_exit_sub).event # "InstanceTrade" /\ Position = 0
    BY <1>6 DEF Update, Taken
  <2>2. /\ m_opened_position' = None
        /\ s = <<Update(m_exit_sub), NewsToExit(FALSE), TradeToExit(vol, price)>>
    BY <1>5, <1>6, <2>1
  <2>3. vol \in Amounts
    BY <1>1, <1>6 DEF Lot
  <2>4. TakenOut(s)'
    BY <1>2, <1>6, <2>2, <2>3 DEF TakenOut, IsTpsl, tpsl_status, Update, NewsToExit,
                                  TradeToExit
  <2>5. Taken(s)'
    BY <1>2, <1>6, <2>4 DEF Taken, NoneRests, Position
  <2> QED BY <2>5 DEF Phase
<1>7. ASSUME OutOfMarket, m_trailing_stop # None, m_exit_sub = m_trailing_stop,
             \E v, p : v \in Amounts /\ h = Lot(v, p), d = <<TrailingUpdatedEvent({})>>
      PROVE  Phase(s)'
  <2> DEFINE e == TrailingUpdatedEvent({})
  <2>1. e.event # "InstanceTrade" /\ Position = 0
    BY <1>7 DEF TrailingUpdatedEvent, OutOfMarket
  <2>2. /\ m_opened_position' = None
        /\ s = <<e, NewsToExit(FALSE), TradeToExit(vol, price)>>
    <3> HIDE DEF e
    <3> QED BY <1>5, <1>7, <2>1 DEF e
  <2>3. vol \in Amounts
    BY <1>1, <1>7 DEF Lot
  <2>4. StoppedOut(s)'
    BY <1>2, <1>7, <2>2, <2>3 DEF StoppedOut, TrailingUpdatedEvent, NewsToExit, TradeToExit
  <2>5. StoppedPhase(s)'
    BY <1>2, <1>7, <2>4 DEF StoppedPhase, OutOfMarket, NoneRests, Position
  <2> QED BY <2>5 DEF Phase
<1>8. Phase(s)'
  <2>1. h.event = "InstanceTrade" /\ Parts(c, h, d)
    BY <1>1
  <2>2. LotFound(c, h, d)
    BY <2>1, NextLot
  <2> QED BY <1>4, <1>6, <1>7, <2>2 DEF LotFound
<1> QED BY <1>1, <1>s, <1>8

-----------------------------------------------------------------------------
(* The order manager hears of an exit order. *)
LEMMA CoreNotified ==
  ASSUME Books, NEW k, k \in NormalKinds, Runs(k), NEW o,
         queue' = WithNormal(Popped, <<Update(o)>>)
  PROVE  Core(queue'.normal) = Core(Popped.normal) \o <<Update(o)>>
<1> DEFINE q == Popped
           e == Update(o)
           l == <<e>>
           K == {"ExitUpdated"}
<1>1. IsQueue(q)
  BY TakesHead
<1>2. e.event \in K /\ ~Noise(e) /\ K \subseteq NormalKinds \ {"InstanceTrade"}
  BY DEF Update, Noise, NoisyKinds, NormalKinds, GatewayKinds
<1>3. queue' = WithNormal(q, l)
  OBVIOUS
<1> HIDE DEF q, e, K
<1>4. IsList(l) /\ Kinds(l, K) /\ Core(l) = l
  BY <1>2, KindsOfOne, CoreOfFew
<1> HIDE DEF l
<1>5. queue'.normal = q.normal \o l
  BY <1>1, <1>2, <1>3, <1>4, PushOthers DEF Follows
<1>6. IsList(q.normal)
  BY <1>1 DEF IsQueue, Whole
<1>7. Core(q.normal \o l) = Core(q.normal) \o Core(l)
  BY <1>4, <1>6, CoreConcat
<1> QED BY <1>4, <1>5, <1>7 DEF q, l, e

LEMMA LivesTpsl ==
  ASSUME Books, Stops, on_tpsl_reposnse, UNCHANGED instanceVars,
         NEW c, c = Core(queue.normal), Phase(c)
  PROVE  /\ \E s : s = Core(queue'.normal) /\ Phase(s)'
         /\ exitErrors' = exitErrors
<1> DEFINE k == "TpslUpdated"
<1>1. k \in NormalKinds /\ Runs(k)
  BY DEF on_tpsl_reposnse, NormalKinds, GatewayKinds
<1>2. PICK d : /\ d = Core(Popped.normal) /\ IsList(d) /\ Next_Event.event = k
               /\ ~Noise(Next_Event) => Parts(c, Next_Event, d)
  <2> HIDE DEF k
  <2> QED BY <1>1, TakesCore
<1>3. PICK h, g, o : h = Next_Event /\ g = m_tpsl /\ o = exitOrder[m_tpsl]
  OBVIOUS
<1>4. UNCHANGED <<gateway, strategy, m_trailing_stop, m_is_pos_opened, m_active_exit,
                  m_exit_sub, no_loss_price, m_opened_position>>
  BY DEF on_tpsl_reposnse, exitVars, instanceVars
<1>5. ASSUME g # None, m_exit_sub = g, IsTpsl(o)
      PROVE  /\ exitErrors' = exitErrors
             /\ exitOrder'[g] = [kind |-> o.kind, acked |-> TRUE, rejected |-> h.reject,
                                 suspended |-> h.set_up, triggered |-> h.triggered]
             /\ m_last_tpsl_guid' = LastTpslGuid(h)
             /\ m_tpsl' = IF TpslDone(h) THEN None ELSE g
             /\ Core(queue'.normal) = d \o <<Update(g)>>
  <2>1. /\ exitErrors' = exitErrors
        /\ exitOrder' = [exitOrder EXCEPT ![g] =
              [@ EXCEPT !.acked = TRUE, !.rejected = h.reject,
                        !.suspended = h.set_up, !.triggered = h.triggered]]
        /\ queue' = Notified(Popped, g, g)
        /\ m_last_tpsl_guid' = LastTpslGuid(h)
        /\ m_tpsl' = IF TpslDone(h) THEN None ELSE g
    BY <1>3, <1>5 DEF on_tpsl_reposnse
  <2>2. exitOrder = [x \in ExitOrders |-> exitOrder[x]] /\ g \in ExitOrders
    BY <1>3, <1>5 DEF Stops
  <2>3. exitOrder'[g] = [o EXCEPT !.acked = TRUE, !.rejected = h.reject,
                          !.suspended = h.set_up, !.triggered = h.triggered]
    BY <1>3, <2>1, <2>2
  <2>4. o = [kind |-> o.kind, acked |-> o.acked, rejected |-> o.rejected,
             suspended |-> o.suspended, triggered |-> o.triggered]
    BY <1>5 DEF IsTpsl
  <2>5. exitOrder'[g] = [kind |-> o.kind, acked |-> TRUE, rejected |-> h.reject,
                          suspended |-> h.set_up, triggered |-> h.triggered]
    BY <2>3, <2>4
  <2>6. queue' = WithNormal(Popped, <<Update(g)>>)
    BY <1>5, <2>1 DEF Notified, Update
  <2>7. Core(queue'.normal) = d \o <<Update(g)>>
    <3> HIDE DEF k
    <3> QED BY <1>1, <1>2, <2>6, CoreNotified
  <2> QED BY <2>1, <2>5, <2>7
<1>6. ASSUME Covered(c), h = TpslUpdatedEvent(m_tpsl, TRUE, FALSE, FALSE), d = <<>>,
             NEW s, s = <<Update(g)>>
      PROVE  Phase(s)' /\ exitErrors' = exitErrors /\ Core(queue'.normal) = s
  <2>1. g # None /\ m_exit_sub = g /\ IsTpsl(o)
    BY <1>3, <1>6 DEF Covered
  <2>2. h.reject = FALSE /\ h.set_up = TRUE /\ h.triggered = FALSE /\ ~TpslDone(h)
    BY <1>6 DEF TpslUpdatedEvent, TpslDone
  <2>3. /\ exitErrors' = exitErrors /\ m_tpsl' = g
        /\ exitOrder'[g] = [kind |-> o.kind, acked |-> TRUE, rejected |-> FALSE,
                            suspended |-> TRUE, triggered |-> FALSE]
        /\ Core(queue'.normal) = d \o <<Update(g)>>
    BY <1>5, <2>1, <2>2
  <2>4. IsTpsl(exitOrder'[g]) /\ tpsl_status(exitOrder'[g]) = "Suspended"
    BY <2>3 DEF IsTpsl, tpsl_status
  <2>5. Covered(s)'
    BY <1>3, <1>4, <1>6, <2>1, <2>3, <2>4 DEF Covered, Position, Update, IsTpsl, tpsl_status
  <2>6. d \o <<Update(g)>> = s
    BY <1>6, LiteralLists
  <2> QED BY <2>3, <2>5, <2>6 DEF Phase
<1>7. ASSUME NEW v, NEW p, Taken(c), m_exit_sub # None, IsTpsl(exitOrder[m_exit_sub]),
             m_tpsl = m_exit_sub, h = TpslUpdatedEvent(m_exit_sub, FALSE, TRUE, FALSE),
             v \in Amounts, d = <<TradeEvent(m_exit_sub, v, p), Lot(v, p)>>,
             NEW s, s = <<TradeEvent(g, v, p), Lot(v, p), Update(g)>>
      PROVE  Phase(s)' /\ exitErrors' = exitErrors /\ Core(queue'.normal) = s
  <2>1. g # None /\ m_exit_sub = g /\ IsTpsl(o)
    BY <1>3, <1>7
  <2>2. h.reject = FALSE /\ h.set_up = FALSE /\ h.triggered = TRUE /\ TpslDone(h)
    BY <1>7 DEF TpslUpdatedEvent, TpslDone
  <2>3. /\ exitErrors' = exitErrors /\ m_tpsl' = None /\ m_last_tpsl_guid' = g
        /\ exitOrder'[g] = [kind |-> o.kind, acked |-> TRUE, rejected |-> FALSE,
                            suspended |-> FALSE, triggered |-> TRUE]
        /\ Core(queue'.normal) = d \o <<Update(g)>>
    BY <1>3, <1>5, <2>1, <2>2 DEF LastTpslGuid
  <2>4. IsTpsl(exitOrder'[g]) /\ tpsl_status(exitOrder'[g]) = "Filled"
    BY <2>3 DEF IsTpsl, tpsl_status
  <2>5. TakenOut(s)'
    BY <1>4, <1>7, <2>1, <2>3, <2>4 DEF TakenOut, Update, TradeEvent, Lot, IsTpsl, tpsl_status
  <2>6. Taken(s)'
    BY <1>4, <1>7, <2>3, <2>5 DEF Taken, NoneRests, Position
  <2>7. d \o <<Update(g)>> = s
    BY <1>7, <2>1, Written
  <2> QED BY <2>3, <2>6, <2>7 DEF Phase
<1>8. /\ \E s : s = Core(queue'.normal) /\ Phase(s)'
      /\ exitErrors' = exitErrors
  <2>1. h.event = "TpslUpdated" /\ Parts(c, h, d)
    BY <1>2, <1>3 DEF Noise, NoisyKinds
  <2>2. TpslFound(c, h, d)
    BY <2>1, NextTpsl
  <2> QED BY <1>6, <1>7, <2>2 DEF TpslFound
<1> QED BY <1>8

LEMMA MovesMore ==
  ASSUME NEW d, IsList(d), MovesOnly(d), NEW e,
         \/ IsMove(e)
         \/ e = Update(m_trailing_stop) /\ exitOrder[m_trailing_stop].active # {}
  PROVE  MovesOnly(d \o <<e>>) /\ d \o <<e>> # <<>>
<1> DEFINE x == <<e>>
           s == d \o x
<1>1. IsList(x) /\ Len(x) = 1 /\ x[1] = e
  BY LiteralLists
<1> HIDE DEF x
<1>2. /\ Len(s) = Len(d) + Len(x)
      /\ \A i \in 1 .. Len(d) : s[i] = d[i]
      /\ \A i \in 1 .. Len(x) : s[Len(d) + i] = x[i]
  <2>1. IsList(x)
    BY <1>1
  <2> QED BY <2>1, ListConcat
<1>3. Len(d) \in Nat
  BY ListIndices
<1>4. Len(s) = Len(d) + 1 /\ s[Len(d) + 1] = e
  BY <1>1, <1>2
<1> HIDE DEF s
<1>5. ASSUME NEW i \in 1 .. Len(s)
      PROVE  \/ IsMove(s[i])
             \/ s[i] = Update(m_trailing_stop) /\ exitOrder[m_trailing_stop].active # {}
  <2>1. CASE i = Len(d) + 1
    BY <1>4, <2>1
  <2>2. CASE i # Len(d) + 1
    <3>1. i \in 1 .. Len(d)
      BY <1>3, <1>4, <2>2
    <3> QED BY <1>2, <3>1 DEF MovesOnly
  <2> QED BY <2>1, <2>2
<1>6. s # <<>>
  <2>1. Len(<<>>) = 0
    BY LiteralLists
  <2> QED BY <1>3, <1>4, <2>1
<1>7. MovesOnly(s)
  BY <1>5 DEF MovesOnly
<1> QED BY <1>6, <1>7 DEF s, x

MovesAdd ==
  \A d, e :
    /\ IsList(d) /\ MovesOnly(d)
    /\ \/ IsMove(e)
       \/ e = Update(m_trailing_stop) /\ exitOrder[m_trailing_stop].active # {}
    => MovesOnly(d \o <<e>>) /\ d \o <<e>> # <<>>

LEMMA MovesAddAlways == MovesAdd
BY MovesMore DEF MovesAdd

LEMMA MovesAddNext == MovesAdd'
BY MovesAddAlways, PTL

LEMMA LivesMove ==
  ASSUME Books, Stops, on_trailing_stop_response, UNCHANGED instanceVars,
         NEW c, c = Core(queue.normal), Phase(c)
  PROVE  /\ \E s : s = Core(queue'.normal) /\ Phase(s)'
         /\ exitErrors' = exitErrors
<1> DEFINE k == "TrailingUpdated"
<1>1. k \in NormalKinds /\ Runs(k)
  BY DEF on_trailing_stop_response, NormalKinds, GatewayKinds
<1>2. PICK d : /\ d = Core(Popped.normal) /\ IsList(d) /\ Next_Event.event = k
               /\ ~Noise(Next_Event) => Parts(c, Next_Event, d)
  <2> HIDE DEF k
  <2> QED BY <1>1, TakesCore
<1>3. PICK h, g, stop : h = Next_Event /\ g = m_trailing_stop /\ stop = h.stop_loss
  OBVIOUS
<1>4. UNCHANGED <<gateway, strategy, m_tpsl, m_is_pos_opened, m_active_exit, m_triggered_once,
                  m_exit_sub, no_loss_price, m_opened_position>>
  BY DEF on_trailing_stop_response, exitVars, instanceVars
<1>5. ASSUME g # None, m_exit_sub = g, NEW o, o = IF stop = {} THEN None ELSE g
      PROVE  /\ exitErrors' = exitErrors
             /\ exitOrder' = IF stop = {} THEN exitOrder ELSE WithActiveStop(g, stop)
             /\ m_trailing_stop' = o
             /\ Core(queue'.normal) = d \o <<Update(o)>>
  <2>1. /\ exitErrors' = exitErrors
        /\ exitOrder' = IF stop = {} THEN exitOrder ELSE WithActiveStop(g, stop)
        /\ queue' = Notified(Popped, g, o)
        /\ m_trailing_stop' = o
    BY <1>3, <1>5 DEF on_trailing_stop_response
  <2>2. queue' = WithNormal(Popped, <<Update(o)>>)
    BY <1>5, <2>1 DEF Notified, Update
  <2>3. Core(queue'.normal) = d \o <<Update(o)>>
    <3> HIDE DEF k
    <3> QED BY <1>1, <1>2, <2>2, CoreNotified
  <2> QED BY <2>1, <2>3
<1>6. ASSUME Trails(c), IsMove(h), MovesOnly(d), NEW s, s = d \o <<Update(g)>>
      PROVE  Phase(s)' /\ exitErrors' = exitErrors /\ Core(queue'.normal) = s
  <2>1. Ratchets /\ FirstStop /\ Near
    BY <1>6 DEF Trails
  <2>2. g # None /\ m_exit_sub = g
    BY <1>3, <2>1 DEF Ratchets
  <2>3. stop # {}
    BY <1>3, <1>6 DEF IsMove, TrailingUpdatedEvent
  <2>4. /\ exitErrors' = exitErrors /\ m_trailing_stop' = g
        /\ exitOrder' = [exitOrder EXCEPT ![g].active = stop]
        /\ Core(queue'.normal) = s
    BY <1>5, <1>6, <2>2, <2>3 DEF WithActiveStop
  <2>5. /\ exitOrder = [x \in ExitOrders |-> exitOrder[x]] /\ g \in ExitOrders
        /\ IsStop(exitOrder[g])
    BY <1>3, <2>2 DEF Stops
  <2>6. exitOrder'[g].active = stop /\ exitOrder'[g].side = exitOrder[g].side
    <3>1. exitOrder'[g] = [exitOrder[g] EXCEPT !.active = stop]
      BY <2>4, <2>5
    <3> DEFINE o == exitOrder[g]
    <3>2. o = [kind |-> o.kind, side |-> o.side, distance |-> o.distance, active |-> o.active]
      BY <2>5 DEF IsStop
    <3> HIDE DEF o
    <3>3. exitOrder'[g] = [kind |-> o.kind, side |-> o.side, distance |-> o.distance,
                            active |-> stop]
      BY <3>1, <3>2 DEF o
    <3> QED BY <3>3 DEF o
  <2>7. Ratchets'
    BY <1>3, <1>4, <2>1, <2>3, <2>4, <2>6 DEF Ratchets, Position
  <2>8. (FirstStop /\ Near)'
    BY <1>3, <1>4, <2>1, <2>4, <2>6 DEF FirstStop, Near, NoLoss, LongSide
  <2>9. MovesOnly(d)'
    <3> SUFFICES ASSUME NEW i \in 1 .. Len(d)
                 PROVE  IsMove(d[i]) \/ d[i] = Update(g)
      BY <2>3, <2>4, <2>6 DEF MovesOnly, IsMove, Update
    <3> QED BY <1>3, <1>6 DEF MovesOnly
  <2>10. MovesOnly(s)' /\ s # <<>>
    BY <1>2, <1>6, <2>3, <2>4, <2>6, <2>9, MovesAddNext DEF MovesAdd, Update
  <2>11. Trails(s)'
    BY <2>7, <2>8, <2>10 DEF Trails
  <2> QED BY <2>4, <2>11 DEF Phase
<1>7. ASSUME NEW v, NEW p, OutOfMarket, m_trailing_stop # None, m_exit_sub = m_trailing_stop,
             m_opened_position = None, h = TrailingUpdatedEvent({}),
             d = <<NewsToExit(FALSE), TradeToExit(v, p)>>,
             NEW s, s = <<NewsToExit(FALSE), TradeToExit(v, p), Update(None)>>
      PROVE  Phase(s)' /\ exitErrors' = exitErrors /\ Core(queue'.normal) = s
  <2>1. g # None /\ m_exit_sub = g /\ stop = {}
    BY <1>3, <1>7 DEF TrailingUpdatedEvent
  <2>2. /\ exitErrors' = exitErrors /\ m_trailing_stop' = None
        /\ Core(queue'.normal) = d \o <<Update(None)>>
    BY <1>5, <2>1
  <2>3. d \o <<Update(None)>> = s
    BY <1>7, Written
  <2>4. StoppedTold(s)'
    BY <1>4, <1>7, <2>2 DEF StoppedTold, NewsToExit, TradeToExit, Update
  <2>5. OutOfMarket'
    BY <1>4, <1>7, <2>2 DEF OutOfMarket, NoneRests, Position
  <2> QED BY <2>2, <2>3, <2>4, <2>5 DEF Phase, StoppedPhase
<1>8. /\ \E s : s = Core(queue'.normal) /\ Phase(s)'
      /\ exitErrors' = exitErrors
  <2>1. h.event = "TrailingUpdated" /\ Parts(c, h, d)
    BY <1>2, <1>3 DEF Noise, NoisyKinds
  <2>2. MoveFound(c, h, d)
    BY <2>1, NextMove
  <2> QED BY <1>6, <1>7, <2>2 DEF MoveFound
<1> QED BY <1>8

-----------------------------------------------------------------------------
(* The exit strategy hears of its exit order. *)
LEMMA NothingDiscarded ==
  ASSUME NEW q, IsQueue(q), NoneOf(Core(q.normal), "ExitUpdated")
  PROVE  IsQueue(Discarded(q)) /\ Discarded(q).normal = q.normal
<1> DEFINE n == q.normal
           D == {e \in ToSet(n) : e.event = "ExitUpdated"}
<1>1. IsQueue(Discarded(q)) /\ Discarded(q).normal = Without(n, D)
  BY DropNormal DEF Follows
<1>2. IsList(n)
  BY DEF IsQueue, Whole
<1>3. Without(n, D) = n
  <2> HIDE DEF n
  <2>1. NoneOf(Core(n), "ExitUpdated")
    BY DEF n
  <2> QED BY <1>2, <2>1, CoreDiscards
<1> QED BY <1>1, <1>3

LEMMA NothingPushed ==
  ASSUME NEW q, IsQueue(q)
  PROVE  WithNormal(q, <<>>).normal = q.normal
<1> DEFINE l == <<>>
<1>1. Whole(l) /\ Kinds(l, NormalKinds)
  BY LotsOfNothing, KindsOfNothing
<1>2. IsList(q.normal)
  BY DEF IsQueue, Whole
<1>3. q.normal \o l = q.normal
  BY <1>2, LiteralLists
<1> HIDE DEF l
<1>4. WithNormal(q, l).normal = q.normal \o l
  BY <1>1, PushNormal DEF Follows
<1> QED BY <1>3, <1>4 DEF l

LEMMA NewsIsNoUpdate ==
  ASSUME NEW b, NEW v, NEW p
  PROVE  /\ NoneOf(<<NewsToExit(b), TradeToExit(v, p)>>, "ExitUpdated")
         /\ NoneOf(<<>>, "ExitUpdated")
<1>1. NoneOf(<<>>, "ExitUpdated")
  BY NoneOfNothing
<1> DEFINE e == NewsToExit(b)
           f == TradeToExit(v, p)
           K == {"OpenedPosToExit", "TradeToExit"}
<1>2. e.event \in K /\ f.event \in K /\ "ExitUpdated" \notin K
  BY DEF NewsToExit, TradeToExit
<1> HIDE DEF e, f, K
<1>3. Kinds(<<e, f>>, K)
  BY <1>2 DEF Kinds
<1>4. NoneOf(<<e, f>>, "ExitUpdated")
  BY <1>2, <1>3, NoneOfSome
<1> QED BY <1>1, <1>4 DEF e, f

LEMMA LivesTpslUpdate ==
  ASSUME Books, tpsl_on_updated, UNCHANGED instanceVars,
         NEW c, c = Core(queue.normal), Phase(c)
  PROVE  \E d : d = Core(queue'.normal) /\ Phase(d)'
<1> DEFINE k == "ExitUpdated"
<1>1. k \in NormalKinds /\ Runs(k) /\ HasTpsl(strategy)
  BY DEF tpsl_on_updated, NormalKinds
<1>2. PICK d : /\ d = Core(Popped.normal) /\ IsList(d) /\ Next_Event.event = k
               /\ ~Noise(Next_Event) => Parts(c, Next_Event, d)
  <2> HIDE DEF k
  <2> QED BY <1>1, TakesCore
<1>3. PICK h, o : h = Next_Event /\ o = exitOrder[h.guid]
  OBVIOUS
<1>4. UNCHANGED <<gateway, strategy, exitOrder, m_tpsl, m_trailing_stop, m_last_tpsl_guid,
                  m_is_pos_opened, m_triggered_once, no_loss_price, m_opened_position>>
  BY DEF tpsl_on_updated, omExitVars, instanceVars
<1>5. IsQueue(Popped)
  <2> HIDE DEF k
  <2> QED BY <1>1, TakesHead
<1>6. tpsl_status(o) # "Rejected" =>
        queue' = WithNormal(IF TpslOver(o) THEN Discarded(Popped) ELSE Popped, <<>>)
  BY <1>3 DEF tpsl_on_updated
<1>7. /\ m_active_exit' = IF TpslOver(o) THEN None ELSE h.guid
      /\ m_exit_sub' = IF TpslOver(o) THEN None ELSE m_exit_sub
  BY <1>3 DEF tpsl_on_updated
<1>8. ASSUME Covered(c), tpsl_status(exitOrder[m_tpsl]) = "Suspended",
             h = Update(m_tpsl), d = <<>>
      PROVE  Phase(d)' /\ Core(queue'.normal) = d
  <2>1. h.guid = m_tpsl /\ o = exitOrder[m_tpsl]
    BY <1>3, <1>8 DEF Update
  <2>2. ~TpslOver(o) /\ tpsl_status(o) # "Rejected"
    BY <1>8, <2>1 DEF TpslOver
  <2>3. queue'.normal = Popped.normal /\ m_active_exit' = m_tpsl /\ m_exit_sub' = m_exit_sub
    BY <1>5, <1>6, <1>7, <2>1, <2>2, NothingPushed
  <2>4. Covered(d)'
    BY <1>4, <1>8, <2>3 DEF Covered, Position, IsTpsl, tpsl_status
  <2> QED BY <1>2, <2>3, <2>4 DEF Phase
<1>9. ASSUME NEW v, NEW p, Taken(c), m_exit_sub # None, m_tpsl = None,
             m_opened_position = None, tpsl_status(exitOrder[m_exit_sub]) = "Filled",
             h = Update(m_exit_sub), d = <<NewsToExit(FALSE), TradeToExit(v, p)>>
      PROVE  Phase(d)' /\ Core(queue'.normal) = d
  <2>1. h.guid = m_exit_sub /\ o = exitOrder[m_exit_sub]
    BY <1>3, <1>9 DEF Update
  <2>2. TpslOver(o) /\ tpsl_status(o) # "Rejected"
    BY <1>9, <2>1 DEF TpslOver
  <2>3. NoneOf(Core(Popped.normal), "ExitUpdated")
    BY <1>2, <1>9, NewsIsNoUpdate
  <2>4. queue'.normal = Popped.normal /\ m_active_exit' = None /\ m_exit_sub' = None
    BY <1>5, <1>6, <1>7, <2>2, <2>3, NothingPushed, NothingDiscarded
  <2>5. TakenTold(d)'
    BY <1>4, <1>9, <2>4 DEF TakenTold, NewsToExit, TradeToExit
  <2>6. Taken(d)'
    BY <1>4, <1>9, <2>5 DEF Taken, NoneRests, Position
  <2> QED BY <1>2, <2>4, <2>6 DEF Phase
<1>10. Phase(d)' /\ Core(queue'.normal) = d
  <2>1. h.event = "ExitUpdated" /\ Parts(c, h, d)
    BY <1>2, <1>3 DEF Noise, NoisyKinds
  <2>2. UpdateFound(c, h, d)
    BY <2>1, NextUpdate
  <2>3. (Trails(c) => ~HasTpsl(strategy)) /\ (OutOfMarket => ~HasTpsl(strategy))
    BY DEF Trails, Ratchets, OutOfMarket
  <2> QED BY <1>1, <1>8, <1>9, <2>2, <2>3 DEF UpdateFound
<1> QED BY <1>10

LEMMA LivesTrailingUpdate ==
  ASSUME Books, on_trailing_stop_updated, UNCHANGED instanceVars,
         NEW c, c = Core(queue.normal), Phase(c)
  PROVE  \E d : d = Core(queue'.normal) /\ Phase(d)'
<1> DEFINE k == "ExitUpdated"
<1>1. k \in NormalKinds /\ Runs(k) /\ ~HasTpsl(strategy)
  BY DEF on_trailing_stop_updated, NormalKinds
<1>2. PICK d : /\ d = Core(Popped.normal) /\ IsList(d) /\ Next_Event.event = k
               /\ ~Noise(Next_Event) => Parts(c, Next_Event, d)
  <2> HIDE DEF k
  <2> QED BY <1>1, TakesCore
<1>3. PICK h, g : h = Next_Event /\ g = h.guid
  OBVIOUS
<1>4. UNCHANGED <<gateway, strategy, exitOrder, m_tpsl, m_trailing_stop, m_last_tpsl_guid,
                  m_is_pos_opened, m_triggered_once, no_loss_price, m_opened_position>>
  BY DEF on_trailing_stop_updated, omExitVars, instanceVars
<1>5. IsQueue(Popped)
  <2> HIDE DEF k
  <2> QED BY <1>1, TakesHead
<1>6. /\ g # None /\ exitOrder[g].active # {} =>
           queue' = Popped /\ m_active_exit' = g /\ m_exit_sub' = m_exit_sub
      /\ g = None => queue' = Discarded(Popped) /\ m_active_exit' = None /\ m_exit_sub' = None
  BY <1>3 DEF on_trailing_stop_updated
<1>7. ASSUME Trails(c), h = Update(m_trailing_stop), MovesOnly(d),
             exitOrder[m_trailing_stop].active # {}
      PROVE  Phase(d)' /\ Core(queue'.normal) = d
  <2>1. Ratchets /\ FirstStop /\ Near
    BY <1>7 DEF Trails
  <2>2. g = m_trailing_stop /\ g # None /\ m_exit_sub = g
    BY <1>3, <1>7, <2>1 DEF Update, Ratchets
  <2>3. queue' = Popped /\ m_active_exit' = g /\ m_exit_sub' = g
    BY <1>6, <1>7, <2>2
  <2>4. Ratchets'
    BY <1>4, <1>7, <2>1, <2>2, <2>3 DEF Ratchets, Position
  <2>5. (FirstStop /\ Near)'
    BY <1>4, <2>1 DEF FirstStop, Near, NoLoss, LongSide
  <2>6. MovesOnly(d)'
    BY <1>4, <1>7 DEF MovesOnly
  <2>7. Trails(d)'
    BY <1>4, <2>2, <2>3, <2>4, <2>5, <2>6 DEF Trails
  <2> QED BY <1>2, <2>3, <2>7 DEF Phase
<1>8. ASSUME OutOfMarket, StoppedTold(c), h = Update(None), d = <<>>
      PROVE  Phase(d)' /\ Core(queue'.normal) = d
  <2>1. g = None
    BY <1>3, <1>8 DEF Update
  <2>2. NoneOf(Core(Popped.normal), "ExitUpdated")
    BY <1>2, <1>8, NewsIsNoUpdate
  <2>3. queue'.normal = Popped.normal /\ m_active_exit' = None /\ m_exit_sub' = None
    BY <1>5, <1>6, <2>1, <2>2, NothingDiscarded
  <2>4. m_trailing_stop = None /\ m_opened_position = None
    BY <1>8 DEF StoppedTold
  <2>5. Free(d)'
    BY <1>4, <1>8, <2>3, <2>4 DEF Free, OutOfMarket, NoExits, NoneRests, Position
  <2> QED BY <1>2, <2>3, <2>5 DEF Phase
<1>9. Phase(d)' /\ Core(queue'.normal) = d
  <2>1. h.event = "ExitUpdated" /\ Parts(c, h, d)
    BY <1>2, <1>3 DEF Noise, NoisyKinds
  <2>2. UpdateFound(c, h, d)
    BY <2>1, NextUpdate
  <2>3. (Covered(c) => HasTpsl(strategy)) /\ (Taken(c) => HasTpsl(strategy))
    BY DEF Covered, Taken
  <2> QED BY <1>1, <1>7, <1>8, <2>2, <2>3 DEF UpdateFound
<1> QED BY <1>9

-----------------------------------------------------------------------------
(* An exit is sent: what the state is then, exactly. *)
TpslOut(g, tp, sl) ==
  /\ g \in ExitOrders /\ g \notin issued /\ g # None /\ m_tpsl' = g /\ m_exit_sub' = g
  /\ UNCHANGED <<m_trailing_stop, exitErrors>>
  /\ IsTpsl(exitOrder'[g])
  /\ gateway' = Gateway(Position, LastPrice,
                        [guid |-> g, take_profit |-> tp, stop_loss |-> sl],
                        gateway.m_trailing_stop, <<>>)
  /\ queue'.normal = Discarded(Popped).normal \o <<TpslUpdatedEvent(g, TRUE, FALSE, FALSE)>>

LEMMA TpslGoesOut ==
  ASSUME Shapes, Stops, NEW tp, NEW sl, send_tpsl(tp, sl), IsQueue(Discarded(Popped)),
         Position # 0
  PROVE  \E g : TpslOut(g, tp, sl)
<1> DEFINE d == Discarded(Popped)
           g == NextGuid(ExitOrders, issued)
           r == [guid |-> g, take_profit |-> tp, stop_loss |-> sl]
           fields == [kind |-> "tpsl", acked |-> FALSE, rejected |-> FALSE,
                      suspended |-> FALSE, triggered |-> FALSE]
           pos == gateway.m_pos_volume
           price == gateway.m_last_price
           t == gateway.m_trailing_stop
           e == TpslUpdatedEvent(g, TRUE, FALSE, FALSE)
<1>1. /\ issued # ExitOrders /\ m_tpsl' = g /\ Calls(d, push_tpsl_request(gateway, r))
      /\ UNCHANGED <<m_trailing_stop, exitErrors>>
      /\ exitOrder' = [exitOrder EXCEPT ![g] = fields] /\ m_exit_sub' = g
  BY DEF send_tpsl, NewExitOrder
<1>2. g \in ExitOrders /\ g \notin issued /\ g # None
  BY <1>1, NewGuid, NoneIsNoGuid DEF Stops
<1>3. t # None => IsTrailingStop(t)
  BY DEF Shapes, IsGateway
<1>4. e.event = "TpslUpdated"
  BY DEF TpslUpdatedEvent
<1>5. IsGateway(gateway) /\ gateway.events = <<>> /\ IsQueue(d)
  BY DEF Shapes
<1>6. IsTpsl(exitOrder'[g])
  <2>1. exitOrder = [x \in ExitOrders |-> exitOrder[x]]
    BY DEF Stops
  <2> HIDE DEF g, fields
  <2>2. exitOrder'[g] = fields
    BY <1>1, <1>2, <2>1
  <2>3. IsTpsl(fields)
    BY DEF IsTpsl, fields
  <2> QED BY <2>2, <2>3
<1>7. push_tpsl_request(gateway, r) = Gateway(pos, price, r, t, <<e>>)
  <2>1. r.guid = g
    OBVIOUS
  <2> HIDE DEF r, t, g
  <2>2. push_tpsl_request(gateway, r) =
           IF pos = 0
           THEN Gateway(0, price, gateway.m_tpsl, t, <<TpslUpdatedEvent(r.guid, TRUE, FALSE, TRUE)>>)
           ELSE Gateway(pos, price, r, t, <<TpslUpdatedEvent(r.guid, TRUE, FALSE, FALSE)>>)
    BY <1>5, TpslRequestAtGateway DEF t
  <2>3. pos # 0
    BY DEF Position
  <2> QED BY <2>1, <2>2, <2>3
<1> HIDE DEF d, g, r, fields, t, e
<1>9. queue'.normal = d.normal \o <<e>> /\ gateway' = Gateway(pos, price, r, t, <<>>)
  <2> DEFINE ev == <<e>>
  <2>1. Entries(ev) = ev /\ Moves(ev, 0) /\ IsQueue(d)
    BY <1>4, <1>5, AnswerMoves DEF GatewayKinds
  <2>2. Calls(d, Gateway(pos, price, r, t, ev))
    BY <1>1, <1>7
  <2> HIDE DEF ev
  <2>3. queue'.normal = d.normal \o ev /\ gateway' = Gateway(pos, price, r, t, <<>>)
    BY <1>3, <2>1, <2>2, ExitSent
  <2> QED BY <2>3 DEF ev
<1>10. gateway' = Gateway(Position, LastPrice, [guid |-> g, take_profit |-> tp, stop_loss |-> sl],
                          gateway.m_trailing_stop, <<>>)
  BY <1>9 DEF Position, LastPrice, r, t
<1>11. queue'.normal = Discarded(Popped).normal \o <<TpslUpdatedEvent(g, TRUE, FALSE, FALSE)>>
  BY <1>9 DEF d, e
<1>12. TpslOut(g, tp, sl)
  BY <1>1, <1>2, <1>6, <1>10, <1>11 DEF TpslOut
<1> QED BY <1>12

TrailingOut(g, side, distance, stop) ==
  /\ g \in ExitOrders /\ g \notin issued /\ g # None
  /\ m_trailing_stop' = g /\ m_exit_sub' = g
  /\ UNCHANGED <<m_tpsl, exitErrors>>
  /\ exitOrder'[g] = [kind |-> "trailing", side |-> side, distance |-> distance, active |-> {}]
  /\ gateway' = Gateway(Position, LastPrice, gateway.m_tpsl,
                        [guid |-> g, side |-> side, distance |-> distance, stop |-> stop],
                        <<>>)
  /\ queue'.normal = Discarded(Popped).normal \o <<TrailingUpdatedEvent({stop})>>

LEMMA TrailingGoesOut ==
  ASSUME Shapes, Stops, NEW side, NEW distance, send_trailing_stop(side, distance),
         IsQueue(Discarded(Popped))
  PROVE  \E g : TrailingOut(g, side, distance, StopPrice(side, distance, LastPrice))
<1> DEFINE d == Discarded(Popped)
           g == NextGuid(ExitOrders, issued)
           fields == [kind |-> "trailing", side |-> side, distance |-> distance,
                      active |-> {}]
           pos == gateway.m_pos_volume
           price == gateway.m_last_price
           stop == StopPrice(side, distance, price)
           t == [guid |-> g, side |-> side, distance |-> distance, stop |-> stop]
           e == TrailingUpdatedEvent({stop})
<1>1. /\ issued # ExitOrders /\ m_trailing_stop' = g
      /\ Calls(d, push_trailing_stop_request(gateway, g, side, distance))
      /\ UNCHANGED <<m_tpsl, exitErrors>>
      /\ exitOrder' = [exitOrder EXCEPT ![g] = fields] /\ m_exit_sub' = g
  BY DEF send_trailing_stop, NewExitOrder
<1>2. g \in ExitOrders /\ g \notin issued /\ g # None
  BY <1>1, NewGuid, NoneIsNoGuid DEF Stops
<1>4. e.event = "TrailingUpdated"
  BY DEF TrailingUpdatedEvent
<1>5. IsGateway(gateway) /\ gateway.events = <<>> /\ IsQueue(d)
  BY DEF Shapes
<1>6. /\ IsTrailingStop(t)
      /\ push_trailing_stop_request(gateway, g, side, distance)
           = Gateway(pos, price, gateway.m_tpsl, t, <<e>>)
  <2> HIDE DEF g
  <2> QED BY <1>5, TrailingRequestAtGateway
<1>7. exitOrder'[g] = fields
  <2>1. exitOrder = [x \in ExitOrders |-> exitOrder[x]]
    BY DEF Stops
  <2> HIDE DEF g, fields
  <2> QED BY <1>1, <1>2, <2>1
<1> HIDE DEF d, g, t, e, stop
<1>9. queue'.normal = d.normal \o <<e>> /\ gateway' = Gateway(pos, price, gateway.m_tpsl, t, <<>>)
  <2> DEFINE ev == <<e>>
  <2>1. Entries(ev) = ev /\ Moves(ev, 0) /\ IsQueue(d)
    BY <1>4, <1>5, AnswerMoves DEF GatewayKinds
  <2>2. t # None => IsTrailingStop(t)
    BY <1>6
  <2>3. Calls(d, Gateway(pos, price, gateway.m_tpsl, t, ev))
    BY <1>1, <1>6
  <2> HIDE DEF ev
  <2>4. /\ queue'.normal = d.normal \o ev
        /\ gateway' = Gateway(pos, price, gateway.m_tpsl, t, <<>>)
    BY <2>1, <2>2, <2>3, ExitSent
  <2> QED BY <2>4 DEF ev
<1>10. gateway' = Gateway(Position, LastPrice, gateway.m_tpsl,
                          [guid |-> g, side |-> side, distance |-> distance, stop |-> stop],
                          <<>>)
  BY <1>9 DEF Position, LastPrice, t
<1>11. queue'.normal = Discarded(Popped).normal \o <<TrailingUpdatedEvent({stop})>>
  BY <1>9 DEF d, e
<1>12. TrailingOut(g, side, distance, stop)
  BY <1>1, <1>2, <1>7, <1>10, <1>11 DEF TrailingOut
<1> QED BY <1>12 DEF stop, LastPrice

(* A new trailing stop at a price that is a distance from the last one *)
LEMMA MovesOfOne ==
  ASSUME NEW e, IsMove(e)
  PROVE  MovesOnly(<<e>>)' /\ MovesOnly(<<e>>) /\ <<e>> # <<>>
<1> DEFINE l == <<e>>
<1>1. Len(l) = 1 /\ l[1] = e /\ l # <<>>
  BY LiteralLists
<1> HIDE DEF l
<1>2. \A i \in 1 .. Len(l) : IsMove(l[i])
  BY <1>1
<1>3. MovesOnly(l) /\ MovesOnly(l)'
  BY <1>2 DEF MovesOnly, IsMove
<1> QED BY <1>1, <1>3 DEF l

LEMMA StopDistance ==
  ASSUME NEW price \in Int, NEW long \in {-1, 1}, NEW distance \in Nat
  PROVE  LET stop == StopPrice(-long, distance, price) IN
         /\ stop \in Int /\ stop = price - distance * long
         /\ (stop - (price + NoLossDistance * long)) * long <= 0
<1> DEFINE stop == StopPrice(-long, distance, price)
<1>0. NoLossDistance \in Nat
  BY DistancesAreNumbers
<1>1. CASE long = 1
  BY <1>0, <1>1 DEF StopPrice
<1>2. CASE long = -1
  BY <1>0, <1>2 DEF StopPrice
<1> QED BY <1>1, <1>2

LEMMA LivesTrade ==
  ASSUME Books, Stops, exit_on_trade, UNCHANGED instanceVars, LastPrice \in Int,
         NEW c, c = Core(queue.normal), Phase(c)
  PROVE  /\ \E s : s = Core(queue'.normal) /\ Phase(s)'
         /\ exitErrors' = exitErrors /\ Position' = Position /\ LastPrice' = LastPrice
<1> DEFINE k == "TradeToExit"
<1>1. k \in NormalKinds /\ Runs(k)
  BY DEF exit_on_trade, NormalKinds
<1>2. PICK d : /\ d = Core(Popped.normal) /\ IsList(d) /\ Next_Event.event = k
               /\ ~Noise(Next_Event) => Parts(c, Next_Event, d)
  <2> HIDE DEF k
  <2> QED BY <1>1, TakesCore
<1>3. PICK h, side, price, pos, last, levels :
        /\ h = Next_Event /\ side = SideOf(h.volume) /\ price = h.price
        /\ pos = Position /\ last = LastPrice /\ levels = no_loss_price
  OBVIOUS
<1>4. UNCHANGED <<strategy, m_is_pos_opened, m_active_exit, m_triggered_once,
                  no_loss_price, m_opened_position>>
  BY DEF exit_on_trade, instanceVars
<1>5. IsQueue(Popped)
  <2> HIDE DEF k
  <2> QED BY <1>1, TakesHead
<1>6. Shapes
  BY DEF Books
<1> DEFINE Goal(s) == /\ Core(queue'.normal) = s /\ Phase(s)' /\ exitErrors' = exitErrors
                      /\ Position' = Position /\ LastPrice' = LastPrice
<1>7. ASSUME pos # 0, NoExits, m_is_pos_opened, d = <<>>, HasTpsl(strategy)
      PROVE  \E s : Goal(s)
  <2>1. send_tpsl(price + ProfitDistance * side, price - RiskDistance * side)
    BY <1>3, <1>7 DEF exit_on_trade, HasExit, NoExits
  <2>2. /\ IsQueue(Discarded(Popped)) /\ Discarded(Popped).normal = Popped.normal
    BY <1>2, <1>5, <1>7, NewsIsNoUpdate, NothingDiscarded
  <2>3. PICK g, tp, sl : TpslOut(g, tp, sl)
    <3>1. \E tp, sl : send_tpsl(tp, sl)
      BY <2>1
    <3>2. PICK tp, sl : send_tpsl(tp, sl)
      BY <3>1
    <3>3. Position # 0
      BY <1>3, <1>7
    <3> QED BY <1>6, <2>2, <3>2, <3>3, TpslGoesOut
  <2>4. PICK e, s : e = TpslUpdatedEvent(g, TRUE, FALSE, FALSE) /\ s = <<e>>
    OBVIOUS
  <2>5. Core(queue'.normal) = s
    <3>1. queue'.normal = Popped.normal \o <<e>>
      BY <2>2, <2>3, <2>4 DEF TpslOut
    <3>2. IsList(<<e>>) /\ Core(<<e>>) = <<e>>
      <4>1. ~Noise(e)
        BY <2>4 DEF Noise, NoisyKinds, TpslUpdatedEvent
      <4> QED BY <4>1, CoreOfOne
    <3>3. IsList(Popped.normal)
      BY <1>5 DEF IsQueue, Whole
    <3>4. Core(Popped.normal \o <<e>>) = Core(Popped.normal) \o Core(<<e>>)
      <4> DEFINE m == <<e>>
                 n == Popped.normal
      <4>1. IsList(m) /\ IsList(n)
        BY <3>2, <3>3
      <4> HIDE DEF m, n
      <4>2. Core(n \o m) = Core(n) \o Core(m)
        BY <4>1, CoreConcat
      <4> QED BY <4>2 DEF m, n
    <3>5. <<>> \o <<e>> = <<e>>
      BY <3>2, LiteralLists
    <3> QED BY <1>2, <1>7, <2>4, <3>1, <3>2, <3>4, <3>5
  <2>6. /\ gateway'.m_pos_volume = pos /\ gateway'.m_last_price = last
        /\ gateway'.m_trailing_stop = None
        /\ gateway'.m_tpsl = [guid |-> g, take_profit |-> tp, stop_loss |-> sl]
    BY <1>3, <1>7, <2>3 DEF TpslOut, Gateway, NoExits, NoneRests
  <2>7. gateway'.m_tpsl # None /\ gateway'.m_tpsl.guid = g
    BY <2>6 DEF None
  <2>8. /\ HasTpsl(strategy)' /\ m_trailing_stop' = None /\ m_tpsl' = g /\ m_exit_sub' = g
        /\ g # None /\ IsTpsl(exitOrder[g])' /\ exitErrors' = exitErrors
    BY <1>4, <1>7, <2>3 DEF TpslOut, NoExits, IsTpsl
  <2>9. s = <<TpslUpdatedEvent(g, TRUE, FALSE, FALSE)>>
    BY <2>4
  <2>10. Covered(s)'
    BY <1>7, <2>6, <2>7, <2>8, <2>9 DEF Covered, Position, TpslUpdatedEvent
  <2>11. Goal(s)
    BY <1>3, <2>5, <2>6, <2>8, <2>10 DEF Phase, Position, LastPrice
  <2> HIDE DEF Goal
  <2> QED BY <2>11
<1>8. ASSUME pos # 0, NoExits, m_is_pos_opened, d = <<>>, ~HasTpsl(strategy),
             levels = last, h = TradeToExit(pos, last)
      PROVE  \E s : Goal(s)
  <2>0. side \in {-1, 1} /\ side = SideOf(pos) /\ last \in Int
    BY <1>3, <1>8 DEF SideOf, TradeToExit
  <2>1. send_trailing_stop(-side, RiskDistance)
    BY <1>3, <1>8 DEF exit_on_trade, HasExit, NoExits
  <2>2. /\ IsQueue(Discarded(Popped)) /\ Discarded(Popped).normal = Popped.normal
    BY <1>2, <1>5, <1>8, NewsIsNoUpdate, NothingDiscarded
  <2>3. PICK g, stop : /\ stop = StopPrice(-side, RiskDistance, last)
                       /\ TrailingOut(g, -side, RiskDistance, stop)
    BY <1>3, <1>6, <2>1, <2>2, TrailingGoesOut
  <2>4. PICK e, s : e = TrailingUpdatedEvent({stop}) /\ s = <<e>>
    OBVIOUS
  <2>5. Core(queue'.normal) = s
    <3>1. queue'.normal = Popped.normal \o <<e>>
      BY <2>2, <2>3, <2>4 DEF TrailingOut
    <3>2. IsList(<<e>>) /\ Core(<<e>>) = <<e>>
      <4>1. ~Noise(e)
        BY <2>4 DEF Noise, NoisyKinds, TrailingUpdatedEvent
      <4> QED BY <4>1, CoreOfOne
    <3>3. IsList(Popped.normal)
      BY <1>5 DEF IsQueue, Whole
    <3>4. Core(Popped.normal \o <<e>>) = Core(Popped.normal) \o Core(<<e>>)
      <4> DEFINE m == <<e>>
                 n == Popped.normal
      <4>1. IsList(m) /\ IsList(n)
        BY <3>2, <3>3
      <4> HIDE DEF m, n
      <4>2. Core(n \o m) = Core(n) \o Core(m)
        BY <4>1, CoreConcat
      <4> QED BY <4>2 DEF m, n
    <3>5. <<>> \o <<e>> = <<e>>
      BY <3>2, LiteralLists
    <3> QED BY <1>2, <1>8, <2>4, <3>1, <3>2, <3>4, <3>5
  <2>6. PICK t : /\ t = [guid |-> g, side |-> -side, distance |-> RiskDistance, stop |-> stop]
                 /\ gateway'.m_pos_volume = pos /\ gateway'.m_last_price = last
                 /\ gateway'.m_trailing_stop = t /\ gateway'.m_tpsl = None
    BY <1>3, <1>8, <2>3 DEF TrailingOut, Gateway, NoExits, NoneRests
  <2>7. t # None /\ t.guid = g /\ t.side = -side /\ t.stop = stop /\ t.distance = RiskDistance
    BY <2>6 DEF None
  <2>8. /\ ~HasTpsl(strategy)' /\ m_trailing_stop' = g /\ m_exit_sub' = g /\ m_tpsl' = None
        /\ g # None /\ exitErrors' = exitErrors /\ m_active_exit' = None
        /\ exitOrder'[g].side = -side /\ no_loss_price' = last
    <3>1. /\ m_trailing_stop' = g /\ m_exit_sub' = g /\ m_tpsl' = m_tpsl
          /\ g # None /\ exitErrors' = exitErrors
          /\ exitOrder'[g] = [kind |-> "trailing", side |-> -side,
                             distance |-> RiskDistance, active |-> {}]
      BY <2>3 DEF TrailingOut
    <3>2. exitOrder'[g].side = -side
      BY <3>1
    <3>3. ~HasTpsl(strategy)'
      BY <1>4, <1>8 DEF HasTpsl
    <3>4. m_active_exit' = None /\ m_tpsl = None /\ no_loss_price' = last
      BY <1>3, <1>4, <1>8 DEF NoExits
    <3> QED BY <3>1, <3>2, <3>3, <3>4
  <2>9. /\ stop \in Int /\ (stop - (last + NoLossDistance * side)) * side <= 0
    BY <2>0, <2>3, StopDistance, DistancesAreNumbers
  <2>10. Ratchets'
    BY <1>8, <2>0, <2>6, <2>7, <2>8, <2>9, DistancesAreNumbers DEF Ratchets, Position
  <2>11. LongSide' = side
    BY <2>0, <2>8 DEF LongSide
  <2>12. (FirstStop /\ Near)'
    BY <2>6, <2>7, <2>8, <2>9, <2>11 DEF FirstStop, Near, NoLoss
  <2>13. MovesOnly(s)' /\ s # <<>>
    <3>1. IsMove(e)
      BY <2>4 DEF IsMove
    <3> QED BY <2>4, <3>1, MovesOfOne
  <2>14. Trails(s)'
    BY <2>10, <2>12, <2>13 DEF Trails
  <2>15. Goal(s)
    BY <1>3, <2>5, <2>6, <2>8, <2>14 DEF Phase, Position, LastPrice
  <2> HIDE DEF Goal
  <2> QED BY <2>15
<1>9. ASSUME ~m_is_pos_opened
      PROVE  /\ queue' = Popped
             /\ UNCHANGED <<gateway, exitOrder, m_tpsl, m_trailing_stop, exitErrors, m_exit_sub>>
  BY <1>9 DEF exit_on_trade, omExitVars
<1>10. ASSUME Taken(c), TakenTold(c), ~m_is_pos_opened, d = <<>>
       PROVE  \E s : Goal(s)
  <2>1. Free(d)'
    BY <1>4, <1>9, <1>10 DEF Free, Taken, TakenTold, NoExits, NoneRests, Position
  <2>2. Goal(d)
    BY <1>2, <1>9, <1>10, <2>1 DEF Phase, Position, LastPrice
  <2> HIDE DEF Goal
  <2> QED BY <2>2
<1>11. ASSUME OutOfMarket, StoppedTold(c), ~m_is_pos_opened, d = <<Update(None)>>
       PROVE  \E s : Goal(s)
  <2>1. StoppedTold(d)'
    BY <1>4, <1>9, <1>11 DEF StoppedTold, Update
  <2>2. OutOfMarket'
    BY <1>4, <1>9, <1>11 DEF OutOfMarket, NoneRests, Position
  <2>3. Goal(d)
    BY <1>2, <1>9, <1>11, <2>1, <2>2 DEF Phase, StoppedPhase, Position, LastPrice
  <2> HIDE DEF Goal
  <2> QED BY <2>3
<1>12. \E s : Goal(s)
  <2>1. h.event = "TradeToExit" /\ Parts(c, h, d)
    BY <1>2, <1>3 DEF Noise, NoisyKinds
  <2>2. TradeFound(c, h, d)
    BY <2>1, NextTrade
  <2> HIDE DEF Goal
  <2> QED BY <1>3, <1>7, <1>8, <1>10, <1>11, <2>2 DEF TradeFound
<1> QED BY <1>12

LEMMA CoreAndOne ==
  ASSUME NEW q, IsList(q), NEW e, ~Noise(e)
  PROVE  Core(q \o <<e>>) = Core(q) \o <<e>> /\ IsList(Core(q))
<1> DEFINE m == <<e>>
<1>1. IsList(m) /\ Core(m) = m
  BY CoreOfOne
<1> HIDE DEF m
<1>2. Core(q \o m) = Core(q) \o Core(m) /\ IsList(Core(q))
  BY <1>1, CoreConcat
<1> QED BY <1>1, <1>2 DEF m

LEMMA MovesWithoutUpdates ==
  ASSUME NEW c, IsList(c), MovesOnly(c), NoneOf(c, "ExitUpdated"), NEW e, IsMove(e)
  PROVE  MovesOnly(c \o <<e>>)' /\ c \o <<e>> # <<>>
<1>1. PICK K : Kinds(c, K) /\ "ExitUpdated" \notin K
  BY DEF NoneOf
<1>2. ASSUME NEW i \in 1 .. Len(c) PROVE IsMove(c[i])
  <2>1. c[i].event # "ExitUpdated"
    BY <1>1 DEF Kinds
  <2>2. \A g : Update(g).event = "ExitUpdated"
    BY DEF Update
  <2> QED BY <2>1, <2>2 DEF MovesOnly
<1>3. MovesOnly(c)'
  BY <1>2 DEF MovesOnly, IsMove
<1>4. IsMove(e)'
  BY DEF IsMove
<1> QED BY <1>3, <1>4, MovesAddNext DEF MovesAdd

(* The price reaches the exit: it may replace the first stop. *)
LEMMA LivesPriceChanged ==
  ASSUME Books, Stops, on_price_changed, UNCHANGED instanceVars,
         LastPrice \in Int, no_loss_price \in Int,
         NEW c, c = Core(queue.normal), NoneOf(c, "ExitUpdated"),
         NEW price, price = Next_Event.price, PricedPhase(c, price)
  PROVE  /\ \E s : s = Core(queue'.normal) /\ Phase(s)' /\ (Position = 0 => s = c)
         /\ exitErrors' = exitErrors /\ Position' = Position /\ LastPrice' = LastPrice
<1> DEFINE k == "PriceToExit"
<1>1. k \in NormalKinds /\ Runs(k)
  BY DEF on_price_changed, NormalKinds
<1>2. c = Core(Popped.normal) /\ IsList(c)
  <2>1. \E d : /\ d = Core(Popped.normal) /\ IsList(d) /\ Next_Event.event = k
               /\ Noise(Next_Event) => c = d
    <3> HIDE DEF k
    <3> QED BY <1>1, TakesCore
  <2> QED BY <2>1 DEF Noise, NoisyKinds
<1>3. PICK g0, side, pos, last, out :
        /\ g0 = m_trailing_stop /\ side = exitOrder[g0].side
        /\ pos = Position /\ last = LastPrice /\ out = Far(price)
  OBVIOUS
<1>4. UNCHANGED <<strategy, m_is_pos_opened, m_active_exit, no_loss_price, m_opened_position>>
  BY DEF on_price_changed, instanceVars
<1>5. IsQueue(Popped)
  <2> HIDE DEF k
  <2> QED BY <1>1, TakesHead
<1>6. Shapes
  BY DEF Books
<1> DEFINE Goal(s) == /\ Core(queue'.normal) = s /\ Phase(s)' /\ exitErrors' = exitErrors
                      /\ Position' = Position /\ LastPrice' = LastPrice
                      /\ Position = 0 => s = c
           Same == /\ queue' = Popped
                   /\ UNCHANGED <<gateway, exitOrder, m_tpsl, m_trailing_stop, exitErrors, m_exit_sub>>
<1>7. ASSUME m_exit_sub = None
      PROVE  Same
  BY <1>7 DEF on_price_changed, omExitVars
<1>8. ASSUME m_active_exit = g0, m_exit_sub = g0, g0 # None
      PROVE  IF ~m_triggered_once /\ out
             THEN send_trailing_stop(side, NoLossDistance) /\ m_triggered_once' = TRUE
             ELSE Same /\ (m_triggered_once' <=> m_triggered_once)
  <2>1. Far(price) = ((price - (no_loss_price + NoLossDistance * (-side))) * (-side) >= 0)
    BY <1>3 DEF Far, NoLoss, LongSide
  <2>2. /\ Next_Event.price = price /\ exitOrder[m_active_exit].side = side
        /\ m_exit_sub # None /\ m_active_exit # None
    BY <1>3, <1>8
  <2>3. /\ ~m_triggered_once /\ out => /\ send_trailing_stop(side, NoLossDistance)
                                        /\ m_triggered_once' = TRUE
        /\ ~(~m_triggered_once /\ out) => Same /\ (m_triggered_once' <=> m_triggered_once)
    <3> DEFINE F == (price - (no_loss_price + NoLossDistance * (-side))) * (-side) >= 0
    <3>1. out = F
      BY <1>3, <2>1
    <3>2. /\ IF ~m_triggered_once /\ F
             THEN /\ send_trailing_stop(side, NoLossDistance)
                  /\ m_triggered_once' = TRUE
             ELSE /\ queue' = Popped
                  /\ m_triggered_once' = (m_exit_sub # None /\ m_active_exit # None /\ m_triggered_once)
                  /\ UNCHANGED <<omExitVars, gateway, m_exit_sub>>
      BY <2>2 DEF on_price_changed
    <3> HIDE DEF F
    <3>3. ~(~m_triggered_once /\ F) => (m_triggered_once' <=> m_triggered_once)
      BY <2>2, <3>2
    <3> QED BY <3>1, <3>2, <3>3 DEF omExitVars
  <2> QED BY <2>3
<1>9. ASSUME Free(c)
      PROVE  \E s : Goal(s)
  <2>1. Same
    BY <1>7, <1>9 DEF Free, NoExits
  <2>2. Free(c)'
    BY <1>4, <1>9, <2>1 DEF Free, NoExits, NoneRests, Position
  <2>3. Goal(c)
    BY <1>2, <2>1, <2>2 DEF Phase, Position, LastPrice
  <2> HIDE DEF Goal
  <2> QED BY <2>3
<1>10. ASSUME OutOfMarket, m_active_exit = m_trailing_stop, m_triggered_once \/ ~Far(price),
              m_trailing_stop # None, m_exit_sub = m_trailing_stop, NEW v \in Amounts, NEW p,
              c = <<TradeEvent(m_trailing_stop, v, p), Lot(v, p), TrailingUpdatedEvent({})>>
       PROVE  \E s : Goal(s)
  <2>1. Same
    BY <1>3, <1>8, <1>10
  <2>2. StoppedOut(c)'
    BY <1>10, <2>1 DEF StoppedOut, TradeEvent, Lot, TrailingUpdatedEvent, Amounts
  <2>3. OutOfMarket'
    BY <1>4, <1>10, <2>1 DEF OutOfMarket, NoneRests, Position
  <2>4. Goal(c)
    BY <1>2, <2>1, <2>2, <2>3 DEF Phase, StoppedPhase, Position, LastPrice
  <2> HIDE DEF Goal
  <2> QED BY <2>4
<1>11. ASSUME Ratchets, FirstStop, MovesOnly(c), m_active_exit = m_trailing_stop,
              Near \/ Far(price), m_triggered_once \/ ~Far(price)
       PROVE  \E s : Goal(s)
  <2>1. g0 # None /\ m_exit_sub = g0 /\ m_active_exit = g0
    BY <1>3, <1>11 DEF Ratchets
  <2>2. Same /\ (m_triggered_once' <=> m_triggered_once)
    BY <1>3, <1>8, <1>11, <2>1
  <2>3. Near
    BY <1>11 DEF Near
  <2>4. Ratchets'
    BY <1>4, <1>11, <2>2 DEF Ratchets, Position
  <2>5. (FirstStop /\ Near)'
    BY <1>4, <1>11, <2>2, <2>3 DEF FirstStop, Near, NoLoss, LongSide
  <2>6. MovesOnly(c)'
    BY <1>11, <2>2 DEF MovesOnly
  <2>7. Trails(c)'
    BY <1>4, <1>11, <2>2, <2>4, <2>5, <2>6 DEF Trails
  <2>8. Goal(c)
    BY <1>2, <2>2, <2>7 DEF Phase, Position, LastPrice
  <2> HIDE DEF Goal
  <2> QED BY <2>8
<1>12. ASSUME Ratchets, FirstStop, MovesOnly(c), m_active_exit = m_trailing_stop,
              ~m_triggered_once, Far(price)
       PROVE  \E s : Goal(s)
  <2>0. /\ g0 # None /\ m_exit_sub = g0 /\ m_active_exit = g0 /\ g0 \in issued
        /\ m_tpsl = None /\ gateway.m_tpsl = None /\ ~HasTpsl(strategy) /\ pos # 0
        /\ side = -SideOf(pos) /\ side \in {-1, 1}
    BY <1>3, <1>12 DEF Ratchets, Stops, SideOf
  <2>1. send_trailing_stop(side, NoLossDistance) /\ m_triggered_once' = TRUE
    BY <1>3, <1>8, <1>12, <2>0
  <2>2. /\ IsQueue(Discarded(Popped)) /\ Discarded(Popped).normal = Popped.normal
    BY <1>2, <1>5, NothingDiscarded
  <2>3. PICK g, stop : /\ stop = StopPrice(side, NoLossDistance, last)
                       /\ TrailingOut(g, side, NoLossDistance, stop)
    BY <1>3, <1>6, <2>1, <2>2, TrailingGoesOut
  <2>4. PICK e, s : e = TrailingUpdatedEvent({stop}) /\ s = c \o <<e>>
    OBVIOUS
  <2>5. Core(queue'.normal) = s
    <3>1. queue'.normal = Popped.normal \o <<e>>
      BY <2>2, <2>3, <2>4 DEF TrailingOut
    <3>2. ~Noise(e)
      BY <2>4 DEF Noise, NoisyKinds, TrailingUpdatedEvent
    <3>3. IsList(Popped.normal)
      BY <1>5 DEF IsQueue, Whole
    <3>4. Core(Popped.normal \o <<e>>) = Core(Popped.normal) \o <<e>>
      BY <3>2, <3>3, CoreAndOne
    <3> QED BY <1>2, <2>4, <3>1, <3>4
  <2>6. PICK t : /\ t = [guid |-> g, side |-> side, distance |-> NoLossDistance, stop |-> stop]
                 /\ gateway'.m_pos_volume = pos /\ gateway'.m_last_price = last
                 /\ gateway'.m_trailing_stop = t /\ gateway'.m_tpsl = None
    BY <1>3, <2>0, <2>3 DEF TrailingOut, Gateway
  <2>7. t # None /\ t.guid = g /\ t.side = side /\ t.stop = stop /\ t.distance = NoLossDistance
    BY <2>6 DEF None
  <2>8. /\ ~HasTpsl(strategy)' /\ m_trailing_stop' = g /\ m_exit_sub' = g /\ m_tpsl' = None
        /\ g # None /\ exitErrors' = exitErrors /\ m_active_exit' # g
        /\ exitOrder'[g].side = side
    <3>1. /\ m_trailing_stop' = g /\ m_exit_sub' = g /\ m_tpsl' = m_tpsl /\ g \notin issued
          /\ g # None /\ exitErrors' = exitErrors
          /\ exitOrder'[g] = [kind |-> "trailing", side |-> side,
                             distance |-> NoLossDistance, active |-> {}]
      BY <2>3 DEF TrailingOut
    <3>2. exitOrder'[g].side = side
      BY <3>1
    <3>3. ~HasTpsl(strategy)'
      BY <1>4, <2>0 DEF HasTpsl
    <3>4. m_active_exit' # g
      BY <1>4, <2>0, <3>1
    <3> QED BY <2>0, <3>1, <3>2, <3>3, <3>4
  <2>9. stop \in Int
    <3>1. NoLossDistance \in Nat /\ last \in Int
      BY <1>3, DistancesAreNumbers
    <3>2. CASE side = 1
      BY <2>3, <3>1, <3>2 DEF StopPrice
    <3>3. CASE side = -1
      BY <2>3, <3>1, <3>3 DEF StopPrice
    <3> QED BY <2>0, <3>2, <3>3
  <2>10. Ratchets'
    BY <2>0, <2>6, <2>7, <2>8, <2>9, DistancesAreNumbers DEF Ratchets, Position
  <2>12. (FirstStop /\ Near)'
    BY <2>1 DEF FirstStop, Near
  <2>13. MovesOnly(s)' /\ s # <<>>
    <3>1. IsMove(e)
      BY <2>4 DEF IsMove
    <3> QED BY <1>2, <1>12, <2>4, <3>1, MovesWithoutUpdates
  <2>14. Trails(s)'
    BY <2>10, <2>12, <2>13 DEF Trails
  <2>16. Position # 0
    BY <1>3, <2>0
  <2>15. Goal(s)
    BY <1>3, <2>5, <2>6, <2>8, <2>14, <2>16 DEF Phase, Position, LastPrice
  <2> HIDE DEF Goal
  <2> QED BY <2>15
<1>13. \E s : Goal(s)
  <2> HIDE DEF Goal
  <2> QED BY <1>9, <1>10, <1>11, <1>12 DEF PricedPhase
<1> QED BY <1>13

-----------------------------------------------------------------------------
(* Life, step by step.  What an event of normal priority finds, unless it is a price: *)
Heard(c) ==
  /\ c = Core(queue.normal) /\ Leaving(c) /\ NoneOf(queue.normal, "PriceToExit") /\ Phase(c)
  /\ exitErrors = {} /\ LastPrice \in Int /\ no_loss_price \in Int
  /\ ~Noise(Next_Event) => c # <<>>

LEMMA LifeHead ==
  ASSUME Books, Life, ~m_stop_request_handled,
         NEW k, k \in NormalKinds, k # "PriceToExit", Runs(k)
  PROVE  \E c : Heard(c)
<1>1. PICK c : /\ c = Core(queue.normal) /\ Leaving(c)
               /\ (NoneOf(queue.normal, "PriceToExit") /\ Phase(c)) \/ Priced(c)
  BY DEF Life
<1>2. Head(queue.normal).event = k
  BY TakesHead
<1>3. ~Priced(c)
  <2> SUFFICES ASSUME Priced(c) PROVE FALSE
    OBVIOUS
  <2>1. PICK price : Head(queue.normal) = [event |-> "PriceToExit", price |-> price]
    BY DEF Priced
  <2>2. Head(queue.normal).event = "PriceToExit"
    BY <2>1
  <2> QED BY <1>2, <2>2
<1>4. ~Noise(Next_Event) => c # <<>>
  <2>1. PICK d : ~Noise(Next_Event) => Parts(c, Next_Event, d)
    BY <1>1, TakesCore
  <2> QED BY <2>1, Scripts
<1>5. Heard(c)
  BY <1>1, <1>3, <1>4 DEF Heard, Life
<1> QED BY <1>5

(* The event is noise: nothing of the position's life is touched. *)
LEMMA LifeNoise ==
  ASSUME Books, Life, ~m_stop_request_handled,
         NEW k, k \in NormalKinds, k # "PriceToExit", Runs(k), Noise(Next_Event),
         UNCHANGED lifeVars, queue'.normal = Tail(queue.normal),
         m_has_opened_pos' = m_has_opened_pos \/ Late(queue'.normal)
  PROVE  Life'
<1>1. PICK c : Heard(c)
  BY LifeHead
<1>2. /\ c = Core(queue.normal) /\ Leaving(c) /\ NoneOf(queue.normal, "PriceToExit")
      /\ Phase(c) /\ exitErrors = {} /\ LastPrice \in Int /\ no_loss_price \in Int
  BY <1>1 DEF Heard
<1>3. IsQueue(queue) /\ Popped.normal = Tail(queue.normal) /\ queue.normal # <<>>
  BY TakesHead
<1>4. c = Core(queue'.normal)
  <2>1. \E d : d = Core(Popped.normal) /\ (Noise(Next_Event) => c = d)
    BY <1>2, TakesCore
  <2> QED BY <1>3, <2>1
<1>5. Phase(c)'
  BY <1>2, PhaseStays
<1>6. NoneOf(queue'.normal, "PriceToExit")
  <2>1. IsList(queue.normal)
    BY <1>3 DEF IsQueue, Whole
  <2> QED BY <1>2, <1>3, <2>1, NoneOfTail
<1>7. Leaving(c)'
  <2>1. Late(queue.normal) => Late(queue'.normal)
    BY <1>3, LateTail
  <2> QED BY <1>2, <2>1 DEF Leaving, lifeVars, Position
<1>8. (exitErrors = {} /\ LastPrice \in Int /\ no_loss_price \in Int)'
  BY <1>2 DEF lifeVars, LastPrice
<1> QED BY <1>4, <1>5, <1>6, <1>7, <1>8 DEF Life

(* Stops are pushed: they are noise. *)
LEMMA LifeOthers ==
  ASSUME Books, Life, UNCHANGED lifeVars,
         UNCHANGED <<m_has_opened_pos, m_stop_request_handled>>,
         NEW l, IsList(l), Kinds(l, {"Stop"}), queue'.normal = queue.normal \o l
  PROVE  Life'
<1> DEFINE q == queue.normal
<1> SUFFICES ASSUME ~m_stop_request_handled PROVE Life'
  BY DEF Life
<1>1. PICK c : /\ c = Core(q) /\ Leaving(c)
               /\ (NoneOf(q, "PriceToExit") /\ Phase(c)) \/ Priced(c)
  BY DEF Life
<1>2. IsList(q)
  BY DEF Books, Shapes, IsQueue, Whole
<1>3. Core(l) = <<>>
  <2>1. \A i \in 1 .. Len(l) : Noise(l[i])
    BY DEF Kinds, Noise, NoisyKinds
  <2> QED BY <2>1, CoreOfNoise
<1>4. c = Core(queue'.normal)
  <2> HIDE DEF q
  <2>1. IsList(Core(q)) /\ Core(q \o l) = Core(q) \o Core(l)
    BY <1>2, CoreConcat
  <2>2. Core(q) \o <<>> = Core(q)
    BY <2>1, LiteralLists
  <2> QED BY <1>1, <1>3, <2>1, <2>2 DEF q
<1>5. Leaving(c)'
  <2>1. NoneOf(l, "SignalToEntry")
    BY NoneOfSome
  <2>2. Late(q) => Late(q \o l)
    BY <2>1, LateConcat
  <2> QED BY <1>1, <2>2 DEF Leaving, lifeVars, Position
<1>6. NoneOf(l, "PriceToExit")
  BY NoneOfSome
<1>7. ASSUME NoneOf(q, "PriceToExit"), Phase(c)
      PROVE  NoneOf(queue'.normal, "PriceToExit") /\ Phase(c)'
  <2>1. Phase(c)'
    BY <1>7, PhaseStays
  <2> HIDE DEF q
  <2>2. NoneOf(q \o l, "PriceToExit")
    BY <1>2, <1>6, <1>7, NoneOfConcat
  <2> QED BY <2>1, <2>2 DEF q
<1>8. ASSUME Priced(c)
      PROVE  Priced(c)'
  <2>1. PICK price \in Prices : /\ Head(q) = [event |-> "PriceToExit", price |-> price]
                                /\ PricedPhase(c, price)
    BY <1>8 DEF Priced
  <2>2. PricedPhase(c, price)'
    BY <2>1, PhaseStays
  <2>3. q # <<>> /\ NoneOf(Tail(q), "PriceToExit") /\ NoneOf(c, "ExitUpdated") /\ ~HasTpsl(strategy)
    BY <1>8 DEF Priced
  <2>4. q \o l # <<>> /\ Head(q \o l) = Head(q) /\ NoneOf(Tail(q \o l), "PriceToExit")
    <3> HIDE DEF q
    <3>1. q \o l # <<>> /\ Head(q \o l) = Head(q) /\ Tail(q \o l) = Tail(q) \o l
      BY <1>2, <2>3, ListTakes
    <3>2. IsList(Tail(q))
      BY <1>2, <2>3, ListTail
    <3>3. NoneOf(Tail(q) \o l, "PriceToExit")
      BY <1>6, <2>3, <3>2, NoneOfConcat
    <3> QED BY <3>1, <3>3
  <2>5. ~HasTpsl(strategy)'
    BY <2>3 DEF lifeVars, HasTpsl
  <2>6. /\ queue'.normal # <<>> /\ NoneOf(Tail(queue'.normal), "PriceToExit")
        /\ Head(queue'.normal) = [event |-> "PriceToExit", price |-> price]
    BY <2>1, <2>4
  <2> QED BY <2>2, <2>3, <2>5, <2>6 DEF Priced, HasTpsl
<1>9. (exitErrors = {} /\ LastPrice \in Int /\ no_loss_price \in Int)'
  BY DEF lifeVars, LastPrice, Life
<1> QED BY <1>1, <1>4, <1>5, <1>7, <1>8, <1>9 DEF Life

LEMMA NewExitGets ==
  ASSUME NEW n, NewExit(n)
  PROVE  /\ Gets({"TpslUpdated", "TrailingUpdated"})
<1> DEFINE K == {"TpslUpdated", "TrailingUpdated"}
<1>1. PICK g : \/ \E fields, e, tp, sl : NewTpsl(n, g, fields, e, tp, sl)
               \/ \E side, distance, stop : NewTrailing(n, g, side, distance, stop)
  BY DEF NewExit
<1>2. Rest(n)
  BY DEF NewExit
<1>3. ASSUME NEW e, e.event \in K, queue'.normal = n \o <<e>>
      PROVE  Gets(K)
  <2> DEFINE l == <<e>>
  <2> HIDE DEF K
  <2>1. IsList(l) /\ Kinds(l, K) /\ queue'.normal = n \o l
    BY <1>3, KindsOfOne
  <2> HIDE DEF l
  <2> QED BY <1>2, <2>1 DEF Gets
<1>4. ASSUME NEW fields, NEW e, NEW tp, NEW sl, NewTpsl(n, g, fields, e, tp, sl)
      PROVE  Gets(K)
  <2>1. e.event \in K /\ queue'.normal = n \o <<e>>
    BY <1>4 DEF NewTpsl
  <2> HIDE DEF K
  <2> QED BY <1>3, <2>1
<1>5. ASSUME NEW side, NEW distance, NEW stop, NewTrailing(n, g, side, distance, stop)
      PROVE  Gets(K)
  <2> DEFINE e == TrailingUpdatedEvent({stop})
  <2>1. e.event \in K /\ queue'.normal = n \o <<e>>
    BY <1>5 DEF NewTrailing, TrailingUpdatedEvent
  <2> HIDE DEF K, e
  <2> QED BY <1>3, <2>1
<1> HIDE DEF K
<1>6. Gets(K)
  BY <1>1, <1>4, <1>5
<1> QED BY <1>6 DEF K

(* An event about the position or its exit is handled. *)
LEMMA LifeNext ==
  ASSUME Books, NEW c, Heard(c), ~Noise(Next_Event),
         \E d : d = Core(queue'.normal) /\ Phase(d)',
         exitErrors' = exitErrors, no_loss_price' \in Int,
         Position' = Position, LastPrice' = LastPrice, m_has_opened_pos' = m_has_opened_pos,
         NEW K, "SignalToEntry" \notin K, "PriceToExit" \notin K, Gets(K)
  PROVE  Life'
<1>1. /\ Leaving(c) /\ NoneOf(queue.normal, "PriceToExit") /\ c # <<>>
      /\ exitErrors' = {} /\ LastPrice' \in Int
  BY DEF Heard
<1>2. PICK d : d = Core(queue'.normal) /\ Phase(d)'
  OBVIOUS
<1> QED BY <1>1, <1>2, LifeGoesOn

LEMMA LifeOfTakers ==
  ASSUME Books, Life, ~m_stop_request_handled, UNCHANGED instanceVars,
         on_exit_trade \/ exit_on_opened_pos \/ exit_on_price_levels
  PROVE  Life'
<1> DEFINE k == Next_Event.event
<1>1. /\ k \in NormalKinds /\ k # "PriceToExit" /\ Runs(k) /\ ~Noise(Next_Event)
  BY ExitGuidsAreUnique DEF on_exit_trade, exit_on_opened_pos, exit_on_price_levels, Runs,
     Noise, NoisyKinds, NormalKinds, GatewayKinds
<1>2. PICK c : Heard(c)
  <2> HIDE DEF k
  <2> QED BY <1>1, LifeHead
<1>3. c = Core(queue.normal) /\ Phase(c) /\ no_loss_price \in Int /\ LastPrice \in Int
  BY <1>2 DEF Heard
<1>4. Gets({}) /\ "SignalToEntry" \notin {} /\ "PriceToExit" \notin {}
  <2>1. queue.normal # <<>> /\ queue'.normal = Tail(queue.normal) /\ IsQueue(queue)
    BY TakersPush DEF Books, Shapes
  <2>2. Rest(Tail(queue.normal))
    BY <2>1 DEF Rest
  <2> QED BY <2>1, <2>2, GetsNothing
<1>5. Position' = Position /\ LastPrice' = LastPrice /\ m_has_opened_pos' = m_has_opened_pos
  BY DEF Position, LastPrice, on_exit_trade, exit_on_opened_pos, exit_on_price_levels,
         instanceVars
<1>6. /\ \E d : d = Core(queue'.normal) /\ Phase(d)'
      /\ exitErrors' = exitErrors /\ no_loss_price' \in Int
  <2>1. CASE on_exit_trade
    <3>1. no_loss_price' = no_loss_price
      BY <2>1 DEF on_exit_trade, exitVars
    <3> QED BY <1>3, <2>1, <3>1, LivesExecution
  <2>2. CASE exit_on_opened_pos
    <3>1. no_loss_price' = no_loss_price /\ exitErrors' = exitErrors
      BY <2>2 DEF exit_on_opened_pos, omExitVars
    <3> QED BY <1>3, <2>2, <3>1, LivesNews
  <2>3. CASE exit_on_price_levels
    <3>1. exitErrors' = exitErrors
      BY <2>3 DEF exit_on_price_levels, omExitVars
    <3> QED BY <1>3, <2>3, <3>1, LivesLevels
  <2> QED BY <2>1, <2>2, <2>3
<1> HIDE DEF k
<1> QED BY <1>1, <1>2, <1>4, <1>5, <1>6, LifeNext

LEMMA LifeOfAnswers ==
  ASSUME Books, Stops, Life, ~m_stop_request_handled, UNCHANGED instanceVars,
         on_tpsl_reposnse \/ on_trailing_stop_response
  PROVE  Life'
<1> DEFINE k == Next_Event.event
           K == {"ExitUpdated"}
<1>1. /\ k \in NormalKinds /\ k # "PriceToExit" /\ Runs(k) /\ ~Noise(Next_Event)
  BY DEF on_tpsl_reposnse, on_trailing_stop_response, Runs,
     Noise, NoisyKinds, NormalKinds, GatewayKinds
<1>2. PICK c : Heard(c)
  <2> HIDE DEF k
  <2> QED BY <1>1, LifeHead
<1>3. c = Core(queue.normal) /\ Phase(c) /\ no_loss_price \in Int /\ LastPrice \in Int
  BY <1>2 DEF Heard
<1>4. Gets(K) /\ "SignalToEntry" \notin K /\ "PriceToExit" \notin K
  <2>1. /\ queue.normal # <<>>
        /\ \E l : IsList(l) /\ Kinds(l, K) /\ queue'.normal = Tail(queue.normal) \o l
    BY AnswersPush
  <2>2. Gets(K)
    BY <2>1 DEF Gets, Rest
  <2> QED BY <2>2
<1>5. /\ Position' = Position /\ LastPrice' = LastPrice /\ m_has_opened_pos' = m_has_opened_pos
      /\ no_loss_price' = no_loss_price
  BY DEF Position, LastPrice, on_tpsl_reposnse, on_trailing_stop_response, instanceVars, exitVars
<1>6. /\ \E d : d = Core(queue'.normal) /\ Phase(d)'
      /\ exitErrors' = exitErrors
  BY <1>3, LivesTpsl, LivesMove
<1> HIDE DEF k, K
<1> QED BY <1>1, <1>2, <1>3, <1>4, <1>5, <1>6, LifeNext

LEMMA LifeOfUpdates ==
  ASSUME Books, Life, ~m_stop_request_handled, UNCHANGED instanceVars,
         tpsl_on_updated \/ on_trailing_stop_updated
  PROVE  Life'
<1> DEFINE k == "ExitUpdated"
           K == {"ExitError"}
<1>1. /\ k \in NormalKinds /\ k # "PriceToExit" /\ Runs(k) /\ ~Noise(Next_Event)
  BY DEF tpsl_on_updated, on_trailing_stop_updated, Runs,
     Noise, NoisyKinds, NormalKinds, GatewayKinds
<1>2. PICK c : Heard(c)
  <2> HIDE DEF k
  <2> QED BY <1>1, LifeHead
<1>3. c = Core(queue.normal) /\ Phase(c) /\ no_loss_price \in Int /\ LastPrice \in Int
  BY <1>2 DEF Heard
<1>4. Gets(K) /\ "SignalToEntry" \notin K /\ "PriceToExit" \notin K
  BY UpdatedPush
<1>5. /\ Position' = Position /\ LastPrice' = LastPrice /\ m_has_opened_pos' = m_has_opened_pos
      /\ no_loss_price' = no_loss_price /\ exitErrors' = exitErrors
  BY DEF Position, LastPrice, tpsl_on_updated, on_trailing_stop_updated, instanceVars, omExitVars
<1>6. \E d : d = Core(queue'.normal) /\ Phase(d)'
  BY <1>3, LivesTpslUpdate, LivesTrailingUpdate
<1> HIDE DEF k, K
<1> QED BY <1>1, <1>2, <1>3, <1>4, <1>5, <1>6, LifeNext

LEMMA LifeOfTrade ==
  ASSUME Books, Life, ~m_stop_request_handled, HandleTrade
  PROVE  Life'
<1> DEFINE k == "InstanceTrade"
           K == {"PriceLevels", "OpenedPosToEntry", "OpenedPosToExit", "TradeToExit"}
<1>1. /\ k \in NormalKinds /\ k # "PriceToExit" /\ Runs(k) /\ ~Noise(Next_Event)
  BY DEF HandleTrade, Runs, Noise, NoisyKinds, NormalKinds, GatewayKinds
<1>2. PICK c : Heard(c)
  <2> HIDE DEF k
  <2> QED BY <1>1, LifeHead
<1>3. c = Core(queue.normal) /\ Phase(c) /\ no_loss_price \in Int /\ LastPrice \in Int
  BY <1>2 DEF Heard
<1>4. Gets(K) /\ "SignalToEntry" \notin K /\ "PriceToExit" \notin K
  BY TradePush
<1>5. /\ Position' = Position /\ LastPrice' = LastPrice /\ m_has_opened_pos' = m_has_opened_pos
      /\ no_loss_price' = no_loss_price /\ exitErrors' = exitErrors
  BY DEF Position, LastPrice, HandleTrade, exitVars, omExitVars
<1>6. \E d : d = Core(queue'.normal) /\ Phase(d)'
  BY <1>3, LivesLot
<1> HIDE DEF k, K
<1> QED BY <1>1, <1>2, <1>3, <1>4, <1>5, <1>6, LifeNext

(* What exit_on_trade and on_price_changed add to the list *)
LEMMA ExitsGet ==
  ASSUME Books, Stops, exit_on_trade \/ on_price_changed
  PROVE  Gets({"TpslUpdated", "TrailingUpdated"})
<1> DEFINE K == {"TpslUpdated", "TrailingUpdated"}
<1>1. /\ queue.normal # <<>>
      /\ \/ queue'.normal = Tail(queue.normal)
         \/ \E n : NewExit(n)
  BY ExitsPush DEF Stops
<1>2. CASE queue'.normal = Tail(queue.normal)
  <2>1. Rest(Tail(queue.normal)) /\ IsQueue(queue)
    BY <1>1 DEF Rest, Books, Shapes
  <2> HIDE DEF K
  <2>2. Gets(K)
    BY <1>2, <2>1, GetsNothing
  <2> QED BY <2>2 DEF K
<1>3. CASE \E n : NewExit(n)
  BY <1>3, NewExitGets
<1> QED BY <1>1, <1>2, <1>3

LEMMA LifeOfExit ==
  ASSUME Books, Stops, Life, ~m_stop_request_handled, UNCHANGED instanceVars, exit_on_trade
  PROVE  Life'
<1> DEFINE k == "TradeToExit"
           K == {"TpslUpdated", "TrailingUpdated"}
<1>1. /\ k \in NormalKinds /\ k # "PriceToExit" /\ Runs(k) /\ ~Noise(Next_Event)
  BY DEF exit_on_trade, Runs, Noise, NoisyKinds, NormalKinds, GatewayKinds
<1>2. PICK c : Heard(c)
  <2> HIDE DEF k
  <2> QED BY <1>1, LifeHead
<1>3. c = Core(queue.normal) /\ Phase(c) /\ no_loss_price \in Int /\ LastPrice \in Int
  BY <1>2 DEF Heard
<1>4. Gets(K) /\ "SignalToEntry" \notin K /\ "PriceToExit" \notin K
  BY ExitsGet
<1>5. m_has_opened_pos' = m_has_opened_pos /\ no_loss_price' = no_loss_price
  BY DEF exit_on_trade, instanceVars
<1>6. /\ \E d : d = Core(queue'.normal) /\ Phase(d)'
      /\ exitErrors' = exitErrors /\ Position' = Position /\ LastPrice' = LastPrice
  BY <1>3, LivesTrade
<1> HIDE DEF k, K
<1> QED BY <1>1, <1>2, <1>3, <1>4, <1>5, <1>6, LifeNext

LEMMA LifeOfPrice ==
  ASSUME Books, Stops, Life, ~m_stop_request_handled, UNCHANGED instanceVars, on_price_changed
  PROVE  Life'
<1> DEFINE k == "PriceToExit"
           K == {"TpslUpdated", "TrailingUpdated"}
           q == queue.normal
<1>1. k \in NormalKinds /\ Runs(k)
  BY DEF on_price_changed, NormalKinds
<1>2. /\ IsQueue(queue) /\ q # <<>> /\ Next_Event = Head(q) /\ Head(q).event = k
  <2> HIDE DEF k
  <2> QED BY <1>1, TakesHead
<1>3. IsList(q)
  BY <1>2 DEF IsQueue, Whole
<1>4. PICK c : /\ c = Core(q) /\ Leaving(c)
               /\ (NoneOf(q, k) /\ Phase(c)) \/ Priced(c)
  BY DEF Life
<1>5. Priced(c)
  <2>1. NoneOf(q, k) => Head(q).event # k
    <3> HIDE DEF q, k
    <3> QED BY <1>2, <1>3, NoneOfTail
  <2> QED BY <1>2, <1>4, <2>1
<1>6. PICK price : price = Next_Event.price /\ PricedPhase(c, price)
  <2>1. PICK p : Head(q) = [event |-> "PriceToExit", price |-> p] /\ PricedPhase(c, p)
    BY <1>5 DEF Priced
  <2>2. p = Next_Event.price
    BY <1>2, <2>1
  <2> QED BY <2>1, <2>2
<1>7. NoneOf(c, "ExitUpdated") /\ NoneOf(Tail(q), k)
  BY <1>5 DEF Priced
<1>8. LastPrice \in Int /\ no_loss_price \in Int /\ exitErrors = {}
  BY DEF Life
<1>9. PICK s : /\ s = Core(queue'.normal) /\ Phase(s)' /\ (Position = 0 => s = c)
               /\ exitErrors' = exitErrors /\ Position' = Position /\ LastPrice' = LastPrice
  BY <1>4, <1>6, <1>7, <1>8, LivesPriceChanged
<1>10. m_has_opened_pos' = m_has_opened_pos /\ no_loss_price' = no_loss_price
  BY DEF on_price_changed, instanceVars
<1>11. Gets(K)
  BY ExitsGet
<1>12. Leaving(s)'
  <2>1. "SignalToEntry" \notin K
    OBVIOUS
  <2> HIDE DEF K
  <2>2. Late(q) => Late(queue'.normal)
    BY <1>11, <2>1, LateGets
  <2> QED BY <1>4, <1>9, <1>10, <2>2 DEF Leaving
<1>13. NoneOf(queue'.normal, k)
  <2>1. PICK n, l : /\ IsList(n) /\ NoneOf(n, k) /\ IsList(l) /\ NoneOf(l, k)
                    /\ queue'.normal = n \o l
    <3> DEFINE t == Tail(q)
    <3>1. IsList(t) /\ NoneOf(t, k)
      <4> HIDE DEF q
      <4> QED BY <1>2, <1>3, <1>7, ListTail
    <3>2. /\ \/ queue'.normal = t
             \/ \E n : NewExit(n) /\ (n = t \/ \E D : n = Without(t, D))
      <4>1. \/ queue'.normal = Popped.normal
            \/ \E side : send_trailing_stop(side, NoLossDistance)
        BY DEF on_price_changed
      <4>2. Popped.normal = t
        <5> HIDE DEF k
        <5> QED BY <1>1, TakesHead
      <4>3. ASSUME NEW side, send_trailing_stop(side, NoLossDistance)
            PROVE  \E n : NewExit(n) /\ (n = t \/ \E D : n = Without(t, D))
        <5>1. IsQueue(Discarded(Popped)) /\ Rest(Discarded(Popped).normal)
          <6> HIDE DEF k
          <6> QED BY <1>1, DiscardedRests
        <5>2. NewExit(Discarded(Popped).normal)
          BY <4>3, <5>1, TrailingSent DEF Books, Stops
        <5>3. Discarded(Popped).normal = Without(t, {e \in ToSet(t) : e.event = "ExitUpdated"})
          <6>1. IsQueue(Popped)
            <7> HIDE DEF k
            <7> QED BY <1>1, TakesHead
          <6> QED BY <4>2, <6>1, DropNormal DEF Follows
        <5> QED BY <5>2, <5>3
      <4> QED BY <4>1, <4>2, <4>3
    <3>3. CASE queue'.normal = t
      <4> DEFINE e == <<>>
      <4>1. IsList(e) /\ NoneOf(e, k) /\ t \o e = t
        BY <3>1, NoneOfNothing, LiteralLists
      <4> HIDE DEF t, e, k
      <4> QED BY <3>1, <3>3, <4>1
    <3>4. ASSUME NEW n, NewExit(n), n = t \/ \E D : n = Without(t, D)
          PROVE  \E n0, l0 : /\ IsList(n0) /\ NoneOf(n0, k) /\ IsList(l0) /\ NoneOf(l0, k)
                             /\ queue'.normal = n0 \o l0
      <4>1. IsList(n) /\ NoneOf(n, k)
        <5> HIDE DEF t, k
        <5> QED BY <3>1, <3>4, NoneOfWithout
      <4>2. \E e : e.event # k /\ queue'.normal = n \o <<e>>
        <5>1. PICK g : \/ \E fields, e, tp, sl : NewTpsl(n, g, fields, e, tp, sl)
                       \/ \E side, distance, stop : NewTrailing(n, g, side, distance, stop)
          BY <3>4 DEF NewExit
        <5> QED BY <5>1 DEF NewTpsl, NewTrailing, TrailingUpdatedEvent
      <4>3. PICK e : e.event # k /\ queue'.normal = n \o <<e>>
        BY <4>2
      <4> DEFINE l == <<e>>
      <4>4. IsList(l) /\ NoneOf(l, k) /\ queue'.normal = n \o l
        BY <4>3, NoneOfOne
      <4> HIDE DEF l
      <4> QED BY <4>1, <4>4
    <3> HIDE DEF t, k
    <3> QED BY <3>2, <3>3, <3>4
  <2> HIDE DEF k
  <2> QED BY <2>1, NoneOfConcat
<1> QED BY <1>8, <1>9, <1>10, <1>12, <1>13 DEF Life

(* A market order is sent while no TP/SL rests at the gateway. *)
LEMMA OrderGoesOut ==
  ASSUME Shapes, NEW q, IsQueue(q), NEW vol \in Int, SendOrder(q, vol), gateway.m_tpsl = None
  PROVE  \E l : /\ IsList(l) /\ Kinds(l, GatewayKinds)
                /\ queue'.normal = q.normal \o l /\ Core(l) = <<Lot(vol, LastPrice)>>
                /\ gateway' = Gateway(Position + vol, LastPrice, None,
                                      gateway.m_trailing_stop, <<>>)
<1> DEFINE o == NextGuid(Orders, created)
           pos == gateway.m_pos_volume + vol
           price == gateway.m_last_price
           tpsl == gateway.m_tpsl
           t == gateway.m_trailing_stop
           r == <<>>
           x == <<OrderResponseEvent(o)>>
           y == <<TradeEvent(o, vol, price)>>
           tr == <<TradeEvent(o, vol, price), Lot(vol, price)>>
           ev == x \o r \o y
<1>1. Calls(q, push_order_request(gateway, o, vol)) /\ o \in Orders
  BY DEF SendOrder, send_market_order
<1>2. push_order_request(gateway, o, vol) = Gateway(pos, price, tpsl, t, ev)
  <2>1. PICK r0 : /\ r0 = IF pos = 0 /\ tpsl # None
                          THEN <<TpslUpdatedEvent(tpsl.guid, FALSE, FALSE, FALSE)>> ELSE <<>>
                  /\ push_order_request(gateway, o, vol)
                       = Gateway(pos, price, tpsl, t, x \o r0 \o y)
    BY OrderAtGateway DEF Shapes
  <2>2. r0 = <<>>
    BY <2>1
  <2> QED BY <2>1, <2>2
<1>4. Entries(ev) = x \o r \o tr /\ Moves(Entries(ev), vol)
  <2>1. r = <<>> \/ \E g : r = <<TpslUpdatedEvent(g, FALSE, FALSE, FALSE)>>
    OBVIOUS
  <2> HIDE DEF o, price, r
  <2> QED BY <2>1, OrderEntries DEF Lot
<1>5. pos \in Int /\ (t # None => IsTrailingStop(t))
  BY DEF Shapes, IsGateway
<1> DEFINE l == Entries(ev)
<1>6. IsList(x) /\ x \o r = x /\ IsList(tr)
  BY LiteralLists, Written
<1>7. l = x \o tr
  BY <1>4, <1>6
<1>8. Core(l) = <<Lot(vol, price)>>
  <2> DEFINE a == OrderResponseEvent(o)
             b == TradeEvent(o, vol, price)
             e == Lot(vol, price)
  <2>1. Noise(a) /\ Noise(b) /\ ~Noise(e)
    BY <1>1 DEF Noise, NoisyKinds, OrderResponseEvent, TradeEvent, Lot
  <2>2. x = <<a>> /\ tr = <<b, e>>
    OBVIOUS
  <2> HIDE DEF a, b, e, x, tr
  <2>3. IsList(<<e>>) /\ Core(<<e>>) = <<e>> /\ <<b>> \o <<e>> = <<b, e>>
    BY <2>1, CoreOfOne, Written
  <2>4. IsList(tr) /\ Core(tr) = <<e>>
    <3> DEFINE m == <<e>>
    <3>1. IsList(m) /\ Core(m) = m /\ tr = <<b>> \o m
      BY <2>2, <2>3
    <3> HIDE DEF m
    <3>2. IsList(<<b>> \o m) /\ Core(<<b>> \o m) = m
      BY <2>1, <3>1, CoreOfMore
    <3> QED BY <3>1, <3>2 DEF m
  <2>5. Core(<<a>> \o tr) = Core(tr)
    BY <2>1, <2>4, CoreOfMore
  <2> QED BY <1>7, <2>2, <2>4, <2>5 DEF e
<1>9. Calls(q, Gateway(pos, price, tpsl, t, ev)) /\ Moves(Entries(ev), vol)
  BY <1>1, <1>2, <1>4
<1> HIDE DEF ev, pos, price, tpsl, t, o, x, tr, y, r
<1>10. /\ Follows(q, queue', q.normal \o l)
       /\ gateway' = Gateway(pos, price, tpsl, t, <<>>)
  BY <1>5, <1>9, CallsMoves
<1>11. IsList(l) /\ Kinds(l, GatewayKinds)
  BY <1>4, MovesList DEF Moves
<1>12. queue'.normal = q.normal \o l
  BY <1>10 DEF Follows
<1>13. gateway' = Gateway(Position + vol, LastPrice, None, gateway.m_trailing_stop, <<>>)
  BY <1>10 DEF Position, LastPrice, pos, price, tpsl, t
<1>14. Core(l) = <<Lot(vol, LastPrice)>>
  BY <1>8 DEF LastPrice, price
<1> HIDE DEF l
<1> QED BY <1>11, <1>12, <1>13, <1>14

(* With nothing about it in the list, no position means no exit. *)
LEMMA NothingIsFree ==
  ASSUME NEW c, c = <<>>, Phase(c)
  PROVE  /\ Position = 0 => Free(c)
         /\ Free(c) \/ Covered(c) \/ Trails(c)
         /\ Covered(c) => m_active_exit = m_tpsl
<1> USE DEF Lot, LevelsAt, NewsToExit, TradeToExit, Update, TpslUpdatedEvent, TradeEvent,
            TrailingUpdatedEvent
<1>1. ~Entering(c)
  BY DEF Entering
<1>2. ~Taken(c)
  BY DEF Taken, TakenOut, TakenTold
<1>3. ~StoppedPhase(c)
  BY DEF StoppedPhase, StoppedOut, StoppedTold
<1>4. Covered(c) => m_active_exit = m_tpsl /\ Position # 0
  BY DEF Covered
<1>5. Trails(c) => Position # 0
  BY DEF Trails, Ratchets
<1> QED BY <1>1, <1>2, <1>3, <1>4, <1>5 DEF Phase

LEMMA LifeOfSignal ==
  ASSUME Books, Alone, Life, ~m_stop_request_handled, NEW side \in {-1, 0, 1},
         HandleSignal(side)
  PROVE  Life'
<1> DEFINE k == "SignalToEntry"
           q == queue.normal
<1>1. k \in NormalKinds /\ k # "PriceToExit" /\ Runs(k) /\ Noise(Next_Event)
  BY DEF HandleSignal, NormalKinds, Runs, Noise, NoisyKinds
<1>2. /\ IsQueue(queue) /\ IsQueue(Popped) /\ q # <<>> /\ Head(q).event = k
      /\ Popped.normal = Tail(q)
  <2> HIDE DEF k
  <2> QED BY <1>1, TakesHead
<1>3. /\ UNCHANGED <<strategy, exitOrder, m_tpsl, m_trailing_stop, m_last_tpsl_guid, exitErrors,
                     m_is_pos_opened, m_active_exit, m_exit_sub, m_triggered_once,
                     no_loss_price, m_opened_position, m_has_opened_pos>>
  BY DEF HandleSignal, omExitVars, exitVars, instanceVars
<1>4. CASE queue' = Popped /\ gateway' = gateway
  <2>1. UNCHANGED lifeVars /\ queue'.normal = Tail(q)
    BY <1>2, <1>3, <1>4 DEF lifeVars
  <2> HIDE DEF k
  <2> QED BY <1>1, <1>3, <2>1, LifeNoise
<1>5. ASSUME side # 0, MaySendOrder, SendOrder(Popped, side)
      PROVE  Life'
  <2>1. PICK c : Heard(c)
    <3> HIDE DEF k
    <3> QED BY <1>1, LifeHead
  <2>2. /\ c = Core(q) /\ Leaving(c) /\ NoneOf(q, "PriceToExit") /\ Phase(c)
        /\ exitErrors = {} /\ LastPrice \in Int /\ no_loss_price \in Int
    BY <2>1 DEF Heard
  <2>3. ~Late(q)
    BY <1>2, LateTail
  <2>4. Position = 0
    <3>1. Split
      BY DEF Alone
    <3>2. MayEnter
      BY <1>5 DEF MaySendOrder, MayEnter
    <3> QED BY <2>3, <3>1, <3>2 DEF Split, Position
  <2>5. c = <<>>
    BY <1>5, <2>2, <2>3, <2>4 DEF Leaving, MaySendOrder
  <2>6. Free(c)
    BY <2>2, <2>4, <2>5, NothingIsFree
  <2>7. PICK l, pos, last : /\ IsList(l) /\ Kinds(l, GatewayKinds) /\ last = LastPrice
                            /\ queue'.normal = Popped.normal \o l
                            /\ pos = Position + side
                            /\ Core(l) = <<Lot(side, last)>>
                            /\ gateway' = Gateway(pos, last, None, None, <<>>)
    <3>1. Shapes /\ side \in Int /\ gateway.m_tpsl = None /\ gateway.m_trailing_stop = None
      BY <2>6 DEF Books, Free, NoExits, NoneRests
    <3>2. \E l : /\ IsList(l) /\ Kinds(l, GatewayKinds)
                 /\ queue'.normal = Popped.normal \o l /\ Core(l) = <<Lot(side, LastPrice)>>
                 /\ gateway' = Gateway(Position + side, LastPrice, None,
                                      gateway.m_trailing_stop, <<>>)
      BY <1>2, <1>5, <3>1, OrderGoesOut
    <3> QED BY <3>1, <3>2
  <2>8. /\ gateway'.m_pos_volume = pos /\ gateway'.m_last_price = last
        /\ gateway'.m_tpsl = None /\ gateway'.m_trailing_stop = None
        /\ pos = side /\ pos # 0
    BY <1>5, <2>4, <2>7 DEF Gateway
  <2>9. PICK s : s = <<Lot(pos, last)>>
    OBVIOUS
  <2>10. s = Core(queue'.normal)
    <3> DEFINE n == Popped.normal
    <3>1. IsList(n)
      BY <1>2 DEF IsQueue, Whole
    <3>2. Core(n) = <<>>
      <4>1. \E d : d = Core(Popped.normal) /\ (Noise(Next_Event) => c = d)
        <5> HIDE DEF k
        <5> QED BY <1>1, <2>2, TakesCore
      <4> QED BY <1>1, <2>5, <4>1
    <3>3. Core(n \o l) = Core(n) \o Core(l) /\ IsList(Core(l))
      <4> HIDE DEF n
      <4> QED BY <2>7, <3>1, CoreConcat
    <3>4. <<>> \o Core(l) = Core(l)
      BY <3>3, LiteralLists
    <3> QED BY <2>7, <2>8, <2>9, <3>2, <3>3, <3>4
  <2>11. Entering(s)'
    <3>1. NoExits'
      BY <1>3, <2>6, <2>8 DEF Free, NoExits, NoneRests
    <3>2. m_opened_position' = None
      BY <1>3, <2>6 DEF Free
    <3> QED BY <2>8, <2>9, <3>1, <3>2 DEF Entering, Position, LastPrice, Lot
  <2>12. NoneOf(queue'.normal, "PriceToExit")
    <3>1. IsList(Popped.normal) /\ NoneOf(Popped.normal, "PriceToExit")
      <4>1. IsList(q)
        BY <1>2 DEF IsQueue, Whole
      <4> HIDE DEF q
      <4> QED BY <1>2, <2>2, <4>1, NoneOfTail
    <3>2. NoneOf(l, "PriceToExit")
      BY <2>7, NoneOfSome DEF GatewayKinds
    <3> QED BY <2>7, <3>1, <3>2, NoneOfConcat
  <2>13. Leaving(s)'
    BY <2>8 DEF Leaving, Position
  <2>14. (exitErrors = {} /\ LastPrice \in Int /\ no_loss_price \in Int)'
    BY <1>3, <2>2, <2>7, <2>8 DEF LastPrice
  <2>15. Phase(s)'
    BY <2>11 DEF Phase
  <2> QED BY <2>10, <2>12, <2>13, <2>14, <2>15 DEF Life
<1> QED BY <1>4, <1>5 DEF HandleSignal

-----------------------------------------------------------------------------
(* A price of the history: the exit hears of it first, then what the gateway has to say. *)
PriceToExit(price) == [event |-> "PriceToExit", price |-> price]

PriceTold(price, q, m) ==
  \E v, z, s :
    /\ IsList(v) /\ Kinds(v, {"SignalToEntry"}) /\ IsList(z) /\ Kinds(z, {"SignalToEntry"})
    /\ IsList(s) /\ Kinds(s, {"Stop"})
    /\ q = (((IF HasTpsl(strategy) THEN v ELSE <<PriceToExit(price)>> \o v) \o m) \o z) \o s

LEMMA PriceToldCore ==
  ASSUME NEW m, IsList(m), NoneOf(m, "PriceToExit"), NEW price, NEW q, PriceTold(price, q, m)
  PROVE  /\ IsList(q) /\ Core(q) = Core(m)
         /\ HasTpsl(strategy) => NoneOf(q, "PriceToExit")
         /\ ~HasTpsl(strategy) => /\ q # <<>> /\ Head(q) = PriceToExit(price)
                                  /\ NoneOf(Tail(q), "PriceToExit")
<1> DEFINE k == "PriceToExit"
           p == PriceToExit(price)
           u == <<p>>
<1>1. PICK v, z, s :
    /\ IsList(v) /\ Kinds(v, {"SignalToEntry"}) /\ IsList(z) /\ Kinds(z, {"SignalToEntry"})
    /\ IsList(s) /\ Kinds(s, {"Stop"})
    /\ q = (((IF HasTpsl(strategy) THEN v ELSE u \o v) \o m) \o z) \o s
  BY DEF PriceTold
<1> DEFINE w == ((v \o m) \o z) \o s
           c == Core(m)
           n == <<>>
<1>2. NoneOf(v, k) /\ NoneOf(z, k) /\ NoneOf(s, k)
  BY <1>1, NoneOfSome
<1>3. Core(v) = n /\ Core(z) = n /\ Core(s) = n
  <2>1. ASSUME NEW l, IsList(l), Kinds(l, {"SignalToEntry"}) \/ Kinds(l, {"Stop"})
        PROVE  Core(l) = <<>>
    <3>1. \A i \in 1 .. Len(l) : Noise(l[i])
      BY <2>1 DEF Kinds, Noise, NoisyKinds
    <3> QED BY <2>1, <3>1, CoreOfNoise
  <2> QED BY <1>1, <2>1
<1>4. IsList(u) /\ Core(u) = n
  BY CoreOfOne DEF PriceToExit, Noise, NoisyKinds
<1>5. IsList(c) /\ n \o c = c /\ c \o n = c
  <2>1. IsList(c)
    BY CoreConcat
  <2> HIDE DEF c
  <2> QED BY <2>1, LiteralLists
<1>6. IsList(w) /\ NoneOf(w, k) /\ Core(w) = c
  <2> HIDE DEF k, n
  <2>1. IsList(v \o m) /\ NoneOf(v \o m, k)
    BY <1>1, <1>2, NoneOfConcat DEF k
  <2>2. Core(v \o m) = c
    <3>1. Core(v \o m) = Core(v) \o Core(m)
      BY <1>1, CoreConcat
    <3> QED BY <1>3, <1>5, <3>1
  <2>3. IsList((v \o m) \o z) /\ NoneOf((v \o m) \o z, k)
    BY <1>1, <1>2, <2>1, NoneOfConcat
  <2>4. Core((v \o m) \o z) = c
    <3> DEFINE a == v \o m
    <3>1. IsList(a) /\ Core(a) = c
      BY <2>1, <2>2
    <3> HIDE DEF a
    <3>2. Core(a \o z) = Core(a) \o Core(z)
      BY <1>1, <3>1, CoreConcat
    <3>3. Core(a \o z) = c
      BY <1>3, <1>5, <3>1, <3>2
    <3> QED BY <3>3 DEF a
  <2> DEFINE b == (v \o m) \o z
  <2>5. IsList(b) /\ NoneOf(b, k) /\ Core(b) = c
    BY <2>3, <2>4
  <2> HIDE DEF b
  <2>6. IsList(b \o s) /\ NoneOf(b \o s, k)
    BY <1>1, <1>2, <2>5, NoneOfConcat
  <2>7. Core(b \o s) = Core(b) \o Core(s)
    BY <1>1, <2>5, CoreConcat
  <2>8. Core(b \o s) = c
    BY <1>3, <1>5, <2>5, <2>7
  <2> QED BY <2>6, <2>8 DEF b
<1>7. CASE HasTpsl(strategy)
  <2>1. q = w
    BY <1>1, <1>7
  <2> QED BY <1>6, <1>7, <2>1
<1>8. CASE ~HasTpsl(strategy)
  <2>1. q = ((((u \o v) \o m) \o z) \o s)
    BY <1>1, <1>8
  <2>2. q = u \o w
    <3>1. IsList(u)
      BY <1>4
    <3> HIDE DEF u
    <3>2. IsList(v) /\ IsList(z) /\ IsList(s)
      BY <1>1
    <3>3. FirstInFront(u, v, m, z, s)
      BY <3>1, <3>2, FirstOfFive
    <3>4. (((u \o v) \o m) \o z) \o s = u \o w
      BY <3>3 DEF FirstInFront
    <3> HIDE DEF w
    <3> QED BY <2>1, <3>4
  <2>3. u # <<>> /\ Head(u) = p /\ Tail(u) = n
    OBVIOUS
  <2>4. n \o w = w
    BY <1>6, LiteralLists
  <2> HIDE DEF u, w, n
  <2>5. u \o w # <<>> /\ Head(u \o w) = p /\ Tail(u \o w) = w
    BY <1>4, <1>6, <2>3, <2>4, ListTakes
  <2>6. IsList(u \o w) /\ Core(u \o w) = Core(u) \o Core(w)
    BY <1>4, <1>6, CoreConcat, ListConcat
  <2>7. Core(q) = c
    BY <1>4, <1>5, <1>6, <2>2, <2>6
  <2> QED BY <1>6, <1>8, <2>2, <2>5, <2>6, <2>7
<1> QED BY <1>7, <1>8

LEMMA PriceListed ==
  ASSUME Shapes, NEW price, NEW candles \in 0 .. MaxCandles, HandlePrice(price, candles),
         NEW last, NEW tpsl, NEW t, NEW ev, IsList(Entries(ev)),
         on_new_price(gateway, price) = Gateway(last, price, tpsl, t, ev)
  PROVE  /\ queue.normal = <<>> /\ gateway' = Gateway(last, price, tpsl, t, <<>>)
         /\ PriceTold(price, queue'.normal, Entries(ev))
<1> DEFINE n == <<>>
           m == Entries(ev)
           x == PriceEvents(price)
           z == CandleEvents(candles)
           l == (x \o m) \o z
           q == AfterPrice(price, candles)
           K == {"SignalToEntry"}
           p == PriceToExit(price)
<1>1. gateway' = Gateway(last, price, tpsl, t, n)
  BY DEF HandlePrice, Gateway
<1>2. queue.normal = n /\ IsQueue(Popped) /\ Popped.normal = n
  <2>1. "Price" \in LowKinds /\ Runs("Price") /\ IsQueue(queue)
    BY DEF LowKinds, HandlePrice, Shapes
  <2> QED BY <2>1, PopLow
<1>3. PICK v : /\ IsList(v) /\ Kinds(v, K)
               /\ x = IF HasTpsl(strategy) THEN v ELSE <<p>> \o v
  <2> DEFINE s == E("SignalToEntry")
             v == IF ListensToPrice(strategy) THEN <<s>> ELSE <<>>
  <2>1. IsList(v) /\ Kinds(v, K)
    <3>1. s.event \in K
      BY DEF E
    <3> HIDE DEF s, K
    <3>2. IsList(<<s>>) /\ Kinds(<<s>>, K) /\ IsList(<<>>) /\ Kinds(<<>>, K)
      BY <3>1, KindsOfOne, KindsOfNothing
    <3> QED BY <3>2
  <2>2. x = (IF HasTpsl(strategy) THEN <<>> ELSE <<p>>) \o v
    BY DEF PriceEvents, PriceToExit
  <2>3. <<>> \o v = v
    <3> HIDE DEF v
    <3> QED BY <2>1, LiteralLists
  <2>4. x = IF HasTpsl(strategy) THEN v ELSE <<p>> \o v
    <3> HIDE DEF v, x, p
    <3> QED BY <2>2, <2>3
  <2> HIDE DEF v, x
  <2> QED BY <2>1, <2>4
<1>4. IsList(z) /\ Kinds(z, K)
  <2>1. CASE ListensToPrice(strategy)
    <3>1. z = n
      BY <2>1 DEF CandleEvents
    <3> HIDE DEF z, K
    <3> QED BY <3>1, KindsOfNothing
  <2>2. CASE ~ListensToPrice(strategy)
    <3> DEFINE s == E("SignalToEntry")
               w == [i \in 1 .. candles |-> s]
    <3>1. z = w
      BY <2>2 DEF CandleEvents
    <3>2. candles \in Nat
      BY BoundsAreNumbers
    <3>3. s.event \in K
      BY DEF E
    <3> HIDE DEF s, z, K
    <3>4. w \in Seq({s}) /\ Len(w) = candles /\ \A i \in 1 .. candles : w[i] = s
      BY <3>2
    <3> HIDE DEF w
    <3> QED BY <3>1, <3>3, <3>4 DEF IsList, Kinds
  <2> QED BY <2>1, <2>2
<1>5. IsList(l)
  <2>1. IsList(x)
    <3>1. IsList(<<p>>)
      BY LiteralLists
    <3>2. IsList(<<p>> \o v)
      <4> DEFINE w == <<p>>
      <4>1. IsList(w)
        BY <3>1
      <4> HIDE DEF w
      <4>2. IsList(w \o v)
        BY <1>3, <4>1, ListConcat
      <4> QED BY <4>2 DEF w
    <3> QED BY <1>3, <3>2
  <2> HIDE DEF x, m, z
  <2>2. IsList(m)
    BY DEF m
  <2>3. IsList(x \o m)
    BY <2>1, <2>2, ListConcat
  <2> QED BY <1>4, <2>3, ListConcat
<1>6. q.normal = l /\ q = Lists(q.high, l, q.low)
  <2>1. on_new_price(gateway, price).events = ev
    BY DEF Gateway
  <2>2. q = WithNormal(Popped, l)
    BY <2>1 DEF AfterPrice
  <2>3. n \o l = l
    BY <1>5, LiteralLists
  <2> HIDE DEF l, q, n
  <2>4. Popped = Lists(Popped.high, Popped.normal, Popped.low)
    BY <1>2 DEF IsQueue
  <2>5. q = [Popped EXCEPT !.normal = Popped.normal \o l]
    BY <2>2 DEF WithNormal
  <2>6. q = [Popped EXCEPT !.normal = l]
    BY <1>2, <2>3, <2>5
  <2> QED BY <2>4, <2>6 DEF Lists
<1>7. \/ queue' = q \/ queue' = [q EXCEPT !.normal = q.normal \o <<E("Stop")>>]
      \/ queue' = [q EXCEPT !.low = Append(@, E("Price"))]
  BY DEF HandlePrice, NextPrice, WithNormal
<1>8. PICK s : IsList(s) /\ Kinds(s, {"Stop"}) /\ queue'.normal = l \o s
  <2> DEFINE S == <<E("Stop")>>
             L == {"Stop"}
  <2>1. IsList(S) /\ Kinds(S, L)
    BY KindsOfOne DEF E
  <2>2. IsList(n) /\ Kinds(n, L) /\ l \o n = l
    BY <1>5, KindsOfNothing, LiteralLists
  <2> HIDE DEF S, L, q, l, n
  <2>3. queue'.normal = l \o n \/ queue'.normal = l \o S
    <3>1. CASE queue' = q
      BY <1>6, <2>2, <3>1
    <3>2. CASE queue' = [q EXCEPT !.normal = q.normal \o S]
      <4>1. queue' = [q EXCEPT !.normal = l \o S]
        BY <1>6, <3>2
      <4>2. queue'.normal = l \o S
        BY <1>6, <4>1 DEF Lists
      <4> QED BY <4>2
    <3>3. CASE queue' = [q EXCEPT !.low = Append(@, E("Price"))]
      <4>1. queue'.normal = l
        BY <1>6, <3>3 DEF Lists
      <4> QED BY <2>2, <4>1
    <3> QED BY <1>7, <3>1, <3>2, <3>3 DEF S
  <2> QED BY <2>1, <2>2, <2>3 DEF L
<1>9. PriceTold(price, queue'.normal, m)
  <2>1. queue'.normal = (((IF HasTpsl(strategy) THEN v ELSE <<p>> \o v) \o m) \o z) \o s
    <3> HIDE DEF x, m, z, p
    <3> QED BY <1>3, <1>8
  <2> HIDE DEF m, z
  <2> QED BY <1>3, <1>4, <1>8, <2>1, Zenon DEF PriceTold
<1> QED BY <1>1, <1>2, <1>9

-----------------------------------------------------------------------------
(* What exactly a price does to a trailing stop, at a gateway that has no TP/SL *)
StopReached(pos, t, price) ==
  (SideOf(pos) = 1 /\ price < t.stop) \/ (SideOf(pos) # 1 /\ price > t.stop)

StopPulled(t, price, new) ==
  new = StopPrice(t.side, t.distance, price) /\ PullsUp(t.side, new, t.stop)

StopMoves(pos, t, price, b, last, trailing) ==
  \/ b = <<>> /\ last = pos /\ trailing = t
  \/ /\ last = pos
     /\ \E new : /\ StopPulled(t, price, new)
                 /\ b = <<TrailingUpdatedEvent({new})>> /\ trailing = [t EXCEPT !.stop = new]
  \/ /\ StopReached(pos, t, price) /\ last = 0 /\ trailing = None
     /\ b = <<TradeEvent(t.guid, -pos, t.stop), TrailingUpdatedEvent({})>>

StopAfter(gw, pos, t, price) ==
  \E b, trailing : \E last \in Int :
    /\ StopMoves(pos, t, price, b, last, trailing) /\ IsList(b)
    /\ trailing # None => IsTrailingStop(trailing)
    /\ gw = Gateway(last, price, None, trailing, b)

LEMMA StopAfterIs ==
  ASSUME NEW gw, NEW pos, NEW t, NEW price, NEW b, NEW trailing, NEW last \in Int,
         StopMoves(pos, t, price, b, last, trailing), IsList(b),
         trailing # None => IsTrailingStop(trailing),
         gw = Gateway(last, price, None, trailing, b)
  PROVE  StopAfter(gw, pos, t, price)
BY Zenon DEF StopAfter

LEMMA TrailingExactly ==
  ASSUME NEW pos \in Int, NEW price, NEW t, t # None, IsTrailingStop(t)
  PROVE  StopAfter(try_trade_trailing_stop(Gateway(pos, price, None, t, <<>>)), pos, t, price)
<1> DEFINE gw == Gateway(pos, price, None, t, <<>>)
           next == try_trade_trailing_stop(gw)
           new == StopPrice(t.side, t.distance, price)
           Moved == <<TrailingUpdatedEvent({new})>>
           Out == <<TradeEvent(t.guid, -pos, t.stop), TrailingUpdatedEvent({})>>
           u == [t EXCEPT !.stop = new]
<1> SUFFICES StopAfter(next, pos, t, price)
  OBVIOUS
<1>1. gw.m_pos_volume = pos /\ gw.m_trailing_stop = t /\ gw.m_last_price = price
  BY DEF Gateway
<1>2. \/ next = gw
      \/ /\ PullsUp(t.side, new, t.stop)
         /\ next = [Pushed(gw, Moved) EXCEPT !.m_trailing_stop.stop = new]
      \/ /\ StopReached(pos, t, price)
         /\ next = [Pushed(gw, Out) EXCEPT !.m_pos_volume = 0, !.m_trailing_stop = None]
  <2> HIDE DEF gw
  <2> QED BY <1>1, Zenon DEF try_trade_trailing_stop, StopReached
<1>3. IsList(Moved) /\ IsList(Out) /\ IsList(<<>>)
  <2>1. Moved \in Seq({TrailingUpdatedEvent({new})})
    OBVIOUS
  <2> DEFINE x == TradeEvent(t.guid, -pos, t.stop)
             y == TrailingUpdatedEvent({})
  <2>2. <<x, y>> \in Seq({x, y})
    <3> HIDE DEF x, y
    <3> QED OBVIOUS
  <2> HIDE DEF Moved
  <2>3. IsList(Moved)
    BY <2>1 DEF IsList
  <2>4. IsList(<<x, y>>)
    <3> HIDE DEF x, y
    <3> QED BY <2>2, Zenon DEF IsList
  <2> QED BY <2>3, <2>4, LiteralLists
<1>4. CASE next = gw
  <2>1. StopMoves(pos, t, price, <<>>, pos, t)
    BY DEF StopMoves
  <2>2. IsList(<<>>) /\ next = Gateway(pos, price, None, t, <<>>)
    BY <1>3, <1>4
  <2> HIDE DEF next
  <2> QED BY <2>1, <2>2, StopAfterIs
<1>5. CASE /\ PullsUp(t.side, new, t.stop)
           /\ next = [Pushed(gw, Moved) EXCEPT !.m_trailing_stop.stop = new]
  <2>1. StopMoves(pos, t, price, Moved, pos, u)
    <3>1. StopPulled(t, price, new)
      BY <1>5 DEF StopPulled
    <3> HIDE DEF new
    <3> QED BY <3>1 DEF StopMoves
  <2>2. next = Gateway(pos, price, None, u, Moved)
    <3> DEFINE g == Gateway(pos, price, None, t, Moved)
    <3>1. Pushed(gw, Moved) = g
      <4> HIDE DEF Moved
      <4> QED BY <1>3, PushedAtRest
    <3> HIDE DEF Moved, new, next, gw, u
    <3>2. g.m_trailing_stop = t /\ [g EXCEPT !.m_trailing_stop = u] = Gateway(pos, price, None, u, Moved)
      BY DEF Gateway
    <3> HIDE DEF g
    <3>3. [g EXCEPT !.m_trailing_stop.stop = new] = [g EXCEPT !.m_trailing_stop = u]
      BY <3>2 DEF u
    <3> QED BY <1>5, <3>1, <3>2, <3>3
  <2>3. IsTrailingStop(u)
    <3>1. t = [guid |-> t.guid, side |-> t.side, distance |-> t.distance, stop |-> t.stop]
      BY DEF IsTrailingStop
    <3>2. u = [guid |-> t.guid, side |-> t.side, distance |-> t.distance, stop |-> new]
      <4> HIDE DEF new
      <4> QED BY <3>1
    <3> HIDE DEF u
    <3> QED BY <3>2 DEF IsTrailingStop
  <2> HIDE DEF next, Moved, u
  <2>4. IsList(Moved)
    BY <1>3
  <2> QED BY <2>1, <2>2, <2>3, <2>4, StopAfterIs
<1>6. CASE /\ StopReached(pos, t, price)
           /\ next = [Pushed(gw, Out) EXCEPT !.m_pos_volume = 0, !.m_trailing_stop = None]
  <2>1. StopMoves(pos, t, price, Out, 0, None)
    BY <1>6 DEF StopMoves
  <2>2. next = Gateway(0, price, None, None, Out)
    <3> DEFINE g == Gateway(pos, price, None, t, Out)
               h == [g EXCEPT !.m_pos_volume = 0]
    <3>1. Pushed(gw, Out) = g
      <4> HIDE DEF Out
      <4> QED BY <1>3, PushedAtRest
    <3> HIDE DEF Out, next, gw
    <3>2. h = Gateway(0, price, None, t, Out)
      BY DEF Gateway
    <3> HIDE DEF g
    <3>3. next = [h EXCEPT !.m_trailing_stop = None]
      BY <1>6, <3>1
    <3> HIDE DEF h
    <3>4. [h EXCEPT !.m_trailing_stop = None] = Gateway(0, price, None, None, Out)
      BY <3>2 DEF Gateway
    <3> QED BY <3>3, <3>4
  <2> HIDE DEF next, Out
  <2>3. IsList(Out) /\ 0 \in Int
    BY <1>3
  <2> QED BY <2>1, <2>2, <2>3, StopAfterIs
<1> HIDE DEF next, In, Out, new
<1> QED BY <1>2, <1>4, <1>5, <1>6

(* The gateway at rest, told a price *)
LEMMA PriceAtStop ==
  ASSUME NEW pos \in Int, NEW before, NEW price, NEW t, t # None, IsTrailingStop(t)
  PROVE  StopAfter(on_new_price(Gateway(pos, before, None, t, <<>>), price), pos, t, price)
<1> DEFINE g == Gateway(pos, price, None, t, <<>>)
           h == try_trade_trailing_stop(g)
<1>1. [Gateway(pos, before, None, t, <<>>) EXCEPT !.m_last_price = price] = g
  BY DEF Gateway
<1>2. try_trade_tpsl(g) = g
  <2>1. g.m_tpsl = None
    BY DEF Gateway
  <2> HIDE DEF g
  <2> QED BY <2>1, Zenon DEF try_trade_tpsl
<1>3. StopAfter(h, pos, t, price)
  BY TrailingExactly
<1>4. try_trigger_conditionals(h) = h
  <2>1. PICK b, trailing, last : h = Gateway(last, price, None, trailing, b)
    BY <1>3 DEF StopAfter
  <2> HIDE DEF h
  <2> QED BY <2>1, NoConditionals, Zenon
<1>5. on_new_price(Gateway(pos, before, None, t, <<>>), price) = h
  <2> HIDE DEF g
  <2> QED BY <1>1, <1>2, <1>4, Zenon DEF on_new_price, h
<1> QED BY <1>3, <1>5

LEMMA PriceAtNothing ==
  ASSUME NEW before, NEW price
  PROVE  on_new_price(Gateway(0, before, None, None, <<>>), price)
           = Gateway(0, price, None, None, <<>>)
<1> DEFINE g == Gateway(0, price, None, None, <<>>)
<1>1. [Gateway(0, before, None, None, <<>>) EXCEPT !.m_last_price = price] = g
  BY DEF Gateway
<1>2. g.m_tpsl = None /\ g.m_trailing_stop = None
  BY DEF Gateway
<1>3. try_trade_tpsl(g) = g /\ try_trade_trailing_stop(g) = g
  <2> HIDE DEF g
  <2> QED BY <1>2, Zenon DEF try_trade_tpsl, try_trade_trailing_stop
<1>4. try_trigger_conditionals(g) = g
  BY NoConditionals
<1> HIDE DEF g
<1>5. on_new_price(Gateway(0, before, None, None, <<>>), price) = g
  BY <1>1, <1>3, <1>4, Zenon DEF on_new_price
<1> QED BY <1>5 DEF g

(* With a TP/SL and no trailing stop *)
LEMMA PriceAtTpsl ==
  ASSUME NEW pos \in Int, NEW before, NEW price, NEW tpsl0
  PROVE  \E a, tpsl : \E last \in Int :
           /\ TpslPart(pos, tpsl0, a, last, tpsl)
           /\ on_new_price(Gateway(pos, before, tpsl0, None, <<>>), price)
                = Gateway(last, price, tpsl, None, a)
<1> DEFINE g == Gateway(pos, price, tpsl0, None, <<>>)
<1>1. [Gateway(pos, before, tpsl0, None, <<>>) EXCEPT !.m_last_price = price] = g
  BY DEF Gateway
<1>2. PICK a, tpsl : \E last \in Int :
        /\ TpslPart(pos, tpsl0, a, last, tpsl)
        /\ try_trade_tpsl(g) = Gateway(last, price, tpsl, None, a)
  BY TpslAtGateway
<1>3. PICK last \in Int :
        /\ TpslPart(pos, tpsl0, a, last, tpsl)
        /\ try_trade_tpsl(g) = Gateway(last, price, tpsl, None, a)
  BY <1>2
<1> DEFINE h == Gateway(last, price, tpsl, None, a)
<1>4. h.m_trailing_stop = None
  BY DEF Gateway
<1>5. try_trade_trailing_stop(h) = h
  <2> HIDE DEF h
  <2> QED BY <1>4, Zenon DEF try_trade_trailing_stop
<1>6. try_trigger_conditionals(h) = h
  BY NoConditionals
<1>7. try_trade_tpsl(g) = h
  BY <1>3
<1> HIDE DEF g, h
<1>8. on_new_price(Gateway(pos, before, tpsl0, None, <<>>), price) = h
  BY <1>1, <1>5, <1>6, <1>7, Zenon DEF on_new_price
<1> QED BY <1>3, <1>8 DEF h

-----------------------------------------------------------------------------
(* A price is handled only when all the news has been. *)
LEMMA HistoryRests ==
  ASSUME Books, Alone, Life, ~m_stop_request_handled, queue.normal = <<>>
  PROVE  \E c : /\ c = <<>> /\ Phase(c) /\ exitErrors = {}
                /\ LastPrice \in Int /\ no_loss_price \in Int
                /\ Held(m_opened_position) = Position
                /\ Position # 0 => m_has_opened_pos
<1>1. PICK c : /\ c = Core(queue.normal)
               /\ (NoneOf(queue.normal, "PriceToExit") /\ Phase(c)) \/ Priced(c)
  BY DEF Life
<1>2. c = <<>>
  BY <1>1, CoreOfNothing
<1>3. Phase(c)
  BY <1>1 DEF Priced
<1>4. Held(m_opened_position) = Position
  <2>1. UnseenVolume = 0
    BY LotsOfNothing DEF UnseenVolume
  <2>2. Held(m_opened_position) \in Int
    BY DEF Held, Books, Shapes, IsPosition
  <2>3. Held(m_opened_position) + UnseenVolume = gateway.m_pos_volume
    BY DEF Books, PositionAgrees, Held
  <2> QED BY <2>1, <2>2, <2>3 DEF Position
<1>5. Position # 0 => m_has_opened_pos
  <2> SUFFICES ASSUME Position # 0 PROVE m_has_opened_pos
    OBVIOUS
  <2>1. PICK e0, e : /\ Final(queue.normal, "OpenedPosToEntry", e0, e)
                     /\ e0.opened = m_has_opened_pos
                     /\ m_opened_position # None => e.opened
    BY DEF Alone, NewsIsTrue
  <2>2. e = e0
    <3>1. ~LastOf(queue.normal, "OpenedPosToEntry", e)
      BY LastOfIsThere
    <3> QED BY <2>1, <3>1 DEF Final
  <2>3. m_opened_position # None
    BY <1>4 DEF Held
  <2> QED BY <2>1, <2>2, <2>3
<1> QED BY <1>2, <1>3, <1>4, <1>5 DEF Life

LEMMA HistoryGoesOn ==
  ASSUME Books, Alone, Life, ~m_stop_request_handled,
         NEW price \in Prices, NEW candles \in 0 .. MaxCandles, HandlePrice(price, candles),
         NEW last, NEW tpsl, NEW t, NEW ev, IsList(Entries(ev)),
         NoneOf(Entries(ev), "PriceToExit"),
         on_new_price(gateway, price) = Gateway(last, price, tpsl, t, ev),
         NEW c, c = Core(Entries(ev)), NoneOf(c, "ExitUpdated"), Position = 0 => c = <<>>,
         HasTpsl(strategy) => Phase(c)', ~HasTpsl(strategy) => PricedPhase(c, price)'
  PROVE  Life'
<1> DEFINE q == queue'.normal
           m == Entries(ev)
<1>1. Shapes
  BY DEF Books
<1>2. /\ queue.normal = <<>> /\ gateway' = Gateway(last, price, tpsl, t, <<>>)
      /\ PriceTold(price, q, m)
  BY <1>1, PriceListed
<1>3. /\ IsList(q) /\ Core(q) = c
      /\ HasTpsl(strategy) => NoneOf(q, "PriceToExit")
      /\ ~HasTpsl(strategy) => /\ q # <<>> /\ Head(q) = PriceToExit(price)
                               /\ NoneOf(Tail(q), "PriceToExit")
  <2> HIDE DEF q, m
  <2>1. IsList(m) /\ NoneOf(m, "PriceToExit")
    BY DEF m
  <2> QED BY <1>2, <2>1, PriceToldCore DEF m
<1>4. PICK n : /\ n = <<>> /\ Phase(n) /\ exitErrors = {}
               /\ LastPrice \in Int /\ no_loss_price \in Int
               /\ Held(m_opened_position) = Position
               /\ Position # 0 => m_has_opened_pos
  BY <1>2, HistoryRests
<1>5. UNCHANGED <<strategy, m_has_opened_pos, exitErrors, no_loss_price>>
  BY DEF HandlePrice, omExitVars, exitVars
<1>6. Leaving(c)'
  BY <1>4, <1>5 DEF Leaving
<1>7. LastPrice' \in Int
  <2>1. LastPrice' = price
    BY <1>2 DEF LastPrice, Gateway
  <2> QED BY <2>1, PricesAreNumbers
<1>8. (exitErrors = {} /\ no_loss_price \in Int)'
  BY <1>4, <1>5
<1>9. CASE HasTpsl(strategy)
  BY <1>3, <1>6, <1>7, <1>8, <1>9 DEF Life
<1>10. CASE ~HasTpsl(strategy)
  <2>1. Priced(c)'
    <3>1. PricedPhase(c, price)' /\ ~HasTpsl(strategy)'
      BY <1>5, <1>10 DEF HasTpsl
    <3>2. q # <<>> /\ Head(q) = [event |-> "PriceToExit", price |-> price]
      BY <1>3, <1>10 DEF PriceToExit
    <3>3. NoneOf(Tail(q), "PriceToExit")
      BY <1>3, <1>10
    <3> QED BY <3>1, <3>2, <3>3 DEF Priced
  <2> QED BY <1>3, <1>6, <1>7, <1>8, <2>1 DEF Life
<1> QED BY <1>9, <1>10

(* What is told when an exit has traded *)
LEMMA ExitTradeCore ==
  ASSUME NEW g \in ExitOrders, NEW vol \in Int, NEW price
  PROVE  /\ Moves(Entries(<<TradeEvent(g, vol, price)>>), vol)
         /\ Core(Entries(<<TradeEvent(g, vol, price)>>))
              = <<TradeEvent(g, vol, price), Lot(vol, price)>>
<1> DEFINE x == TradeEvent(g, vol, price)
           y == Lot(vol, price)
<1>1. Entries(<<x>>) = <<x, y>> /\ Moves(<<x, y>>, vol)
  BY TradeMoves DEF Lot
<1>2. ~Noise(x) /\ ~Noise(y)
  BY ExitGuidsAreUnique DEF Noise, NoisyKinds, TradeEvent, Lot
<1> HIDE DEF x, y
<1>3. Core(<<x, y>>) = <<x, y>>
  BY <1>2, CoreOfFew
<1> QED BY <1>1, <1>3 DEF x, y

-----------------------------------------------------------------------------
(* What the gateway tells of, as entries about the position *)
Tells(m, c) ==
  /\ IsList(m) /\ NoneOf(m, "PriceToExit") /\ c = Core(m) /\ NoneOf(c, "ExitUpdated")

LEMMA GatewayTells ==
  ASSUME NEW m, NEW v, Moves(m, v)
  PROVE  Tells(m, Core(m))
<1>1. IsList(m) /\ Kinds(m, GatewayKinds)
  BY MovesList DEF Moves
<1>2. NoneOf(m, "PriceToExit") /\ NoneOf(m, "ExitUpdated")
  BY <1>1, NoneOfSome DEF GatewayKinds
<1>3. NoneOf(Core(m), "ExitUpdated")
  BY <1>1, <1>2, NoneOfWithout DEF Core
<1> QED BY <1>1, <1>2, <1>3 DEF Tells

LEMMA NothingTold == Tells(Entries(<<>>), <<>>)
BY NothingMoves, GatewayTells, CoreOfNothing

LEMMA MoveTold ==
  ASSUME NEW stop
  PROVE  LET ev == <<TrailingUpdatedEvent(stop)>> IN Tells(Entries(ev), ev) /\ Moves(Entries(ev), 0)
<1> DEFINE e == TrailingUpdatedEvent(stop)
<1>1. e.event \in GatewayKinds \ {"Trade", "InstanceTrade"}
  BY DEF TrailingUpdatedEvent, GatewayKinds
<1>2. ~Noise(e)
  BY DEF TrailingUpdatedEvent, Noise, NoisyKinds
<1> HIDE DEF e
<1>3. Entries(<<e>>) = <<e>> /\ Moves(<<e>>, 0)
  BY <1>1, AnswerMoves
<1>4. Core(<<e>>) = <<e>>
  BY <1>2, CoreOfOne
<1>5. Tells(<<e>>, <<e>>)
  BY <1>3, <1>4, GatewayTells
<1> QED BY <1>3, <1>5 DEF e

LEMMA StopTold ==
  ASSUME NEW g \in ExitOrders, NEW vol \in Int, NEW price
  PROVE  LET x == TradeEvent(g, vol, price)
             w == TrailingUpdatedEvent({})
         IN  Tells(Entries(<<x, w>>), <<x, Lot(vol, price), w>>)
<1> DEFINE x == TradeEvent(g, vol, price)
           w == TrailingUpdatedEvent({})
           y == Lot(vol, price)
           a == <<x>>
           b == <<w>>
<1>1. Moves(Entries(a), vol) /\ Core(Entries(a)) = <<x, y>>
  BY ExitTradeCore
<1>2. Moves(Entries(b), 0) /\ Core(Entries(b)) = b
  BY MoveTold DEF Tells
<1>3. IsList(a) /\ IsList(b) /\ <<x, w>> = a \o b /\ <<x, y, w>> = <<x, y>> \o b
  <2> HIDE DEF x, y, w
  <2>1. <<x, w>> = a \o b
    BY LiteralLists
  <2>2. <<x, y, w>> = <<x, y>> \o b
    BY LiteralLists
  <2>3. IsList(a) /\ IsList(b)
    BY LiteralLists
  <2> QED BY <2>1, <2>2, <2>3
<1> HIDE DEF a, b, x, y, w
<1>4. Entries(a \o b) = Entries(a) \o Entries(b)
  BY <1>3, EntriesConcat
<1>5. IsList(Entries(a)) /\ IsList(Entries(b))
  BY <1>1, <1>2, MovesList
<1>6. Moves(Entries(a) \o Entries(b), vol + 0)
  BY <1>1, <1>2, MovesConcat
<1>7. Core(Entries(a) \o Entries(b)) = Core(Entries(a)) \o Core(Entries(b))
  BY <1>5, CoreConcat
<1>8. Core(Entries(<<x, w>>)) = <<x, y, w>>
  BY <1>1, <1>2, <1>3, <1>4, <1>7
<1>9. Moves(Entries(<<x, w>>), vol + 0)
  BY <1>3, <1>4, <1>6
<1>10. Tells(Entries(<<x, w>>), <<x, y, w>>)
  BY <1>8, <1>9, GatewayTells
<1> QED BY <1>10 DEF x, y, w

LEMMA TpslTold ==
  ASSUME NEW g \in ExitOrders, NEW vol \in Int, NEW price
  PROVE  LET u == TpslUpdatedEvent(g, FALSE, TRUE, FALSE)
             x == TradeEvent(g, vol, price)
         IN  Tells(Entries(<<u, x>>), <<u, x, Lot(vol, price)>>)
<1> DEFINE u == TpslUpdatedEvent(g, FALSE, TRUE, FALSE)
           x == TradeEvent(g, vol, price)
           y == Lot(vol, price)
           a == <<u>>
           b == <<x>>
<1>1. Moves(Entries(b), vol) /\ Core(Entries(b)) = <<x, y>>
  BY ExitTradeCore
<1>2. Entries(a) = a /\ Moves(a, 0) /\ Core(a) = a
  <2>1. u.event \in GatewayKinds \ {"Trade", "InstanceTrade"}
    BY DEF TpslUpdatedEvent, GatewayKinds
  <2>2. ~Noise(u)
    BY DEF TpslUpdatedEvent, Noise, NoisyKinds
  <2> HIDE DEF u
  <2> QED BY <2>1, <2>2, AnswerMoves, CoreOfOne
<1>3. IsList(a) /\ IsList(b) /\ <<u, x>> = a \o b
  BY LiteralLists
<1>4. <<u, x, y>> = a \o <<x, y>>
  <2> HIDE DEF u, x, y
  <2> QED OBVIOUS
<1> HIDE DEF a, b, x, y, u
<1>5. Entries(a \o b) = Entries(a) \o Entries(b)
  BY <1>3, EntriesConcat
<1>6. IsList(Entries(a)) /\ IsList(Entries(b))
  BY <1>1, <1>2, MovesList
<1>7. Moves(Entries(a) \o Entries(b), 0 + vol)
  BY <1>1, <1>2, MovesConcat
<1>8. Core(Entries(a) \o Entries(b)) = Core(Entries(a)) \o Core(Entries(b))
  BY <1>6, CoreConcat
<1>9. Core(Entries(<<u, x>>)) = <<u, x, y>>
  BY <1>1, <1>2, <1>3, <1>4, <1>5, <1>8
<1>10. Moves(Entries(<<u, x>>), 0 + vol)
  BY <1>3, <1>5, <1>7
<1>11. Tells(Entries(<<u, x>>), <<u, x, y>>)
  BY <1>9, <1>10, GatewayTells
<1> QED BY <1>11 DEF u, x, y

(* LifeOfHistory's common part *)
LEMMA HistoryTold ==
  ASSUME Books, Alone, Life, ~m_stop_request_handled,
         NEW price \in Prices, NEW candles \in 0 .. MaxCandles, HandlePrice(price, candles),
         NEW last, NEW tpsl, NEW t, NEW ev, NEW c, Tells(Entries(ev), c),
         on_new_price(gateway, price) = Gateway(last, price, tpsl, t, ev),
         Position = 0 => c = <<>>,
         HasTpsl(strategy) => Phase(c)', ~HasTpsl(strategy) => PricedPhase(c, price)'
  PROVE  Life'
BY HistoryGoesOn DEF Tells

LEMMA PriceKeeps ==
  ASSUME Books, NEW price, NEW candles \in 0 .. MaxCandles, HandlePrice(price, candles),
         NEW last, NEW tpsl, NEW t, NEW ev,
         on_new_price(gateway, price) = Gateway(last, price, tpsl, t, ev)
  PROVE  /\ UNCHANGED <<strategy, exitOrder, m_tpsl, m_trailing_stop, m_last_tpsl_guid,
                        exitErrors, m_is_pos_opened, m_active_exit, m_exit_sub,
                        m_triggered_once, no_loss_price, m_opened_position>>
         /\ gateway'.m_pos_volume = last /\ gateway'.m_last_price = price
         /\ gateway'.m_tpsl = tpsl /\ gateway'.m_trailing_stop = t
<1>1. UNCHANGED <<strategy, exitOrder, m_tpsl, m_trailing_stop, m_last_tpsl_guid,
                        exitErrors, m_is_pos_opened, m_active_exit, m_exit_sub,
                        m_triggered_once, no_loss_price, m_opened_position>>
  BY DEF HandlePrice, omExitVars, exitVars
<1> DEFINE n == <<>>
           g == Gateway(last, price, tpsl, t, ev)
<1>2. gateway' = [g EXCEPT !.events = n]
  BY DEF HandlePrice
<1> HIDE DEF n
<1>3. [g EXCEPT !.events = n] = Gateway(last, price, tpsl, t, n)
  BY DEF Gateway
<1>4. gateway' = Gateway(last, price, tpsl, t, n)
  BY <1>2, <1>3
<1>5. /\ gateway'.m_pos_volume = last /\ gateway'.m_last_price = price
      /\ gateway'.m_tpsl = tpsl /\ gateway'.m_trailing_stop = t
  BY <1>4 DEF Gateway
<1> QED BY <1>1, <1>5

LEMMA GatewayStands ==
  ASSUME Books
  PROVE  /\ gateway = Gateway(Position, LastPrice, gateway.m_tpsl, gateway.m_trailing_stop, <<>>)
         /\ Position \in Int
         /\ gateway.m_trailing_stop # None => IsTrailingStop(gateway.m_trailing_stop)
BY DEF Books, Shapes, IsGateway, Position, LastPrice

LEMMA LifeOfPriceFree ==
  ASSUME Books, Alone, Life, ~m_stop_request_handled, NEW c, c = <<>>, Free(c),
         NEW price \in Prices, NEW candles \in 0 .. MaxCandles, HandlePrice(price, candles)
  PROVE  Life'
<1> DEFINE n == <<>>
<1>1. gateway = Gateway(0, LastPrice, None, None, n)
  BY GatewayStands DEF Free, NoExits, NoneRests
<1>2. on_new_price(gateway, price) = Gateway(0, price, None, None, n)
  BY <1>1, PriceAtNothing
<1>3. /\ UNCHANGED <<strategy, exitOrder, m_tpsl, m_trailing_stop, m_last_tpsl_guid,
                        exitErrors, m_is_pos_opened, m_active_exit, m_exit_sub,
                        m_triggered_once, no_loss_price, m_opened_position>>
      /\ gateway'.m_pos_volume = 0 /\ gateway'.m_last_price = price
      /\ gateway'.m_tpsl = None /\ gateway'.m_trailing_stop = None
  BY <1>2, PriceKeeps
<1>4. Free(c)'
  BY <1>3 DEF Free, NoExits, NoneRests, Position
<1>5. Phase(c)' /\ PricedPhase(c, price)'
  BY <1>4 DEF Phase, PricedPhase
<1>6. Tells(Entries(n), c)
  BY NothingTold
<1> HIDE DEF n
<1> QED BY <1>2, <1>5, <1>6, HistoryTold

LEMMA LifeOfPriceCovered ==
  ASSUME Books, Alone, Life, ~m_stop_request_handled, NEW c, c = <<>>, Covered(c),
         NEW price \in Prices, NEW candles \in 0 .. MaxCandles, HandlePrice(price, candles)
  PROVE  Life'
<1> DEFINE n == <<>>
<1>1. PICK pos, g, o : pos = Position /\ g = m_tpsl /\ o = gateway.m_tpsl
  OBVIOUS
<1>2. /\ HasTpsl(strategy) /\ pos # 0 /\ g # None /\ m_exit_sub = g /\ m_trailing_stop = None
      /\ o # None /\ o.guid = g /\ IsTpsl(exitOrder[g]) /\ gateway.m_trailing_stop = None
      /\ tpsl_status(exitOrder[g]) = "Suspended" /\ m_active_exit = g
  BY <1>1 DEF Covered, Update, TpslUpdatedEvent
<1>3. gateway = Gateway(pos, LastPrice, o, None, n) /\ pos \in Int
  BY <1>1, <1>2, GatewayStands
<1>4. g \in ExitOrders
  BY <1>1, <1>2 DEF Alone, GatewayGuids
<1>5. PICK a, tpsl : \E last \in Int :
        /\ TpslPart(pos, o, a, last, tpsl)
        /\ on_new_price(Gateway(pos, LastPrice, o, None, <<>>), price)
             = Gateway(last, price, tpsl, None, a)
  <2> HIDE DEF n
  <2> QED BY <1>3, PriceAtTpsl
<1>6. PICK last \in Int :
        /\ TpslPart(pos, o, a, last, tpsl)
        /\ on_new_price(gateway, price) = Gateway(last, price, tpsl, None, a)
  BY <1>3, <1>5
<1>7. /\ UNCHANGED <<strategy, exitOrder, m_tpsl, m_trailing_stop, m_last_tpsl_guid,
                        exitErrors, m_is_pos_opened, m_active_exit, m_exit_sub,
                        m_triggered_once, no_loss_price, m_opened_position>>
      /\ gateway'.m_pos_volume = last /\ gateway'.m_last_price = price
      /\ gateway'.m_tpsl = tpsl /\ gateway'.m_trailing_stop = None
  BY <1>6, PriceKeeps
<1>8. HasTpsl(strategy)'
  BY <1>2, <1>7 DEF HasTpsl
<1>9. CASE a = n /\ last = pos /\ tpsl = o
  <2>1. Covered(c)'
    BY <1>1, <1>2, <1>7, <1>8, <1>9 DEF Covered, Position, IsTpsl, tpsl_status
  <2>2. Phase(c)'
    BY <2>1 DEF Phase
  <2>3. Tells(Entries(n), c)
    BY NothingTold
  <2> HIDE DEF n
  <2> QED BY <1>1, <1>2, <1>6, <1>9, <2>2, <2>3, HistoryTold
<1>10. ASSUME NEW p, last = 0, tpsl = None,
              a = <<TpslUpdatedEvent(o.guid, FALSE, TRUE, FALSE), TradeEvent(o.guid, -pos, p)>>
       PROVE  Life'
  <2>1. PICK v, u, x : /\ v = -pos /\ u = TpslUpdatedEvent(g, FALSE, TRUE, FALSE)
                       /\ x = TradeEvent(g, v, p)
    OBVIOUS
  <2>2. v \in Int /\ v \in Amounts
    BY <1>2, <1>3, <2>1 DEF Amounts
  <2>3. PICK s : s = <<u, x, Lot(v, p)>>
    OBVIOUS
  <2>4. Tells(Entries(a), s)
    <3>1. a = <<u, x>>
      BY <1>2, <1>10, <2>1
    <3>2. Tells(Entries(<<u, x>>), s)
      BY <1>4, <2>1, <2>2, <2>3, TpslTold
    <3> QED BY <3>1, <3>2
  <2>5. TakenOut(s)'
    <3>1. /\ v \in Amounts /\ s = <<TpslUpdatedEvent(g, FALSE, TRUE, FALSE),
                                   TradeEvent(g, v, p), Lot(v, p)>>
      BY <2>1, <2>2, <2>3
    <3>2. m_exit_sub' = g /\ m_tpsl' = g /\ g # None /\ IsTpsl(exitOrder[g])'
      BY <1>1, <1>2, <1>7 DEF IsTpsl
    <3> QED BY <3>1, <3>2 DEF TakenOut, TpslUpdatedEvent, TradeEvent, Lot, Amounts
  <2>6. Taken(s)'
    BY <1>2, <1>7, <1>8, <1>10, <2>5 DEF Taken, NoneRests, Position
  <2>7. Phase(s)'
    BY <2>6 DEF Phase
  <2> QED BY <1>1, <1>2, <1>6, <2>4, <2>7, HistoryTold
<1> QED BY <1>6, <1>9, <1>10 DEF TpslPart

(* The arithmetic of a price at a trailing stop: "long" is 1 or -1. *)
LEMMA PullsNear ==
  ASSUME NEW long \in {-1, 1}, NEW price \in Int, NEW level \in Int, NEW new,
         new = StopPrice(-long, RiskDistance, price)
  PROVE  (new - level) * long <= 0 \/ (price - level) * long >= 0
<1>1. RiskDistance \in Nat
  BY DistancesAreNumbers
<1>2. CASE long = 1
  BY <1>1, <1>2 DEF StopPrice
<1>3. CASE long = -1
  BY <1>1, <1>3 DEF StopPrice
<1> QED BY <1>2, <1>3

LEMMA ReachedIsNotFar ==
  ASSUME NEW pos \in Int, NEW long, long = SideOf(pos), NEW price \in Int, NEW level \in Int,
         NEW t, t.stop \in Int, StopReached(pos, t, price), (t.stop - level) * long <= 0
  PROVE  ~((price - level) * long >= 0)
<1>1. CASE pos < 0
  <2>1. long = -1 /\ price > t.stop
    BY <1>1 DEF SideOf, StopReached
  <2> QED BY <2>1
<1>2. CASE pos >= 0
  <2>1. long = 1 /\ price < t.stop
    BY <1>2 DEF SideOf, StopReached
  <2> QED BY <2>1
<1> QED BY <1>1, <1>2

LEMMA LifeOfPriceTrails ==
  ASSUME Books, Alone, Life, ~m_stop_request_handled, NEW c, c = <<>>, Trails(c),
         no_loss_price \in Int,
         NEW price \in Prices, NEW candles \in 0 .. MaxCandles, HandlePrice(price, candles)
  PROVE  Life'
<1> DEFINE n == <<>>
<1>1. PICK pos, g, t, long, level :
        /\ pos = Position /\ g = m_trailing_stop /\ t = gateway.m_trailing_stop
        /\ long = LongSide /\ level = NoLoss
  OBVIOUS
<1>2. /\ ~HasTpsl(strategy) /\ pos # 0 /\ g # None /\ m_exit_sub = g /\ m_tpsl = None
      /\ gateway.m_tpsl = None /\ t # None /\ t.guid = g /\ t.side = -SideOf(pos)
      /\ exitOrder[g].side = t.side /\ t.stop \in Int /\ t.distance \in Nat
      /\ m_active_exit = g /\ exitOrder[g].active # {}
      /\ FirstStop /\ Near
  BY <1>1 DEF Trails, Ratchets
<1>3. gateway = Gateway(pos, LastPrice, None, t, n) /\ pos \in Int /\ IsTrailingStop(t)
  BY <1>1, <1>2, GatewayStands
<1>4. /\ long = SideOf(pos) /\ long \in {-1, 1} /\ t.side = -long
      /\ level \in Int /\ price \in Int
  <2>1. long = -exitOrder[g].side
    BY <1>1 DEF LongSide
  <2>2. SideOf(pos) \in {-1, 1}
    BY DEF SideOf
  <2>3. long = SideOf(pos) /\ long \in {-1, 1} /\ t.side = -long
    BY <1>2, <2>1, <2>2
  <2>4. level = no_loss_price + NoLossDistance * long
    BY <1>1 DEF NoLoss
  <2>5. NoLossDistance \in Nat
    BY DistancesAreNumbers
  <2>6. level \in Int
    <3>1. CASE long = 1
      BY <2>4, <2>5, <3>1
    <3>2. CASE long = -1
      BY <2>4, <2>5, <3>2
    <3> QED BY <2>3, <3>1, <3>2
  <2> QED BY <2>3, <2>6, PricesAreNumbers
<1>5. g \in ExitOrders
  BY <1>1, <1>2 DEF Alone, GatewayGuids
<1>6. PICK b, trailing, last :
        /\ StopMoves(pos, t, price, b, last, trailing)
        /\ on_new_price(gateway, price) = Gateway(last, price, None, trailing, b)
  <2> DEFINE x == on_new_price(gateway, price)
  <2>1. StopAfter(on_new_price(Gateway(pos, LastPrice, None, t, <<>>), price), pos, t, price)
    <3> HIDE DEF n
    <3> QED BY <1>2, <1>3, PriceAtStop
  <2>2. x = on_new_price(Gateway(pos, LastPrice, None, t, <<>>), price)
    BY <1>3
  <2> HIDE DEF x
  <2>3. StopAfter(x, pos, t, price)
    BY <2>1, <2>2
  <2>4. \E b, trailing, last : /\ StopMoves(pos, t, price, b, last, trailing)
                               /\ x = Gateway(last, price, None, trailing, b)
    BY <2>3, Zenon DEF StopAfter
  <2> QED BY <2>4 DEF x
<1>7. /\ UNCHANGED <<strategy, exitOrder, m_tpsl, m_trailing_stop, m_last_tpsl_guid,
                        exitErrors, m_is_pos_opened, m_active_exit, m_exit_sub,
                        m_triggered_once, no_loss_price, m_opened_position>>
      /\ gateway'.m_pos_volume = last /\ gateway'.m_last_price = price
      /\ gateway'.m_tpsl = None /\ gateway'.m_trailing_stop = trailing
  BY <1>6, PriceKeeps
<1>8. ~HasTpsl(strategy)' /\ LongSide' = long /\ NoLoss' = level
  BY <1>1, <1>2, <1>7 DEF HasTpsl, LongSide, NoLoss
<1>9. Far(price)' <=> (price - level) * long >= 0
  BY <1>8 DEF Far
<1>10. ~m_triggered_once => (t.stop - level) * long <= 0 /\ t.distance = RiskDistance
  BY <1>1, <1>2 DEF Near, FirstStop
<1>11. m_active_exit' = g /\ m_trailing_stop' = g /\ m_exit_sub' = g
       /\ (m_triggered_once' <=> m_triggered_once)
  BY <1>1, <1>2, <1>7
<1>12. ASSUME last = pos, NEW s, trailing = s, s # None, s.guid = g, s.side = t.side,
              s.stop \in Int, s.distance = t.distance,
              ~m_triggered_once => \/ (s.stop - level) * long <= 0
                                   \/ (price - level) * long >= 0
       PROVE  /\ Ratchets' /\ FirstStop' /\ (Near' \/ Far(price)')
              /\ m_active_exit' = m_trailing_stop'
  <2>1. gateway'.m_trailing_stop = s
    BY <1>7, <1>12
  <2>2. Ratchets'
    BY <1>1, <1>2, <1>7, <1>8, <1>11, <1>12, <2>1 DEF Ratchets, Position
  <2>3. FirstStop'
    BY <1>10, <1>11, <1>12, <2>1 DEF FirstStop
  <2>4. Near' \/ Far(price)'
    BY <1>8, <1>9, <1>11, <1>12, <2>1 DEF Near
  <2> QED BY <1>11, <2>2, <2>3, <2>4
<1>13. CASE b = n /\ last = pos /\ trailing = t
  <2>1. /\ Ratchets' /\ FirstStop' /\ (Near' \/ Far(price)')
        /\ m_active_exit' = m_trailing_stop'
    BY <1>2, <1>10, <1>12, <1>13
  <2>2. MovesOnly(c)'
    BY DEF MovesOnly
  <2>3. PricedPhase(c, price)'
    BY <2>1, <2>2 DEF PricedPhase
  <2>4. Tells(Entries(n), c)
    BY NothingTold
  <2> HIDE DEF n
  <2> QED BY <1>1, <1>2, <1>6, <1>13, <2>3, <2>4, HistoryTold
<1>14. ASSUME last = pos, NEW new, StopPulled(t, price, new),
              b = <<TrailingUpdatedEvent({new})>>, trailing = [t EXCEPT !.stop = new]
       PROVE  Life'
  <2>1. PICK s : /\ s = [t EXCEPT !.stop = new]
    OBVIOUS
  <2>2. s # None /\ s.guid = g /\ s.side = t.side /\ s.stop = new /\ s.distance = t.distance
    <3>1. t = [guid |-> t.guid, side |-> t.side, distance |-> t.distance, stop |-> t.stop]
      BY <1>3 DEF IsTrailingStop
    <3>2. s = [guid |-> t.guid, side |-> t.side, distance |-> t.distance, stop |-> new]
      BY <2>1, <3>1
    <3> QED BY <1>2, <3>2 DEF None
  <2>3. new = StopPrice(-long, t.distance, price)
    BY <1>4, <1>14 DEF StopPulled
  <2>4. new \in Int
    <3>1. CASE long = 1
      BY <1>2, <1>4, <2>3, <3>1 DEF StopPrice
    <3>2. CASE long = -1
      BY <1>2, <1>4, <2>3, <3>2 DEF StopPrice
    <3> QED BY <1>4, <3>1, <3>2
  <2>5. ~m_triggered_once => (new - level) * long <= 0 \/ (price - level) * long >= 0
    <3> SUFFICES ASSUME ~m_triggered_once
                 PROVE  (new - level) * long <= 0 \/ (price - level) * long >= 0
      OBVIOUS
    <3>1. new = StopPrice(-long, RiskDistance, price)
      BY <1>10, <2>3
    <3> QED BY <1>4, <3>1, PullsNear
  <2>6. /\ Ratchets' /\ FirstStop' /\ (Near' \/ Far(price)')
        /\ m_active_exit' = m_trailing_stop'
    BY <1>12, <1>14, <2>1, <2>2, <2>4, <2>5
  <2>7. PICK e : e = TrailingUpdatedEvent({new})
    OBVIOUS
  <2>8. MovesOnly(<<e>>)' /\ b = <<e>>
    <3>1. IsMove(e)
      BY <2>7 DEF IsMove
    <3> QED BY <1>14, <2>7, <3>1, MovesOfOne
  <2>9. PricedPhase(b, price)'
    BY <2>6, <2>8 DEF PricedPhase
  <2>10. Tells(Entries(b), b)
    BY <1>14, MoveTold
  <2> QED BY <1>1, <1>2, <1>6, <2>9, <2>10, HistoryTold
<1>15. ASSUME StopReached(pos, t, price), last = 0, trailing = None,
              b = <<TradeEvent(t.guid, -pos, t.stop), TrailingUpdatedEvent({})>>
       PROVE  Life'
  <2>1. PICK v, p, x, w : /\ v = -pos /\ p = t.stop /\ x = TradeEvent(g, v, p)
                          /\ w = TrailingUpdatedEvent({})
    OBVIOUS
  <2>2. v \in Int /\ v \in Amounts
    BY <1>2, <1>3, <2>1 DEF Amounts
  <2>3. PICK s : s = <<x, Lot(v, p), w>>
    OBVIOUS
  <2>4. Tells(Entries(b), s)
    <3>1. b = <<x, w>>
      BY <1>2, <1>15, <2>1
    <3>2. Tells(Entries(<<x, w>>), s)
      BY <1>5, <2>1, <2>2, <2>3, StopTold
    <3> QED BY <3>1, <3>2
  <2>5. m_triggered_once' \/ ~Far(price)'
    <3>1. ~m_triggered_once => ~((price - level) * long >= 0)
      BY <1>2, <1>3, <1>4, <1>10, <1>15, ReachedIsNotFar
    <3> QED BY <1>9, <1>11, <3>1
  <2>6. OutOfMarket'
    BY <1>2, <1>7, <1>8, <1>15 DEF OutOfMarket, NoneRests, Position
  <2>7. /\ v \in Amounts
        /\ s = <<TradeEvent(g, v, p), Lot(v, p), TrailingUpdatedEvent({})>>
    BY <2>1, <2>2, <2>3
  <2>8. PricedPhase(s, price)'
    BY <1>2, <1>11, <2>5, <2>6, <2>7 DEF PricedPhase, TradeEvent, Lot, TrailingUpdatedEvent, Amounts
  <2> QED BY <1>1, <1>2, <1>6, <2>4, <2>8, HistoryTold
<1> QED BY <1>6, <1>13, <1>14, <1>15 DEF StopMoves

LEMMA LifeOfHistory ==
  ASSUME Books, Alone, Life, ~m_stop_request_handled,
         NEW price \in Prices, NEW candles \in 0 .. MaxCandles, HandlePrice(price, candles)
  PROVE  Life'
<1>1. queue.normal = <<>>
  <2>1. "Price" \in LowKinds /\ Runs("Price") /\ IsQueue(queue)
    BY DEF LowKinds, HandlePrice, Books, Shapes
  <2> QED BY <2>1, PopLow
<1>2. PICK c : c = <<>> /\ Phase(c) /\ no_loss_price \in Int
  BY <1>1, HistoryRests
<1>3. Free(c) \/ Covered(c) \/ Trails(c)
  BY <1>2, NothingIsFree
<1> QED BY <1>2, <1>3, LifeOfPriceFree, LifeOfPriceCovered, LifeOfPriceTrails

-----------------------------------------------------------------------------
(* The noise, and the other threads *)
LEMMA LifeOfNoise ==
  ASSUME Books, Alone, Life, ~m_stop_request_handled,
         \/ HandleOpenedPos \/ HandleOrderResponse \/ HandleOrderTrade
         \/ HandleStopThrows \/ ForwardError
  PROVE  Life'
<1> DEFINE q == queue.normal
           k == Next_Event.event
<1>1. q # <<>> /\ Next_Event = Head(q) /\ queue'.normal = Tail(q) /\ IsList(q)
  BY TakersPush DEF Books, Shapes, IsQueue, Whole
<1>2. k \in NormalKinds /\ k # "PriceToExit" /\ Runs(k) /\ Noise(Next_Event)
  BY DEF HandleOpenedPos, HandleOrderResponse, HandleOrderTrade, HandleStopThrows,
         ForwardError, Runs, NormalKinds, GatewayKinds, Noise, NoisyKinds
<1>3. UNCHANGED lifeVars
  BY DEF HandleOpenedPos, HandleOrderResponse, HandleOrderTrade, HandleStopThrows,
         ForwardError, lifeVars, omExitVars, exitVars, instanceVars
<1>4. m_has_opened_pos' = m_has_opened_pos \/ Late(queue'.normal)
  <2>1. CASE HandleOpenedPos
    <3>1. ~Silent(Head(q))
      BY <1>1, <2>1 DEF HandleOpenedPos, Runs, Silent
    <3>2. Late(q) \/ EarlyLate(q)
      BY DEF Alone, Split
    <3> HIDE DEF q
    <3> QED BY <1>1, <3>1, <3>2, LateTail
  <2>2. CASE ~HandleOpenedPos
    BY <2>2 DEF HandleOrderResponse, HandleOrderTrade, HandleStopThrows, ForwardError,
                instanceVars
  <2> QED BY <2>1, <2>2
<1> HIDE DEF k
<1> QED BY <1>1, <1>2, <1>3, <1>4, LifeNoise

LEMMA StopIsNotForgotten ==
  ASSUME [Next]_vars, ~m_stop_request_handled'
  PROVE  ~m_stop_request_handled /\ ~HandleStop
<1>1. ~HandleStop
  BY DEF HandleStop
<1>2. m_stop_request_handled' = m_stop_request_handled
  <2>1. ExitHandlers /\ UNCHANGED instanceVars => m_stop_request_handled' = m_stop_request_handled
    BY DEF instanceVars, stopVars
  <2>2. \A price, candles :
          HandlePrice(price, candles) => m_stop_request_handled' = m_stop_request_handled
    BY DEF HandlePrice, stopVars
  <2>3. \A side : HandleSignal(side) => m_stop_request_handled' = m_stop_request_handled
    BY DEF HandleSignal, instanceVars, stopVars
  <2>4. (\/ HandleStart \/ HandleGenerator \/ HandleOpenedPos \/ HandleOrderResponse
         \/ HandleOrderTrade \/ HandleTrade \/ HandleStopThrows \/ ForwardError
         \/ HandleError \/ run_async \/ stop_async \/ AnswerOwn \/ AnswerForeign)
        => m_stop_request_handled' = m_stop_request_handled
    BY DEF HandleStart, HandleGenerator, HandleOpenedPos, HandleOrderResponse,
           HandleOrderTrade, HandleTrade, HandleStopThrows, ForwardError, HandleError,
           run_async, stop_async, AnswerOwn, AnswerForeign, instanceVars, stopVars
  <2>5. UNCHANGED vars => m_stop_request_handled' = m_stop_request_handled
    BY DEF vars, instanceVars, stopVars
  <2> QED BY <1>1, <2>1, <2>2, <2>3, <2>4, <2>5, Zenon DEF Next, LoopStep
<1> QED BY <1>1, <1>2

LEMMA LifeStep ==
  ASSUME started, Books, Stops, Alone, Life, [Next]_vars
  PROVE  Life'
<1> SUFFICES ASSUME ~m_stop_request_handled' PROVE Life'
  BY DEF Life
<1>0. ~HandleStart /\ ~m_stop_request_handled /\ ~HandleStop
  BY NeverStart, StopIsNotForgotten DEF HandleStart
<1>1. CASE run_async \/ stop_async \/ AnswerOwn \/ AnswerForeign \/ HandleGenerator \/ HandleError
  <2>1. PICK l : IsList(l) /\ Kinds(l, {"Stop"}) /\ queue'.normal = queue.normal \o l
    BY <1>1, OthersPush
  <2>2. UNCHANGED lifeVars /\ UNCHANGED <<m_has_opened_pos, m_stop_request_handled>>
    BY <1>1 DEF run_async, stop_async, AnswerOwn, AnswerForeign, HandleGenerator, HandleError,
                lifeVars, omExitVars, exitVars, stopVars, instanceVars
  <2> QED BY <2>1, <2>2, LifeOthers
<1>2. CASE \/ HandleOpenedPos \/ HandleOrderResponse \/ HandleOrderTrade
           \/ HandleStopThrows \/ ForwardError
  BY <1>0, <1>2, LifeOfNoise
<1>3. CASE \E side \in {-1, 0, 1} : HandleSignal(side)
  BY <1>0, <1>3, LifeOfSignal
<1>4. CASE HandleTrade
  BY <1>0, <1>4, LifeOfTrade
<1>5. CASE ExitHandlers /\ UNCHANGED instanceVars
  BY <1>0, <1>5, LifeOfTakers, LifeOfAnswers, LifeOfUpdates, LifeOfExit, LifeOfPrice
     DEF ExitHandlers
<1>6. CASE \E price \in Prices, candles \in 0 .. MaxCandles : HandlePrice(price, candles)
  BY <1>0, <1>6, LifeOfHistory
<1>7. CASE UNCHANGED vars
  <2> DEFINE l == <<>>
  <2>1. IsList(l) /\ Kinds(l, {"Stop"}) /\ queue.normal \o l = queue.normal
    BY KindsOfNothing, LiteralLists DEF Books, Shapes, IsQueue, Whole
  <2>2. /\ UNCHANGED lifeVars /\ UNCHANGED <<m_has_opened_pos, m_stop_request_handled>>
        /\ queue' = queue
    BY <1>7 DEF vars, lifeVars, omExitVars, exitVars, stopVars, instanceVars
  <2> HIDE DEF l
  <2> QED BY <2>1, <2>2, LifeOthers
<1> QED BY <1>0, <1>1, <1>2, <1>3, <1>4, <1>5, <1>6, <1>7 DEF Next, LoopStep

LEMMA IdleLife ==
  ASSUME Before \/ Fresh
  PROVE  Life
<1> DEFINE q == queue.normal
           K == {"Start", "Stop"}
<1>1. IsList(q) /\ Kinds(q, K)
  BY IdleQueue
<1>2. NoneOf(q, "PriceToExit")
  BY <1>1, NoneOfSome
<1>3. Core(q) = <<>>
  <2>1. \A i \in 1 .. Len(q) : Noise(q[i])
    BY <1>1 DEF Kinds, Noise, NoisyKinds
  <2> HIDE DEF q, K
  <2> QED BY <1>1, <2>1, CoreOfNoise
<1>4. Idle
  BY DEF Before, Fresh
<1>5. PICK c : c = <<>>
  OBVIOUS
<1>6. Position = 0 /\ LastPrice = 0 /\ NoneRests
  BY <1>4 DEF Idle, Gateway, Position, LastPrice, NoneRests
<1>7. Free(c)
  BY <1>4, <1>5, <1>6 DEF Idle, Free, NoExits
<1>8. exitErrors = {} /\ no_loss_price = 0
  BY <1>4 DEF Idle
<1>9. Leaving(c) /\ Phase(c)
  BY <1>5, <1>7 DEF Leaving, Phase
<1> QED BY <1>2, <1>3, <1>5, <1>6, <1>8, <1>9 DEF Life

LEMMA IdleLifeNext == (Before \/ Fresh => Life)'
<1>1. Before \/ Fresh => Life
  BY IdleLife
<1> QED BY <1>1, PTL

(* The inductive invariant of the exits *)
LifeIsKept == AloneIsKept /\ Life

LEMMA LifeIsKeptStep ==
  ASSUME LifeIsKept, [Next]_vars
  PROVE  LifeIsKept'
<1>1. AloneIsKept'
  BY AloneIsKeptStep DEF LifeIsKept
<1>2. CASE started /\ Books
  BY <1>1, <1>2, LifeStep DEF LifeIsKept, AloneIsKept, StopsAreKept
<1>3. CASE Before
  BY <1>1, <1>3, BeforeStep, IdleLifeNext DEF LifeIsKept
<1> QED BY <1>2, <1>3 DEF LifeIsKept, AloneIsKept, StopsAreKept, BooksAgree

LEMMA InitLifeIsKept == Init => LifeIsKept
<1> SUFFICES ASSUME Init PROVE LifeIsKept
  OBVIOUS
<1>1. Before
  BY InitBefore
<1> QED BY <1>1, IdleStops, IdleAlone, IdleLife
        DEF LifeIsKept, AloneIsKept, StopsAreKept, BooksAgree, Before

(* What the invariant says between two prices *)
LEMMA QuietLife ==
  ASSUME LifeIsKept, ~m_stop_request_handled, Quiet
  PROVE  \E c : /\ c = <<>> /\ (Free(c) \/ Covered(c) \/ Trails(c))
                /\ Covered(c) => m_active_exit = m_tpsl
                /\ Held(m_opened_position) = Position
                /\ Position = 0 => Free(c)
<1>1. queue.normal = <<>> /\ Life /\ Alone
  BY DEF Quiet, LifeIsKept, AloneIsKept
<1>2. CASE Books
  <2>1. PICK c : c = <<>> /\ Phase(c) /\ Held(m_opened_position) = Position
    BY <1>1, <1>2, HistoryRests
  <2> QED BY <2>1, NothingIsFree
<1>3. CASE Before
  <2>1. Idle
    BY <1>3 DEF Before
  <2>2. PICK c : c = <<>>
    OBVIOUS
  <2>3. Position = 0 /\ NoneRests /\ m_opened_position = None
    BY <2>1 DEF Idle, Gateway, Position, NoneRests
  <2>4. Free(c) /\ Held(m_opened_position) = Position
    BY <2>1, <2>2, <2>3 DEF Idle, Free, NoExits, Held
  <2>5. ~Covered(c)
    BY <2>3 DEF Covered
  <2> QED BY <2>2, <2>4, <2>5
<1> QED BY <1>2, <1>3 DEF LifeIsKept, AloneIsKept, StopsAreKept, BooksAgree

(* Between two prices, until a stop, an open position has its exit in the market, the
   same one in the gateway, the order manager and the exit strategy, on the side that
   closes the position: with any number of prices, candles and signals, while the news
   of the entry, of the exit and of the exit's replacement wait in one loop
   (OrderManager::send_tpsl and send_trailing_stop, TpslExitStrategy and
   DynamicTrailingStopLossStrategy). *)
THEOREM OpenPositionsAreProtected == Spec => []PositionIsProtected
<1>1. LifeIsKept => PositionIsProtected
  <2> SUFFICES ASSUME LifeIsKept, Quiet, ~m_stop_request_handled, m_opened_position # None
               PROVE  IF HasTpsl(strategy)
                      THEN gateway.m_tpsl # None /\ m_tpsl = gateway.m_tpsl.guid
                           /\ m_active_exit = m_tpsl
                      ELSE /\ gateway.m_trailing_stop # None
                           /\ m_trailing_stop = gateway.m_trailing_stop.guid
                           /\ m_active_exit = m_trailing_stop
                           /\ gateway.m_trailing_stop.side = -SideOf(m_opened_position.volume)
    BY DEF PositionIsProtected
  <2>1. PICK c : /\ c = <<>> /\ (Free(c) \/ Covered(c) \/ Trails(c))
                 /\ Covered(c) => m_active_exit = m_tpsl
                 /\ Held(m_opened_position) = Position
                 /\ Position = 0 => Free(c)
    BY QuietLife
  <2>2. m_opened_position.volume = Position
    BY <2>1 DEF Held
  <2>3. ~Free(c)
    BY DEF Free
  <2>4. CASE Covered(c)
    BY <2>1, <2>4 DEF Covered
  <2>5. CASE Trails(c)
    BY <2>1, <2>2, <2>5 DEF Trails, Ratchets
  <2> QED BY <2>1, <2>3, <2>4, <2>5
<1>2. LifeIsKept /\ [Next]_vars => LifeIsKept'
  BY LifeIsKeptStep
<1> QED BY <1>1, <1>2, InitLifeIsKept, PTL DEF Spec

(* Between two prices, until a stop, a position that was closed by its take profit, its
   stop loss or its trailing stop has left no exit in the gateway, the order manager or
   the exit strategy, and no subscription: the next position can have its own. *)
THEOREM ClosedPositionsLeaveNothing == Spec => []NothingLeftBehind
<1>1. LifeIsKept => NothingLeftBehind
  <2> SUFFICES ASSUME LifeIsKept, Quiet, ~m_stop_request_handled, m_opened_position = None
               PROVE  /\ gateway.m_tpsl = None /\ gateway.m_trailing_stop = None
                      /\ m_tpsl = None /\ m_trailing_stop = None
                      /\ m_active_exit = None /\ m_exit_sub = None
    BY DEF NothingLeftBehind
  <2>1. PICK c : Held(m_opened_position) = Position /\ (Position = 0 => Free(c))
    BY QuietLife
  <2> QED BY <2>1 DEF Held, Free, NoExits, NoneRests
<1>2. LifeIsKept /\ [Next]_vars => LifeIsKept'
  BY LifeIsKeptStep
<1> QED BY <1>1, <1>2, InitLifeIsKept, PTL DEF Spec

-----------------------------------------------------------------------------
(* What the loop still has to tell the order manager of market orders *)

Answers(e) == e.event = "OrderResponse"
Deals(e)   == e.event = "Trade" /\ e.guid \in Orders
About(e, o) == (Answers(e) \/ Deals(e)) /\ e.guid = o

(* Of each order at most one trade, no response behind it, and only of orders of the
   set open; no response of an order of the set done, which was traded. *)
Due(q, open, done) ==
  /\ IsList(q)
  /\ \A i \in 1 .. Len(q) :
       /\ Answers(q[i]) \/ Deals(q[i]) => q[i].guid \in open
       /\ Answers(q[i]) => q[i].guid \notin done
  /\ \A i, j \in 1 .. Len(q) : i < j /\ Deals(q[i]) => ~About(q[j], q[i].guid)

Plain(q) == IsList(q) /\ \A i \in 1 .. Len(q) : ~Answers(q[i]) /\ ~Deals(q[i])

(* No trade of q is followed by anything of its order in r. *)
Apart(q, r) ==
  \A i \in 1 .. Len(q), j \in 1 .. Len(r) : Deals(q[i]) => ~About(r[j], q[i].guid)

LEMMA DuePlain ==
  ASSUME NEW q, Plain(q), NEW open, NEW done
  PROVE  Due(q, open, done)
BY DEF Due, Plain

LEMMA DueMore ==
  ASSUME NEW q, NEW open, NEW done, Due(q, open, done), NEW more, open \subseteq more
  PROVE  Due(q, more, done)
BY DEF Due

LEMMA DueTail ==
  ASSUME NEW q, NEW open, NEW done, Due(q, open, done), q # <<>>
  PROVE  /\ Due(Tail(q), open, done)
         /\ Answers(Head(q)) \/ Deals(Head(q)) => Head(q).guid \in open
         /\ Answers(Head(q)) => Head(q).guid \notin done
<1> DEFINE t == Tail(q)
           h == Head(q)
<1>1. /\ IsList(t) /\ Len(t) = Len(q) - 1 /\ h = q[1] /\ Len(q) \in Nat \ {0}
      /\ \A i \in 1 .. Len(q) - 1 : t[i] = q[i + 1]
  BY ListTail, ListIndices DEF Due
<1> HIDE DEF t, h
<1>2. \A i \in 1 .. Len(t) : i + 1 \in 1 .. Len(q) /\ t[i] = q[i + 1]
  BY <1>1
<1>3. \A i, j \in 1 .. Len(t) : i < j => i + 1 < j + 1
  BY <1>1
<1>4. Due(t, open, done)
  <2>1. \A i \in 1 .. Len(t) : /\ Answers(t[i]) \/ Deals(t[i]) => t[i].guid \in open
                               /\ Answers(t[i]) => t[i].guid \notin done
    BY <1>2 DEF Due
  <2>2. \A i, j \in 1 .. Len(t) : i < j /\ Deals(t[i]) => ~About(t[j], t[i].guid)
    BY <1>2, <1>3 DEF Due
  <2> QED BY <1>1, <2>1, <2>2 DEF Due
<1>5. 1 \in 1 .. Len(q)
  BY <1>1
<1>6. /\ Answers(h) \/ Deals(h) => h.guid \in open
      /\ Answers(h) => h.guid \notin done
  BY <1>1, <1>5 DEF Due
<1> QED BY <1>4, <1>6 DEF t, h

(* The trade of an order is the last that is said of it. *)
LEMMA DueDeal ==
  ASSUME NEW q, NEW open, NEW done, Due(q, open, done), q # <<>>, Deals(Head(q)),
         NEW open2, open \ {Head(q).guid} \subseteq open2,
         NEW done2, done2 \subseteq done \cup {Head(q).guid}
  PROVE  Due(Tail(q), open2, done2)
<1> DEFINE t == Tail(q)
           h == Head(q)
<1>1. /\ IsList(t) /\ Len(t) = Len(q) - 1 /\ h = q[1] /\ Len(q) \in Nat \ {0}
      /\ \A i \in 1 .. Len(q) - 1 : t[i] = q[i + 1]
  BY ListTail, ListIndices DEF Due
<1>2. Due(t, open, done)
  BY DueTail
<1>3. /\ Deals(h) /\ open \ {h.guid} \subseteq open2 /\ done2 \subseteq done \cup {h.guid}
  OBVIOUS
<1> HIDE DEF t, h
<1>4. \A i \in 1 .. Len(t) : i + 1 \in 1 .. Len(q) /\ 1 < i + 1 /\ t[i] = q[i + 1]
  BY <1>1
<1>5. \A i \in 1 .. Len(t) : ~About(t[i], h.guid)
  <2>1. 1 \in 1 .. Len(q)
    BY <1>1
  <2> QED BY <1>1, <1>3, <1>4, <2>1 DEF Due
<1>6. \A i \in 1 .. Len(t) : /\ Answers(t[i]) \/ Deals(t[i]) => t[i].guid \in open2
                             /\ Answers(t[i]) => t[i].guid \notin done2
  BY <1>2, <1>3, <1>5 DEF Due, About
<1>7. Due(t, open2, done2)
  BY <1>2, <1>6 DEF Due
<1> QED BY <1>7 DEF t

LEMMA DueWithout ==
  ASSUME NEW q, NEW open, NEW done, Due(q, open, done), NEW D
  PROVE  Due(Without(q, D), open, done)
<1> DEFINE w == Without(q, D)
<1>1. IsList(w) /\ Selected(w, q, D, Len(q)) /\ IsList(q)
  BY ListWithout DEF Due
<1> HIDE DEF w
<1>2. PICK h \in [1 .. Len(w) -> 1 .. Len(q)] :
        /\ \A k \in 1 .. Len(w) : w[k] = q[h[k]]
        /\ \A j, k \in 1 .. Len(w) : j < k => h[j] < h[k]
  BY <1>1 DEF Selected
<1>3. \A i \in 1 .. Len(w) : /\ Answers(w[i]) \/ Deals(w[i]) => w[i].guid \in open
                             /\ Answers(w[i]) => w[i].guid \notin done
  BY <1>2 DEF Due
<1>4. \A i, j \in 1 .. Len(w) : i < j /\ Deals(w[i]) => ~About(w[j], w[i].guid)
  <2> TAKE i, j \in 1 .. Len(w)
  <2>1. h[i] \in 1 .. Len(q) /\ h[j] \in 1 .. Len(q) /\ w[i] = q[h[i]] /\ w[j] = q[h[j]]
        /\ (i < j => h[i] < h[j])
    BY <1>2
  <2> QED BY <2>1 DEF Due
<1>5. Due(w, open, done)
  BY <1>1, <1>3, <1>4 DEF Due
<1> QED BY <1>5 DEF w

LEMMA DueConcat ==
  ASSUME NEW q, NEW r, NEW open, NEW done, Due(q, open, done), Due(r, open, done),
         Apart(q, r)
  PROVE  Due(q \o r, open, done)
<1> DEFINE m == q \o r
<1>1. /\ IsList(m) /\ Len(m) = Len(q) + Len(r)
      /\ \A i \in 1 .. Len(q) : m[i] = q[i]
      /\ \A i \in 1 .. Len(r) : m[Len(q) + i] = r[i]
      /\ \A i \in 1 .. Len(m) : i \in 1 .. Len(q) \/ i - Len(q) \in 1 .. Len(r)
  BY ListConcat DEF Due
<1>2. Len(q) \in Nat /\ Len(r) \in Nat
  BY ListIndices DEF Due
<1> HIDE DEF m
<1>3. \A i \in 1 .. Len(m) : \/ i \in 1 .. Len(q) /\ m[i] = q[i]
                             \/ i - Len(q) \in 1 .. Len(r) /\ m[i] = r[i - Len(q)]
  <2> TAKE i \in 1 .. Len(m)
  <2>1. i - Len(q) \in 1 .. Len(r) => m[i] = r[i - Len(q)]
    <3> SUFFICES ASSUME i - Len(q) \in 1 .. Len(r) PROVE m[i] = r[i - Len(q)]
      OBVIOUS
    <3>1. Len(q) + (i - Len(q)) = i
      BY <1>2
    <3> QED BY <1>1, <3>1
  <2> QED BY <1>1, <2>1
<1>4. \A i \in 1 .. Len(m) : /\ Answers(m[i]) \/ Deals(m[i]) => m[i].guid \in open
                             /\ Answers(m[i]) => m[i].guid \notin done
  BY <1>3 DEF Due
<1>5. \A i, j \in 1 .. Len(m) : i < j /\ Deals(m[i]) => ~About(m[j], m[i].guid)
  <2> SUFFICES ASSUME NEW i \in 1 .. Len(m), NEW j \in 1 .. Len(m), i < j, Deals(m[i])
               PROVE  ~About(m[j], m[i].guid)
    OBVIOUS
  <2>1. CASE i \in 1 .. Len(q) /\ m[i] = q[i]
    <3>1. CASE j \in 1 .. Len(q) /\ m[j] = q[j]
      BY <2>1, <3>1 DEF Due
    <3>2. CASE j - Len(q) \in 1 .. Len(r) /\ m[j] = r[j - Len(q)]
      BY <2>1, <3>2 DEF Apart
    <3> QED BY <1>3, <3>1, <3>2
  <2>2. CASE i - Len(q) \in 1 .. Len(r) /\ m[i] = r[i - Len(q)]
    <3>1. j \notin 1 .. Len(q)
      BY <1>2, <2>2
    <3>2. j - Len(q) \in 1 .. Len(r) /\ m[j] = r[j - Len(q)]
      BY <1>3, <3>1
    <3>3. i - Len(q) < j - Len(q)
      BY <1>2
    <3> QED BY <2>2, <3>2, <3>3 DEF Due
  <2> QED BY <1>3, <2>1, <2>2
<1>6. Due(m, open, done)
  BY <1>1, <1>4, <1>5 DEF Due
<1> QED BY <1>6 DEF m

LEMMA PlainApart ==
  ASSUME NEW q, NEW r, Plain(q) \/ Plain(r)
  PROVE  Apart(q, r)
BY DEF Plain, Apart, About

LEMMA PlainOfKinds ==
  ASSUME NEW q, NEW K, IsList(q), Kinds(q, K), K \cap {"OrderResponse", "Trade"} = {}
  PROVE  Plain(q)
BY DEF Plain, Kinds, Answers, Deals

LEMMA PlainOfEarly ==
  ASSUME NEW q, Early(q)
  PROVE  Plain(q)
<1>1. PICK S : q \in Seq(S) /\ \A e \in S : Silent(e)
  BY DEF Early
<1>2. \A e : Silent(e) => ~Answers(e) /\ ~Deals(e)
  BY ExitGuidsAreUnique DEF Silent, Answers, Deals
<1>3. \A i \in 1 .. Len(q) : q[i] \in S
  BY <1>1
<1> QED BY <1>1, <1>2, <1>3 DEF Plain, IsList

LEMMA DuePlainMore ==
  ASSUME NEW q, NEW r, NEW open, NEW done, Due(q, open, done), Plain(r)
  PROVE  Due(q \o r, open, done)
BY DuePlain, PlainApart, DueConcat

LEMMA DueApart ==
  ASSUME NEW q, NEW r, NEW open, NEW done, NEW more, NEW d, Due(q, open, done),
         Due(r, more, d), open \cap more = {}
  PROVE  Apart(q, r)
BY DEF Due, Apart, About

(* The answer and the trade of a new order o *)
LEMMA DueOrder ==
  ASSUME NEW o, NEW vol, NEW price, NEW r,
         r = <<>> \/ \E g : r = <<TpslUpdatedEvent(g, FALSE, FALSE, FALSE)>>,
         NEW open, o \in open, NEW done, o \notin done
  PROVE  LET x  == <<OrderResponseEvent(o)>>
             tr == <<TradeEvent(o, vol, price),
                     [event |-> "InstanceTrade", volume |-> vol, price |-> price]>>
         IN  Due((x \o r) \o tr, open, done)
<1> DEFINE a  == OrderResponseEvent(o)
           t  == TradeEvent(o, vol, price)
           b  == [event |-> "InstanceTrade", volume |-> vol, price |-> price]
           x  == <<a>>
           u  == <<t>>
           v  == <<b>>
           tr == <<t, b>>
<1>1. /\ a.event = "OrderResponse" /\ a.guid = o /\ t.event = "Trade" /\ t.guid = o
      /\ b.event = "InstanceTrade"
  BY DEF OrderResponseEvent, TradeEvent
<1>2. tr = u \o v
  BY LiteralLists
<1>3. Plain(r) /\ Kinds(r, {"TpslUpdated"})
  <2>1. ASSUME NEW g
        PROVE  LET w == <<TpslUpdatedEvent(g, FALSE, FALSE, FALSE)>>
               IN  IsList(w) /\ Kinds(w, {"TpslUpdated"})
    <3> DEFINE e == TpslUpdatedEvent(g, FALSE, FALSE, FALSE)
               K == {"TpslUpdated"}
    <3>1. e.event \in K
      BY DEF TpslUpdatedEvent
    <3> HIDE DEF e, K
    <3>2. IsList(<<e>>) /\ Kinds(<<e>>, K)
      BY <3>1, KindsOfOne
    <3> QED BY <3>2 DEF e, K
  <2>2. IsList(r) /\ Kinds(r, {"TpslUpdated"})
    BY <2>1, KindsOfNothing
  <2> QED BY <2>2, PlainOfKinds
<1> HIDE DEF a, t, b, tr
<1>4. /\ IsList(x) /\ Len(x) = 1 /\ x[1] = a /\ IsList(u) /\ Len(u) = 1 /\ u[1] = t
      /\ IsList(v) /\ Len(v) = 1 /\ v[1] = b
  BY LiteralLists
<1> HIDE DEF x, u, v
<1>5. Due(x, open, done) /\ Due(u, open, done) /\ Plain(v)
  <2>1. \A i \in 1 .. 1 : i = 1
    OBVIOUS
  <2>2. Answers(a) /\ ~Deals(a) /\ ~Answers(t) /\ ~Answers(b) /\ ~Deals(b)
    BY <1>1 DEF Answers, Deals
  <2>3. \A i, j \in 1 .. 1 : ~(i < j)
    OBVIOUS
  <2>4. Due(x, open, done)
    BY <1>1, <1>4, <2>1, <2>2, <2>3 DEF Due
  <2>5. Due(u, open, done)
    BY <1>1, <1>4, <2>1, <2>2, <2>3 DEF Due
  <2>6. Plain(v)
    BY <1>4, <2>1, <2>2 DEF Plain
  <2> QED BY <2>4, <2>5, <2>6
<1>6. Due(x \o r, open, done)
  BY <1>3, <1>5, DuePlainMore
<1>7. Due(tr, open, done)
  BY <1>2, <1>5, DuePlainMore
<1>8. Apart(x \o r, tr)
  <2> DEFINE K == {"OrderResponse", "TpslUpdated"}
             m == x \o r
  <2>1. Kinds(x, K)
    BY <1>1, <1>4 DEF Kinds
  <2>2. Kinds(r, K)
    BY <1>3 DEF Kinds
  <2>3. Kinds(m, K)
    <3> HIDE DEF K
    <3> QED BY <1>3, <1>4, <2>1, <2>2, KindsConcat DEF Plain
  <2> HIDE DEF m
  <2>4. \A i \in 1 .. Len(m) : ~Deals(m[i])
    BY <2>3 DEF Kinds, Deals
  <2>5. Apart(m, tr)
    BY <2>4 DEF Apart
  <2> QED BY <2>5 DEF m
<1>9. Due((x \o r) \o tr, open, done)
  BY <1>6, <1>7, <1>8, DueConcat
<1> QED BY <1>9 DEF x, tr, a, t, b

-----------------------------------------------------------------------------
(* The order manager knows every order of which the loop still has something to say. *)
Ledger ==
  /\ created \subseteq Orders /\ m_orders \subseteq created /\ traded \subseteq created
  /\ Due(queue.normal, m_orders, traded)
  /\ strayResponses = {} /\ \A o \in Orders : unsolicited[o] = 0

LEMMA RestDue ==
  ASSUME NEW open, NEW done, Due(queue.normal, open, done), NEW n, Rest(n)
  PROVE  Due(n, open, done)
<1> DEFINE q == queue.normal
<1>1. q # <<>> => Due(Tail(q), open, done)
  <2> HIDE DEF q
  <2>1. Due(q, open, done)
    BY DEF q
  <2> QED BY <2>1, DueTail
<1>2. n = q \/ (q # <<>> /\ (n = Tail(q) \/ \E D : n = Without(Tail(q), D)))
  BY DEF Rest
<1>3. \A D : q # <<>> => Due(Without(Tail(q), D), open, done)
  BY <1>1, DueWithout
<1> HIDE DEF q
<1> QED BY <1>1, <1>2, <1>3 DEF q

(* The handlers that have no business with orders *)
LEMMA LedgerKept ==
  ASSUME Ledger, UNCHANGED omVars, NEW n, Rest(n), NEW l, Plain(l),
         queue'.normal = n \o l
  PROVE  Ledger'
<1>1. UNCHANGED <<created, m_orders, traded, strayResponses, unsolicited>>
  BY DEF omVars
<1>2. Due(n, m_orders, traded)
  BY RestDue DEF Ledger
<1>3. Due(n \o l, m_orders, traded)
  BY <1>2, DuePlainMore
<1> QED BY <1>1, <1>3 DEF Ledger

LEMMA LedgerGets ==
  ASSUME Ledger, UNCHANGED omVars, NEW K, Gets(K), K \cap {"OrderResponse", "Trade"} = {}
  PROVE  Ledger'
<1>1. PICK n, l : Rest(n) /\ IsList(l) /\ Kinds(l, K) /\ queue'.normal = n \o l
  BY DEF Gets
<1>2. Plain(l)
  BY <1>1, PlainOfKinds
<1> QED BY <1>1, <1>2, LedgerKept

LEMMA LedgerTakes ==
  ASSUME Books, Ledger, UNCHANGED omVars, NEW n, Rest(n), queue'.normal = n
  PROVE  Ledger'
<1>1. IsQueue(queue)
  BY DEF Books, Shapes
<1>2. Gets({})
  BY <1>1, GetsNothing
<1>3. {} \cap {"OrderResponse", "Trade"} = {}
  OBVIOUS
<1> QED BY <1>2, <1>3, LedgerGets

(* The response comes before the trade, so the entry of the order is there. *)
LEMMA LedgerAnswered ==
  ASSUME Books, Ledger, HandleOrderResponse
  PROVE  Ledger'
<1> DEFINE q == queue.normal
           o == Next_Event.guid
<1>1. q # <<>> /\ Next_Event = Head(q) /\ queue'.normal = Tail(q)
  BY TakersPush
<1>2. Answers(Head(q)) /\ o = Head(q).guid
  BY <1>1 DEF HandleOrderResponse, Runs, Answers
<1>3. /\ Due(Tail(q), m_orders, traded) /\ o \in m_orders /\ o \notin traded
  <2> HIDE DEF q, o
  <2> QED BY <1>1, <1>2, DueTail DEF Ledger, q
<1>4. on_order_response(o, "ack")
  BY DEF HandleOrderResponse
<1>5. UNCHANGED <<created, m_orders, traded, strayResponses, unsolicited>>
  <2> HIDE DEF o
  <2> QED BY <1>3, <1>4 DEF on_order_response, ResponseCompletes
<1> HIDE DEF q, o
<1> QED BY <1>1, <1>3, <1>5 DEF Ledger

LEMMA LedgerTraded ==
  ASSUME Books, Ledger, HandleOrderTrade
  PROVE  Ledger'
<1> DEFINE q == queue.normal
           o == Next_Event.guid
           vol == IF Next_Event.volume < 0 THEN -Next_Event.volume ELSE Next_Event.volume
<1>1. q # <<>> /\ Next_Event = Head(q) /\ queue'.normal = Tail(q)
  BY TakersPush
<1>2. Deals(Head(q)) /\ o = Head(q).guid /\ on_trade(o, vol)
  BY <1>1 DEF HandleOrderTrade, Runs, Deals
<1> HIDE DEF q, o, vol
<1>3. Due(q, m_orders, traded) /\ o \in m_orders
  BY <1>1, <1>2, DueTail DEF Ledger, q
<1>4. try_trade_market_order(o, vol) \/ try_trade_conditional(o, vol)
  BY <1>2, <1>3 DEF on_trade
<1>5. /\ m_orders' \subseteq m_orders /\ m_orders \ {o} \subseteq m_orders'
      /\ traded' \subseteq traded \cup {o}
      /\ UNCHANGED <<created, strayResponses, unsolicited>>
  BY <1>4 DEF try_trade_market_order, try_trade_conditional, EraseOrder
<1>6. Due(Tail(q), m_orders', traded')
  BY <1>1, <1>2, <1>3, <1>5, DueDeal
<1> QED BY <1>1, <1>3, <1>5, <1>6 DEF Ledger

LEMMA LedgerSent ==
  ASSUME Books, Ledger, NEW q, IsQueue(q), Rest(q.normal), NEW vol \in Int,
         SendOrder(q, vol)
  PROVE  Ledger'
<1> DEFINE o     == NextGuid(Orders, created)
           price == gateway.m_last_price
           x     == <<OrderResponseEvent(o)>>
           tr    == <<TradeEvent(o, vol, price),
                      [event |-> "InstanceTrade", volume |-> vol, price |-> price]>>
           size  == IF vol < 0 THEN -vol ELSE vol
<1>1. PICK r : /\ r = <<>> \/ \E g : r = <<TpslUpdatedEvent(g, FALSE, FALSE, FALSE)>>
               /\ queue'.normal = q.normal \o ((x \o r) \o tr)
  BY OrderSent DEF Books
<1>2. send_market_order(o, size, FALSE)
  BY DEF SendOrder
<1> DEFINE l == (x \o r) \o tr
<1>3. /\ o \in Orders \ created /\ created' = created \cup {o}
      /\ m_orders' = m_orders \cup {o}
      /\ UNCHANGED <<traded, strayResponses, unsolicited>>
  <2> HIDE DEF o, size
  <2> QED BY <1>2 DEF send_market_order
<1>4. o \notin m_orders /\ o \notin traded
  BY <1>3 DEF Ledger
<1>5. ASSUME NEW open, o \in open
      PROVE  Due(l, open, traded)
  <2> HIDE DEF o, price
  <2> QED BY <1>1, <1>4, <1>5, DueOrder
<1> HIDE DEF o, l, size
<1>6. Due(q.normal, m_orders, traded)
  BY RestDue DEF Ledger
<1>7. Apart(q.normal, l)
  <2>1. Due(l, {o}, traded) /\ m_orders \cap {o} = {}
    BY <1>4, <1>5
  <2> QED BY <1>6, <2>1, DueApart
<1>8. Due(q.normal, m_orders', traded) /\ Due(l, m_orders', traded)
  BY <1>3, <1>5, <1>6, DueMore
<1>9. Due(q.normal \o l, m_orders', traded)
  BY <1>7, <1>8, DueConcat
<1> QED BY <1>1, <1>3, <1>9 DEF Ledger, l

LEMMA LedgerOrders ==
  ASSUME Books, Ledger, HandleStop \/ \E side \in {-1, 0, 1} : HandleSignal(side)
  PROVE  Ledger'
<1>1. PICK k \in {"Stop", "SignalToEntry"} :
        /\ Runs(k)
        /\ \/ queue' = Popped /\ UNCHANGED omVars
           \/ \E vol \in Int : SendOrder(Popped, vol)
  <2>1. CASE HandleStop
    <3>1. m_opened_position # None => -m_opened_position.volume \in Int
      BY DEF Books, Shapes, IsPosition
    <3> QED BY <2>1, <3>1 DEF HandleStop
  <2>2. CASE \E side \in {-1, 0, 1} : HandleSignal(side)
    BY <2>2 DEF HandleSignal
  <2> QED BY <2>1, <2>2
<1>2. k \in NormalKinds
  BY DEF NormalKinds, GatewayKinds
<1>3. IsQueue(Popped) /\ Rest(Popped.normal)
  BY <1>1, <1>2, TakesHead, DiscardedRests
<1>4. CASE queue' = Popped /\ UNCHANGED omVars
  <2>1. queue'.normal = Popped.normal
    BY <1>4
  <2> QED BY <1>3, <1>4, <2>1, LedgerTakes
<1> QED BY <1>1, <1>3, <1>4, LedgerSent

LEMMA LedgerNewExit ==
  ASSUME Ledger, UNCHANGED omVars, NEW n, NewExit(n)
  PROVE  Ledger'
<1> DEFINE K == {"TpslUpdated", "TrailingUpdated"}
<1>1. Rest(n) /\ IsList(n)
  BY DEF NewExit
<1>2. K \cap {"OrderResponse", "Trade"} = {}
  OBVIOUS
<1>3. ASSUME NEW e, e.event \in K, queue'.normal = n \o <<e>>
      PROVE  Ledger'
  <2> DEFINE l == <<e>>
  <2> HIDE DEF K
  <2>1. IsList(l) /\ Kinds(l, K)
    BY <1>3, KindsOfOne
  <2> HIDE DEF l
  <2>2. Plain(l)
    BY <1>2, <2>1, PlainOfKinds
  <2> QED BY <1>1, <1>3, <2>2, LedgerKept DEF l
<1>4. PICK g : \/ \E fields, e, tp, sl : NewTpsl(n, g, fields, e, tp, sl)
               \/ \E side, distance, stop : NewTrailing(n, g, side, distance, stop)
  BY DEF NewExit
<1>5. ASSUME NEW fields, NEW e, NEW tp, NEW sl, NewTpsl(n, g, fields, e, tp, sl)
      PROVE  Ledger'
  <2>1. e.event \in K /\ queue'.normal = n \o <<e>>
    BY <1>5 DEF NewTpsl
  <2> QED BY <1>3, <2>1
<1>6. ASSUME NEW side, NEW distance, NEW stop, NewTrailing(n, g, side, distance, stop)
      PROVE  Ledger'
  <2> DEFINE e == TrailingUpdatedEvent({stop})
  <2>1. e.event \in K /\ queue'.normal = n \o <<e>>
    BY <1>6 DEF NewTrailing, TrailingUpdatedEvent
  <2> HIDE DEF e
  <2> QED BY <1>3, <2>1
<1> HIDE DEF K
<1> QED BY <1>4, <1>5, <1>6

LEMMA LedgerPriced ==
  ASSUME Books, Alone, Ledger, NEW price, NEW candles \in 0 .. MaxCandles,
         HandlePrice(price, candles)
  PROVE  Ledger'
<1>1. Early(queue'.normal)
  BY PricedEarly DEF Alone
<1>2. Plain(queue'.normal)
  BY <1>1, PlainOfEarly
<1>3. UNCHANGED <<created, m_orders, traded, strayResponses, unsolicited>>
  BY DEF HandlePrice, omVars
<1>4. Due(queue'.normal, m_orders, traded)
  BY <1>2, DuePlain
<1> QED BY <1>3, <1>4 DEF Ledger

LEMMA LedgerStep ==
  ASSUME started, Books, Stops, Alone, Ledger, [Next]_vars
  PROVE  Ledger'
<1> DEFINE q == queue.normal
<1>0. /\ ~HandleStart /\ IsQueue(queue) /\ Rest(q) /\ issued \subseteq ExitOrders
      /\ q # <<>> => Rest(Tail(q))
  BY NeverStart DEF HandleStart, Books, Shapes, Rest, Stops
<1>1. \A K : K \subseteq {"Stop", "ExitUpdated", "ExitError", "PriceLevels", "OpenedPosToEntry",
                          "OpenedPosToExit", "TradeToExit"} =>
               K \cap {"OrderResponse", "Trade"} = {}
  OBVIOUS
<1>2. CASE run_async \/ stop_async \/ AnswerOwn \/ AnswerForeign \/ HandleGenerator \/ HandleError
  <2>1. PICK l : IsList(l) /\ Kinds(l, {"Stop"}) /\ queue'.normal = q \o l
    BY <1>2, OthersPush
  <2>2. Gets({"Stop"})
    BY <1>0, <2>1 DEF Gets
  <2>3. UNCHANGED omVars
    BY <1>2 DEF run_async, stop_async, AnswerOwn, AnswerForeign, HandleGenerator, HandleError
  <2> QED BY <1>1, <2>2, <2>3, LedgerGets
<1>3. CASE \/ HandleStopThrows \/ ForwardError \/ HandleOpenedPos
           \/ on_exit_trade \/ exit_on_opened_pos \/ exit_on_price_levels
  <2>1. q # <<>> /\ queue'.normal = Tail(q)
    BY <1>3, TakersPush
  <2>2. UNCHANGED omVars
    BY <1>3 DEF HandleStopThrows, ForwardError, HandleOpenedPos, on_exit_trade,
                exit_on_opened_pos, exit_on_price_levels
  <2> QED BY <1>0, <2>1, <2>2, LedgerTakes
<1>4. CASE HandleOrderResponse \/ HandleOrderTrade
  BY <1>4, LedgerAnswered, LedgerTraded
<1>5. CASE HandleStop \/ \E side \in {-1, 0, 1} : HandleSignal(side)
  BY <1>5, LedgerOrders
<1>6. CASE HandleTrade
  <2>1. Gets({"PriceLevels", "OpenedPosToEntry", "OpenedPosToExit", "TradeToExit"})
    BY <1>6, TradePush
  <2>2. UNCHANGED omVars
    BY <1>6 DEF HandleTrade
  <2> QED BY <1>1, <2>1, <2>2, LedgerGets
<1>7. CASE tpsl_on_updated \/ on_trailing_stop_updated
  <2>1. Gets({"ExitError"})
    BY <1>7, UpdatedPush
  <2>2. UNCHANGED omVars
    BY <1>7 DEF tpsl_on_updated, on_trailing_stop_updated
  <2> QED BY <1>1, <2>1, <2>2, LedgerGets
<1>8. CASE on_tpsl_reposnse \/ on_trailing_stop_response
  <2>1. PICK l : /\ q # <<>> /\ IsList(l) /\ Kinds(l, {"ExitUpdated"})
                 /\ queue'.normal = Tail(q) \o l
    BY <1>8, AnswersPush
  <2>2. Gets({"ExitUpdated"})
    BY <1>0, <2>1 DEF Gets
  <2>3. UNCHANGED omVars
    BY <1>8 DEF on_tpsl_reposnse, on_trailing_stop_response
  <2> QED BY <1>1, <2>2, <2>3, LedgerGets
<1>9. CASE exit_on_trade \/ on_price_changed
  <2>1. /\ q # <<>>
        /\ queue'.normal = Tail(q) \/ \E n : NewExit(n)
    BY <1>0, <1>9, ExitsPush
  <2>2. UNCHANGED omVars
    BY <1>9 DEF exit_on_trade, on_price_changed
  <2> QED BY <1>0, <2>1, <2>2, LedgerTakes, LedgerNewExit
<1>10. CASE \E price \in Prices, candles \in 0 .. MaxCandles : HandlePrice(price, candles)
  BY <1>10, LedgerPriced
<1>11. CASE UNCHANGED vars
  <2>1. queue'.normal = q /\ UNCHANGED omVars
    BY <1>11 DEF vars
  <2> QED BY <1>0, <2>1, LedgerTakes
<1> QED BY <1>0, <1>2, <1>3, <1>4, <1>5, <1>6, <1>7, <1>8, <1>9, <1>10, <1>11
        DEF Next, LoopStep, ExitHandlers

LEMMA IdleLedger ==
  ASSUME Before \/ Fresh
  PROVE  Ledger
<1> DEFINE q == queue.normal
           K == {"Start", "Stop"}
<1>1. IsList(q) /\ Kinds(q, K) /\ K \cap {"OrderResponse", "Trade"} = {}
  BY IdleQueue
<1>2. Plain(q)
  <2> HIDE DEF q, K
  <2> QED BY <1>1, PlainOfKinds
<1>3. /\ created = {} /\ m_orders = {} /\ traded = {} /\ strayResponses = {}
      /\ unsolicited = [g \in Fillable |-> 0]
  BY DEF Before, Fresh, Idle
<1>4. \A o \in Orders : unsolicited[o] = 0
  BY <1>3 DEF Fillable
<1>5. Due(q, m_orders, traded)
  BY <1>2, DuePlain
<1> QED BY <1>3, <1>4, <1>5 DEF Ledger

LEMMA IdleLedgerNext == (Before \/ Fresh => Ledger)'
<1>1. Before \/ Fresh => Ledger
  BY IdleLedger
<1> QED BY <1>1, PTL

(* The inductive invariant of the order manager's errors *)
LedgerIsKept == LifeIsKept /\ Ledger

LEMMA LedgerIsKeptStep ==
  ASSUME LedgerIsKept, [Next]_vars
  PROVE  LedgerIsKept'
<1>1. LifeIsKept'
  BY LifeIsKeptStep DEF LedgerIsKept
<1>2. CASE started /\ Books
  BY <1>1, <1>2, LedgerStep DEF LedgerIsKept, LifeIsKept, AloneIsKept, StopsAreKept
<1>3. CASE Before
  BY <1>1, <1>3, BeforeStep, IdleLedgerNext DEF LedgerIsKept
<1> QED BY <1>2, <1>3 DEF LedgerIsKept, LifeIsKept, AloneIsKept, StopsAreKept, BooksAgree

(* Whatever waits in the loop, the order manager is never told of an order it does not
   have: a response comes before the trade that lets it forget the order, and no trade
   comes twice (OrderManager::on_order_response and on_trade push these errors); nor,
   until a stop, is it told of an exit order that it does not have. *)
THEOREM NothingIsUnsolicited == Spec => []NoAlarms
<1>1. Init => LedgerIsKept
  <2> SUFFICES ASSUME Init PROVE LedgerIsKept
    OBVIOUS
  <2>1. Before
    BY InitBefore
  <2> QED BY <2>1, InitLifeIsKept, IdleLedger DEF LedgerIsKept
<1>2. LedgerIsKept => NoAlarms
  BY DEF LedgerIsKept, LifeIsKept, Ledger, Life, NoAlarms
<1>3. LedgerIsKept /\ [Next]_vars => LedgerIsKept'
  BY LedgerIsKeptStep
<1> QED BY <1>1, <1>2, <1>3, PTL DEF Spec
=============================================================================
