------------------------------ MODULE Indicators ------------------------------
(***************************************************************************)
(* src/frontend/crypto/ta and util/CandleBuiler.cpp.  Each class is a      *)
(* record of its members, and its push operator returns the object after   *)
(* the push with the result in `out`: {} for std::nullopt, else {value}.   *)
(* Prices are integers, a trade is one lot.                                *)
(***************************************************************************)
EXTENDS Doubles, SequencesExt

CONSTANT Timeframe  \* of the candles, in units of the timestamps

-----------------------------------------------------------------------------
(* CandleBuilder: the candle that is being filled; ts 0 before the first trade *)
EmptyBuilder ==
  [ts |-> 0, open |-> 0, high |-> 0, low |-> 0, close |-> 0, buy |-> 0, sell |-> 0,
   trades |-> 0]

Higher(a, b) == IF a > b THEN a ELSE b
Lower(a, b)  == IF a < b THEN a ELSE b

SameCandle(b, t) ==
  [b EXCEPT !.high = Higher(@, t.price), !.low = Lower(@, t.price), !.close = t.price,
            !.buy = @ + t.bought, !.sell = @ + 1 - t.bought, !.trades = @ + 1]

NewCandle(b, t) ==
  [ts |-> (t.ts \div Timeframe) * Timeframe, open |-> t.price, high |-> t.price,
   low |-> t.price, close |-> t.price, buy |-> t.bought, sell |-> 1 - t.bought,
   trades |-> 1]

FlatCandle(period, close) ==
  [ts |-> period * Timeframe, open |-> close, high |-> close, low |-> close,
   close |-> close, buy |-> 0, sell |-> 0, trades |-> 0]

(* Mutant: the empty candles of a gap are one too few. *)
EmptyCandles_Short(start, period) == (start \div Timeframe) + 1 .. period - 2

(* The periods without trades between the candle that started at start and period *)
EmptyCandles(start, period) == (start \div Timeframe) + 1 .. period - 1

(* A trade is [ts, price, bought], bought being 1 for a taker that buys and 0 else. *)
push_trade(b, t) ==
  LET period == t.ts \div Timeframe
      gap    == EmptyCandles(b.ts, period)
  IN IF period = b.ts \div Timeframe
     THEN [builder |-> SameCandle(b, t), candles |-> <<>>]
     ELSE [builder |-> NewCandle(b, t),
           candles |-> IF b.ts = 0 THEN <<>>
                       ELSE <<b>> \o [i \in 1 .. Cardinality(gap) |->
                                        FlatCandle((b.ts \div Timeframe) + i, b.close)]]

close_ts(c) == c.ts + Timeframe
side(c) == IF c.close > c.open THEN 1 ELSE -1
price_diff(c) == c.close - c.open
price_diff_coef(c) == Over(c.close - c.open, c.open)

(* unsigned_coef, and the side, which is to buy if nothing was traded *)
volume_imbalance_coef(c) ==
  [coef |-> Absolute(Over(c.buy - c.sell, c.buy + c.sell)),
   side |-> IF c.buy < c.sell THEN -1 ELSE 1]

-----------------------------------------------------------------------------
(* SimpleMovingAverage: one value leaves for each that arrives, once the values span
   the interval. *)
EmptySma == [data |-> <<>>, sum |-> 0, out |-> {}]

SmaPush(m, interval, ts, value) ==
  LET data == Append(m.data, [ts |-> ts, value |-> value])
      sum  == m.sum + value
      old  == Head(data)
  IN IF ts - old.ts < interval THEN [data |-> data, sum |-> sum, out |-> {}]
     ELSE [data |-> Tail(data), sum |-> sum - old.value,
           out |-> {Over(sum - old.value, Len(data) - 1)}]

(* TimeWeightedMovingAverage: a value weighs as long as it stood, which is known when
   the next one arrives; again one value leaves for each that arrives. *)
EmptyTwma == [data |-> <<>>, sum |-> Double(0), total |-> Double(0), out |-> {}]

Weighed(m, weight) ==
  LET value == Last(m.data).value IN
  [m EXCEPT !.data[Len(m.data)].weight = weight,
            !.sum = Plus(@, Times(value, weight)), !.total = Plus(@, weight)]

Windowed(m, old, interval, point) ==
  IF old.ts + interval > point.ts THEN [m EXCEPT !.data = Append(@, point), !.out = {}]
  ELSE [data |-> Append(Tail(m.data), point),
        sum |-> Minus(m.sum, Times(old.value, old.weight)),
        total |-> Minus(m.total, old.weight), out |-> {DividedBy(m.sum, m.total)}]

TwmaPush(m, interval, ts, value) ==
  LET point == [ts |-> ts, value |-> value, weight |-> Double(0)] IN
  IF m.data = <<>> \/ ts < Last(m.data).ts
  THEN [m EXCEPT !.data = Append(@, point), !.out = {}]
  ELSE LET w == Weighed(m, Over(ts - Last(m.data).ts, interval)) IN
       Windowed(w, Head(w.data), interval, point)

(* StandardDeviation, as the mean and the variance *)
EmptyStd == [data |-> <<>>, out |-> {}, sum |-> 0, sq_sum |-> 0]

StdPush(m, interval, ts, value) ==
  LET all  == Append(m.data, [ts |-> ts, value |-> value])
      old  == SelectSeq(all, LAMBDA d : d.ts < ts - interval)
      data == SelectSeq(all, LAMBDA d : d.ts >= ts - interval)
      sum  == m.sum + value - FoldSeq(LAMBDA d, s : d.value + s, 0, old)
      sq   == m.sq_sum + value * value - FoldSeq(LAMBDA d, s : d.value * d.value + s, 0, old)
      n    == Len(data)
  IN [data |-> data, sum |-> sum, sq_sum |-> sq,
      out |-> IF n < 2 THEN {}
              ELSE {[mean |-> Over(sum, n), variance |-> Over(n * sq - sum * sum, n * n)]}]

(* std / mean * 100 > perc, and < perc *)
RelativeStdAbove(s, perc) == Above(DividedBy(s.variance, Times(s.mean, s.mean)), Over(perc * perc, 10000))
RelativeStdBelow(s, perc) == Above(Over(perc * perc, 10000), DividedBy(s.variance, Times(s.mean, s.mean)))

-----------------------------------------------------------------------------
(* BollingerBands: the trend does not know the value just pushed, the deviation does. *)
EmptyBands == [std |-> EmptyStd, trend |-> EmptyTwma, out |-> {}]

BandsPush(b, interval, ts, price) ==
  LET std   == StdPush(b.std, interval, ts, price)
      trend == TwmaPush(b.trend, interval, ts, Double(price))
  IN [std |-> std, trend |-> trend,
      out |-> {[trend |-> t, variance |-> s.variance] : t \in trend.out, s \in std.out}]

(* price > trend + coef * std, price < trend - coef * std *)
OutsideBand(distance, bands, coef) ==
  /\ Above(distance, Double(0))
  /\ Above(Times(distance, distance), Times(Double(coef * coef), bands.variance))

AboveUpperBand(price, bands, coef) == OutsideBand(Minus(Double(price), bands.trend), bands, coef)
BelowLowerBand(price, bands, coef) == OutsideBand(Minus(bands.trend, Double(price)), bands, coef)

-----------------------------------------------------------------------------
(* Mutant: one value too many is kept. *)
AverageOf_Longer(data, interval, value) ==
  LET all == Append(data, value) IN
  [data |-> IF Len(all) > interval + 1 THEN Tail(all) ELSE all, full |-> Len(all) >= interval]

(* RelativeStrengthIndex::Average: what it keeps, and whether that is the interval *)
AverageOf(data, interval, value) ==
  LET all == Append(data, value) IN
  [data |-> IF Len(all) > interval THEN Tail(all) ELSE all, full |-> Len(all) >= interval]

EmptyRsi == [positive |-> <<>>, negative |-> <<>>, out |-> {}]

Sum(data) == FoldSeq(LAMBDA v, s : v + s, 0, data)

RsiPush(r, interval, c) ==
  LET diff == price_diff(c)
      pos  == AverageOf(r.positive, interval, Higher(diff, 0))
      neg  == AverageOf(r.negative, interval, Higher(-diff, 0))
      rs   == Over(Sum(pos.data), Sum(neg.data))
  IN [positive |-> pos.data, negative |-> neg.data,
      out |-> IF ~pos.full THEN {}
              ELSE {Minus(Double(100), DividedBy(Double(100), Plus(Double(1), rs)))}]

-----------------------------------------------------------------------------
(* Ratchet: a stop that follows the price; retracement is one part in `part`. *)
EmptyRatchet == [inited |-> FALSE, flipped |-> FALSE, trend |-> 0, last |-> Double(0),
                 out |-> FALSE]

Retracement(price, part, trend) == Over(price * (part - trend), part)
price_diff_sign(r, price) == IF Above(price, r.last) THEN 1 ELSE -1

RatchetPush(r, part, price) ==
  LET sign == price_diff_sign(r, Double(price))
      next == Retracement(price, part, r.trend)
  IN IF ~r.inited
     THEN [r EXCEPT !.inited = TRUE, !.trend = 1, !.last = Retracement(price, part, 1)]
     ELSE IF sign # r.trend
     THEN [r EXCEPT !.trend = sign, !.last = Retracement(price, part, sign),
                    !.flipped = TRUE, !.out = r.flipped]
     ELSE IF price_diff_sign(r, next) # r.trend THEN [r EXCEPT !.out = FALSE]
     ELSE [r EXCEPT !.last = next, !.out = FALSE]

-----------------------------------------------------------------------------
(* AverageDirectionalIndex; before the first candle the high and the low are zero. *)
EmptyAdx == [prev |-> {}, atr |-> EmptyTwma, pdm |-> EmptyTwma, ndm |-> EmptyTwma,
             adx |-> EmptyTwma, out |-> {}]

directional_movement(prev, c) ==
  LET ph  == IF prev = {} THEN 0 ELSE (CHOOSE p \in prev : TRUE).high
      pl  == IF prev = {} THEN 0 ELSE (CHOOSE p \in prev : TRUE).low
      pos == Higher(c.high - ph, 0)
      neg == Higher(pl - c.low, 0)
  IN [positive |-> IF pos > neg THEN pos ELSE 0, negative |-> IF pos > neg THEN 0 ELSE neg]

Distance(a, b) == Higher(a - b, b - a)

true_range(prev, c) ==
  IF prev = {} THEN c.high - c.low
  ELSE LET p == CHOOSE p \in prev : TRUE IN
       Higher(c.high - c.low, Higher(Distance(c.high, p.close), Distance(c.low, p.close)))

(* dx, with its factor 100 taken out: 0/0 if nothing has moved *)
DirectionalIndex(atr, pdm, ndm) ==
  LET pdi == DividedBy(pdm, atr)
      ndi == DividedBy(ndm, atr)
  IN Absolute(DividedBy(Minus(pdi, ndi), Plus(pdi, ndi)))

Averaged(a, interval, c, dm) ==
  [a EXCEPT !.prev = {c}, !.out = {},
            !.atr = TwmaPush(@, interval, close_ts(c), Double(true_range(a.prev, c))),
            !.pdm = TwmaPush(@, interval, close_ts(c), Double(dm.positive)),
            !.ndm = TwmaPush(@, interval, close_ts(c), Double(dm.negative))]

Smoothed(a, interval, ts, dx) ==
  LET adx == TwmaPush(a.adx, interval, ts, dx) IN [a EXCEPT !.adx = adx, !.out = adx.out]

Directed(a, interval, ts) ==
  LET dx == {DirectionalIndex(r, p, n) : r \in a.atr.out, p \in a.pdm.out, n \in a.ndm.out}
  IN IF dx = {} THEN a ELSE Smoothed(a, interval, ts, CHOOSE d \in dx : TRUE)

AdxPush(a, interval, c) ==
  Directed(Averaged(a, interval, c, directional_movement(a.prev, c)), interval, close_ts(c))
=============================================================================
