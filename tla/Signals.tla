-------------------------------- MODULE Signals --------------------------------
(***************************************************************************)
(* The entry strategies of src/frontend/crypto/strategy, fed as the        *)
(* instance feeds them (StrategyInstance.cpp:385-408): every trade is a    *)
(* price, and completes the candles before it.                             *)
(*                                                                         *)
(* A strategy is a record of its members; signal is the side it passed to  *)
(* try_send_order in the push, {} if it did not.  Whether an order follows *)
(* is StrategyInstance's; what is sent to the charts is left out.          *)
(***************************************************************************)
EXTENDS Indicators

CONSTANTS
  Ticks,                       \* what can be traded: [price, bought, gap], gap being the
                               \* time since the trade before
  MaxTrades,                   \* bound: trades of one run
  FastInterval, SlowInterval,  \* of DoubleSma and DSMADiff
  DiffThresholdPerc,           \* of DSMADiff
  Candles,                     \* every other interval, in candles
  StdCoef,                     \* of the three strategies with bands
  CandlesThreshold,            \* of CandleBollingerBands
  Margin,                      \* of BBRSI and RelativeStrengthIndex
  SignalPerc, TriggerInterval, \* of RateOfChange
  RetracementPart,             \* of Ratchet: 1 / retracement
  MinPriceDiffPerc, MaxStdDevPerc,  \* of TrendCatcher
  MinImbalancePerc, MinChangePerc, MinTradeRatePerc, MaxVolatilityPerc,
                               \* of VolumeImbalanceTrend
  AdxThresholdPerc,            \* of DynamicGridAdx
  MaxIter                      \* of DebugEveryTick: 10 in the code

VARIABLES
  now,              \* the timestamp of the last trade
  m_candle_builder, \* of the instance
  strategies,       \* the strategies, by name
  trades,           \* history: what was traded
  candles,          \* history: what the builder returned
  signals,          \* history: what each strategy signalled: [side, at], the latter being
                    \* the number of prices or candles it had seen
  trends            \* history: the trend Bollinger had with each price

vars == <<now, m_candle_builder, strategies, trades, candles, signals, trends>>

Interval == Candles * Timeframe

(* The is_valid of the configurations *)
IsValid_DoubleSma == SlowInterval > FastInterval
IsValid_DSMADiff == SlowInterval > FastInterval /\ DiffThresholdPerc > 0
IsValid_Bollinger == Interval > 0 /\ StdCoef > 0
IsValid_CandleBollinger == Interval > Timeframe /\ StdCoef > 0
IsValid_BBRSI == Timeframe > 0 /\ Candles > 0 /\ StdCoef > 0 /\ Margin > 0
IsValid_Rsi == Candles > 0 /\ Margin > 0
IsValid_RateOfChange == SignalPerc > 0 /\ TriggerInterval > 1
IsValid_Ratchet == RetracementPart > 1
IsValid_VolumeImbalance == MinImbalancePerc <= 100 /\ MinChangePerc <= 100

ASSUME MaxIterIsPositive == MaxIter \in Nat \ {0}

ASSUME ConfigurationsAreValid ==
  /\ IsValid_DoubleSma /\ IsValid_DSMADiff /\ IsValid_Bollinger /\ IsValid_CandleBollinger
  /\ IsValid_BBRSI /\ IsValid_Rsi /\ IsValid_RateOfChange /\ IsValid_Ratchet
  /\ IsValid_VolumeImbalance

-----------------------------------------------------------------------------
(* DoubleSmaStrategy *)
Init_DoubleSma == [fast |-> EmptySma, slow |-> EmptySma, prev |-> {}, signal |-> {}]

slow_above_fast(avg) == Above(avg.slow, avg.fast)

Crossed(prev, avg) == slow_above_fast(prev) # slow_above_fast(avg)

push_DoubleSma(x, ts, price) ==
  LET fast == SmaPush(x.fast, FastInterval, ts, price)
      slow == SmaPush(x.slow, SlowInterval, ts, price)
      avgs == {[fast |-> f, slow |-> s] : f \in fast.out, s \in slow.out}
  IN [fast |-> fast, slow |-> slow,
      prev |-> IF avgs = {} THEN x.prev ELSE avgs,
      signal |-> {IF slow_above_fast(a) THEN -1 ELSE 1 :
                    a \in {a \in avgs : \E p \in x.prev : Crossed(p, a)}}]

(* DSMADiffStrategy *)
Init_DSMADiff == [fast |-> EmptySma, slow |-> EmptySma, signal |-> {}]

push_DSMADiff(x, ts, price) ==
  LET fast  == SmaPush(x.fast, FastInterval, ts, price)
      slow  == SmaPush(x.slow, SlowInterval, ts, price)
      coefs == {DividedBy(Minus(f, s), s) : f \in fast.out, s \in slow.out}
      limit == Over(DiffThresholdPerc, 100)
  IN [fast |-> fast, slow |-> slow,
      signal |-> {1 : d \in {d \in coefs : Above(d, limit)}} \cup
                 {-1 : d \in {d \in coefs : Above(Minus(Double(0), limit), d)}}]

(* DebugEveryTickStrategy *)
Init_DebugEveryTick == [iteration |-> 0, last_side |-> -1, signal |-> {}]

push_DebugEveryTick(x) ==
  LET iteration == (x.iteration + 1) % MaxIter
      side_now  == IF iteration = 0 THEN -x.last_side ELSE x.last_side
  IN [iteration |-> iteration, last_side |-> side_now,
      signal |-> {side_now} \ {x.last_side}]

-----------------------------------------------------------------------------
(* The strategies with Bollinger bands *)

(* Mutant: a signal is over with the next price. *)
LastSignal_Forgotten(last, price, b) == 0

(* m_last_signal_side, 0 for nullopt: over once the price has crossed the trend *)
LastSignal(last, price, b) ==
  IF \/ last = 1 /\ Above(Double(price), b.trend)
     \/ last = -1 /\ Above(b.trend, Double(price))
  THEN 0 ELSE last

(* BollingerBandsStrategy *)
Init_Bollinger == [bands |-> EmptyBands, last |-> 0, signal |-> {}]

judge_Bollinger(x, price, b) ==
  LET signal == IF AboveUpperBand(price, b, StdCoef) THEN {-1}
                ELSE IF BelowLowerBand(price, b, StdCoef) THEN {1} ELSE {}
  IN IF x.last # 0 THEN [x EXCEPT !.last = LastSignal(@, price, b)]
     ELSE [x EXCEPT !.signal = signal, !.last = Sum(SetToSeq(signal))]

push_Bollinger(x, ts, price) ==
  LET quiet == [x EXCEPT !.bands = BandsPush(@, Interval, ts, price), !.signal = {}] IN
  IF quiet.bands.out = {} THEN quiet
  ELSE judge_Bollinger(quiet, price, CHOOSE b \in quiet.bands.out : TRUE)

(* CandleBollingerBandsStrategy; above is m_candles_above_price_trigger. *)
Init_CandleBollinger == [bands |-> EmptyBands, last |-> 0, above |-> 0, signal |-> {}]

judge_CandleBollinger(x, c, b) ==
  LET signal == IF /\ Distance(x.above, 0) <= CandlesThreshold
                   /\ x.above * side(c) < 0
                THEN side(c) ELSE 0
  IN IF x.last # 0 THEN [x EXCEPT !.last = LastSignal(@, c.close, b)]
     ELSE IF AboveUpperBand(c.close, b, StdCoef) /\ side(c) = 1
     THEN [x EXCEPT !.above = Higher(@, 0) + 1]
     ELSE IF BelowLowerBand(c.close, b, StdCoef) /\ side(c) = -1
     THEN [x EXCEPT !.above = Lower(@, 0) - 1]
     ELSE [x EXCEPT !.above = 0, !.last = signal, !.signal = {signal} \ {0}]

push_CandleBollinger(x, c) ==
  LET quiet == [x EXCEPT !.bands = BandsPush(@, Interval, close_ts(c), c.close),
                         !.signal = {}]
  IN IF quiet.bands.out = {} THEN quiet
     ELSE judge_CandleBollinger(quiet, c, CHOOSE b \in quiet.bands.out : TRUE)

(* BBRSIStrategy; zone is m_price_in_trigger_zone_bb. *)
Init_BBRSI == [bands |-> EmptyBands, rsi |-> EmptyRsi, last |-> 0, zone |-> FALSE,
               signal |-> {}]

judge_BBRSI(x, c, b, r) ==
  LET signal ==
        IF /\ Above(Double(c.close), b.trend) /\ Above(r, Double(100 - Margin))
           /\ side(c) = -1
        THEN -1
        ELSE IF /\ Above(b.trend, Double(c.close)) /\ Above(Double(Margin), r)
                /\ side(c) = 1
        THEN 1 ELSE 0
  IN IF x.last # 0 THEN [x EXCEPT !.last = LastSignal(@, c.close, b)]
     ELSE IF \/ AboveUpperBand(c.close, b, StdCoef) /\ side(c) = 1
             \/ BelowLowerBand(c.close, b, StdCoef) /\ side(c) = -1
     THEN [x EXCEPT !.zone = TRUE]
     ELSE IF ~x.zone THEN x
     ELSE [x EXCEPT !.zone = FALSE, !.last = signal, !.signal = {signal} \ {0}]

push_BBRSI(x, c) ==
  LET quiet == [x EXCEPT !.rsi = RsiPush(@, Candles, c),
                         !.bands = BandsPush(@, Interval, close_ts(c), c.close),
                         !.signal = {}]
  IN IF quiet.bands.out = {} \/ quiet.rsi.out = {} THEN quiet
     ELSE judge_BBRSI(quiet, c, CHOOSE b \in quiet.bands.out : TRUE,
                      CHOOSE r \in quiet.rsi.out : TRUE)

-----------------------------------------------------------------------------
(* RelativeStrengthIndexStrategy: NaN is between no limits, and is not above one. *)
Init_Rsi == [rsi |-> EmptyRsi, signal |-> {}]

push_Rsi(x, c) ==
  LET rsi   == RsiPush(x.rsi, Candles, c)
      upper == Double(100 - Margin)
      lower == Double(Margin)
  IN [rsi |-> rsi,
      signal |-> {IF Above(r, upper) THEN 1 ELSE -1 :
                    r \in {r \in rsi.out : ~(Above(upper, r) /\ Above(r, lower))}}]

-----------------------------------------------------------------------------
(* RateOfChangeStrategy: m_trigger_iter counts rising candles up and falling ones down. *)
Init_RateOfChange == [closes |-> <<>>, iter |-> 0, signal |-> {}]

SignOf(n) == IF n > 0 THEN 1 ELSE IF n < 0 THEN -1 ELSE 0

Triggered(iter) == iter >= TriggerInterval

push_RateOfChange(x, c) ==
  LET closes == IF x.closes = <<>> THEN <<c.close>> ELSE <<c.close, Head(x.closes)>>
      roc    == Over(c.close - Last(closes), Last(closes))
      limit  == Over(SignalPerc, 100)
      inZone == AtLeast(roc, limit) \/ AtLeast(Minus(Double(0), limit), roc)
      iter   == IF inZone /\ (x.iter = 0 \/ SignOf(x.iter) = side(c))
                THEN x.iter + side(c) ELSE 0
  IN [closes |-> closes, iter |-> iter,
      signal |-> IF ~Triggered(iter) THEN {} ELSE IF Above(roc, limit) THEN {1} ELSE {-1}]

-----------------------------------------------------------------------------
(* RatchetStrategy *)
Init_Ratchet == [ratchet |-> EmptyRatchet, signal |-> {}]

push_Ratchet(x, c) ==
  LET r == RatchetPush(x.ratchet, RetracementPart, c.close) IN
  [ratchet |-> r,
   signal |-> IF ~r.out THEN {} ELSE IF Above(Double(c.close), r.last) THEN {1} ELSE {-1}]

-----------------------------------------------------------------------------
(* TrendCatcherStrategy; market is what m_market_state_channel holds. *)
Init_TrendCatcher ==
  [slowDiff |-> EmptyTwma, fastDiff |-> EmptyTwma, slowStd |-> EmptyStd,
   fastStd |-> EmptyStd, market |-> "None", signal |-> {}]

TrendSignal(slow, fast) ==
  LET bound == Over(MinPriceDiffPerc, 100) IN
  IF /\ SignOf(slow.num) = SignOf(fast.num) /\ slow.num # 0
     /\ AtLeast(Absolute(slow), bound) /\ AtLeast(Absolute(fast), bound)
  THEN SignOf(fast.num) ELSE 0

(* update_market_state, and the signal *)
judge_TrendCatcher(x, signal) ==
  [x EXCEPT !.market = CASE signal = 0 -> "NoTrend" [] signal = 1 -> "UpTrend"
                         [] signal = -1 -> "DownTrend",
            !.signal = {signal} \ {0}]

Trends_TrendCatcher(x) ==
  {TrendSignal(s, f) : s \in x.slowDiff.out, f \in x.fastDiff.out}

decide_TrendCatcher(x) ==
  IF Trends_TrendCatcher(x) = {} \/ x.slowStd.out = {} \/ x.fastStd.out = {} THEN x
  ELSE IF \E s \in x.slowStd.out \cup x.fastStd.out : RelativeStdAbove(s, MaxStdDevPerc)
  THEN [x EXCEPT !.market = "HighVolatility"]
  ELSE judge_TrendCatcher(x, CHOOSE s \in Trends_TrendCatcher(x) : TRUE)

push_TrendCatcher(x, c) ==
  decide_TrendCatcher(
    [x EXCEPT !.slowDiff = TwmaPush(@, Interval, close_ts(c), price_diff_coef(c)),
              !.fastDiff = TwmaPush(@, Timeframe, close_ts(c), price_diff_coef(c)),
              !.slowStd = StdPush(@, Interval, close_ts(c), c.close),
              !.fastStd = StdPush(@, Timeframe, close_ts(c), c.close),
              !.signal = {}])

-----------------------------------------------------------------------------
(* VolumeImbalanceTrendStrategy *)
Init_VolumeImbalance == [rate |-> EmptyTwma, prevRate |-> {}, std |-> EmptyStd, signal |-> {}]

PriceDiffOk(diff) == Above(diff, Over(MinChangePerc, 100))

push_VolumeImbalance(x, c) ==
  LET rate      == TwmaPush(x.rate, Interval, close_ts(c), Double(c.trades))
      std       == StdPush(x.std, Interval, close_ts(c), c.close)
      imbalance == volume_imbalance_coef(c)
      diff      == price_diff_coef(c)
  IN [rate |-> rate, prevRate |-> rate.out, std |-> std,
      signal |->
        IF /\ \E s \in std.out : RelativeStdBelow(s, MaxVolatilityPerc)
           /\ rate.out # {}
           /\ \E r \in x.prevRate :
                Above(Double(c.trades), Times(r, Over(MinTradeRatePerc, 100)))
           /\ Above(imbalance.coef, Over(MinImbalancePerc, 100))
           /\ PriceDiffOk(diff)
           /\ (imbalance.side = 1) = AtLeast(diff, Double(0))
        THEN {imbalance.side} ELSE {}]

-----------------------------------------------------------------------------
(* DynamicGridAdxStrategy::is_banned, which DynamicGridWithBan calls for each candle *)
Init_DynamicGridAdx == [adx |-> EmptyAdx, ban_until |-> 0, banned |-> TRUE]

(* Mutant: whatever is not below the threshold bans. *)
BansFrom_NotBelow(adx) == ~AtLeast(Over(AdxThresholdPerc, 100), adx)

BansFrom(adx) == Above(adx, Over(AdxThresholdPerc, 100))

is_banned(x, c) ==
  LET adx   == AdxPush(x.adx, Interval, c)
      until == IF \E a \in adx.out : BansFrom(a) THEN c.ts + Interval ELSE x.ban_until
  IN [adx |-> adx, ban_until |-> until, banned |-> adx.out = {} \/ until > c.ts]

-----------------------------------------------------------------------------
CandleStrategies == {"CandleBollinger", "BBRSI", "Rsi", "RateOfChange", "Ratchet",
                     "TrendCatcher", "VolumeImbalance"}
PriceStrategies == {"DoubleSma", "DSMADiff", "Bollinger", "DebugEveryTick"}

Logged(log, strats, names, count) ==
  [n \in DOMAIN log |->
     IF n \in names
     THEN log[n] \o SetToSeq({[side |-> s, at |-> count] : s \in strats[n].signal})
     ELSE log[n]]

(* m_price_channel.push *)
push_price(all, t) ==
  LET next == [all.strategies EXCEPT !.DoubleSma = push_DoubleSma(@, t.ts, t.price),
                                     !.DSMADiff  = push_DSMADiff(@, t.ts, t.price),
                                     !.Bollinger = push_Bollinger(@, t.ts, t.price),
                                     !.DebugEveryTick = push_DebugEveryTick(@)]
  IN [all EXCEPT !.strategies = next,
                 !.signals = Logged(@, next, PriceStrategies, Len(trades) + 1)]

(* m_candle_channel.push *)
push_candle(all, c) ==
  LET next == [all.strategies EXCEPT !.CandleBollinger = push_CandleBollinger(@, c),
                                     !.BBRSI = push_BBRSI(@, c),
                                     !.Rsi = push_Rsi(@, c),
                                     !.RateOfChange = push_RateOfChange(@, c),
                                     !.Ratchet = push_Ratchet(@, c),
                                     !.TrendCatcher = push_TrendCatcher(@, c),
                                     !.VolumeImbalance = push_VolumeImbalance(@, c),
                                     !.DynamicGridAdx = is_banned(@, c)]
      seen == Append(all.candles, c)
  IN [strategies |-> next, candles |-> seen,
      signals |-> Logged(all.signals, next, CandleStrategies, Len(seen))]

Init ==
  /\ now = Timeframe
  /\ m_candle_builder = EmptyBuilder
  /\ strategies =
       [DoubleSma |-> Init_DoubleSma, DSMADiff |-> Init_DSMADiff,
        Bollinger |-> Init_Bollinger, DebugEveryTick |-> Init_DebugEveryTick,
        CandleBollinger |-> Init_CandleBollinger,
        BBRSI |-> Init_BBRSI, Rsi |-> Init_Rsi, RateOfChange |-> Init_RateOfChange,
        Ratchet |-> Init_Ratchet, TrendCatcher |-> Init_TrendCatcher,
        VolumeImbalance |-> Init_VolumeImbalance, DynamicGridAdx |-> Init_DynamicGridAdx]
  /\ trades = <<>> /\ candles = <<>> /\ trends = <<>>
  /\ signals = [n \in PriceStrategies \cup CandleStrategies |-> <<>>]

(* Every candle the trade has completed comes after its price. *)
Pushed(t, cs) ==
  FoldLeft(push_candle,
           push_price([strategies |-> strategies, candles |-> candles, signals |-> signals], t),
           cs)

Become(all) ==
  /\ strategies' = all.strategies
  /\ candles' = all.candles
  /\ signals' = all.signals
  /\ trends' = Append(trends, {v.trend : v \in all.strategies.Bollinger.bands.out})

Handle(t, b) ==
  /\ now' = t.ts
  /\ trades' = Append(trades, t)
  /\ m_candle_builder' = b.builder
  /\ Become(Pushed(t, b.candles))

(* StrategyInstance::handle_event(MDPriceEvent) *)
PriceArrives(tick) ==
  LET t == [ts |-> now + tick.gap, price |-> tick.price, bought |-> tick.bought] IN
  /\ Len(trades) < MaxTrades
  /\ Handle(t, push_trade(m_candle_builder, t))

Next == \E tick \in Ticks : PriceArrives(tick)

Spec == Init /\ [][Next]_vars

-----------------------------------------------------------------------------
Period(t) == t.ts \div Timeframe

(* What a candle of a period has to be, from all that was traded. *)
CandleOf(p) ==
  LET own    == SelectSeq(trades, LAMBDA t : Period(t) = p)
      before == SelectSeq(trades, LAMBDA t : Period(t) < p)
      price  == {own[i].price : i \in DOMAIN own}
      bought == Len(SelectSeq(own, LAMBDA t : t.bought = 1))
  IN IF own = <<>> THEN FlatCandle(p, Last(before).price)
     ELSE [ts |-> p * Timeframe, open |-> Head(own).price, high |-> Max(price),
           low |-> Min(price), close |-> Last(own).price, buy |-> bought,
           sell |-> Len(own) - bought, trades |-> Len(own)]

(* CandleBuiler.h:6-13: whatever the times of the trades, the candles are those of all the
   periods from the first trade's to the one before the last trade's, each once, in order,
   made of the trades of its own period, and flat at the close before if it had none. *)
CandlesAreTheTrades ==
  trades # <<>> =>
    LET first == Period(Head(trades)) IN
    candles = [i \in 1 .. Period(Last(trades)) - first |-> CandleOf(first + i - 1)]

Closes == [i \in DOMAIN candles |-> candles[i].close]
SumOf(values, first, last) == FoldLeft(Plus, Double(0), SubSeq(values, first, last))

(* The time weighted mean of values, one a candle, when the k-th comes: of the Candles
   values before it. *)
MeanBefore(values, k) ==
  IF k <= Candles THEN {} ELSE {DividedBy(SumOf(values, k - Candles, k - 1), Double(Candles))}

Trend(k) == MeanBefore([i \in DOMAIN candles |-> Double(candles[i].close)], k)

(* The variance of the last Candles + 1 closes *)
Variance(k) ==
  LET w    == SubSeq(Closes, Higher(1, k - Candles), k)
      n    == Len(w)
      mean == Over(Sum(w), n)
      sq   == [i \in 1 .. n |-> Times(Minus(Double(w[i]), mean), Minus(Double(w[i]), mean))]
  IN IF n < 2 THEN {} ELSE {DividedBy(SumOf(sq, 1, n), Double(n))}

Rsi(k) ==
  LET w     == [i \in 1 .. Candles |-> price_diff(candles[k - Candles + i])]
      gain  == Sum([i \in 1 .. Candles |-> Higher(w[i], 0)])
      moved == Sum([i \in 1 .. Candles |-> Distance(w[i], 0)])
  IN IF k < Candles THEN {} ELSE {Over(100 * gain, moved)}

Before(k) == IF k = 1 THEN {} ELSE {candles[k - 1]}
Movement(k) == directional_movement(Before(k), candles[k])

(* The directional index of candle k; 0/0 if there was no range before it, or no movement *)
Dx(k) ==
  LET up    == MeanBefore([i \in DOMAIN candles |-> Double(Movement(i).positive)], k)
      down  == MeanBefore([i \in DOMAIN candles |-> Double(Movement(i).negative)], k)
      still == \A i \in k - Candles .. k - 1 : true_range(Before(i), candles[i]) = 0
  IN {IF still THEN NaN ELSE Absolute(DividedBy(Minus(u, d), Plus(u, d))) :
        u \in up, d \in down}

Adx(k) ==
  LET dxs == [i \in 1 .. k - Candles |-> CHOOSE d \in Dx(Candles + i) : TRUE]
      n   == Len(dxs)
  IN IF k <= 2 * Candles THEN {}
     ELSE IF NaN \in {dxs[i] : i \in 1 .. n - 1} THEN {NaN} ELSE MeanBefore(dxs, n)

(* The windows of the moving averages of prices: the last of the prices, in order *)
IsWindow(m) ==
  LET n == Len(m.data) IN
  /\ m.data = [i \in 1 .. n |-> [ts |-> trades[Len(trades) - n + i].ts,
                                value |-> trades[Len(trades) - n + i].price]]
  /\ m.sum = Sum([i \in 1 .. n |-> m.data[i].value])

(* What the indicators keep from push to push amounts to their definition over the candles,
   whichever gaps the trades had: the trend is the mean of the closes before this one, the
   deviation includes it, an ADX has been undefined since its directional index once was.
   And the slow average is never taken over fewer prices than the fast one. *)
IndicatorsAgree ==
  LET k == Len(candles) IN
  /\ k > 0 =>
       /\ {b.trend : b \in strategies.BBRSI.bands.out} = (IF k > 1 THEN Trend(k) ELSE {})
       /\ {s.variance : s \in strategies.BBRSI.bands.std.out} = Variance(k)
       /\ strategies.Rsi.rsi.out = Rsi(k)
       /\ strategies.DynamicGridAdx.adx.out = Adx(k)
  /\ IsWindow(strategies.DoubleSma.fast) /\ IsWindow(strategies.DoubleSma.slow)
  /\ Len(strategies.DoubleSma.fast.data) <= Len(strategies.DoubleSma.slow.data)

(* DoubleSma, Ratchet and DebugEveryTick buy and sell in turn; Bollinger, which returns
   to quiet without looking at its bands (BollingerBandsStrategy.cpp:107), gives no second
   signal before a price between the two was beyond the trend, on the side the first was
   for. *)
SignalsTakeTurns ==
  /\ \A n \in {"DoubleSma", "Ratchet", "DebugEveryTick"} : \A i \in 1 .. Len(signals[n]) - 1 :
       signals[n][i + 1].side = -signals[n][i].side
  /\ \A i \in 1 .. Len(signals.Bollinger) - 1 :
       LET s == signals.Bollinger[i] IN
       \E k \in s.at + 1 .. signals.Bollinger[i + 1].at - 1 : \E t \in trends[k] :
         IF s.side = 1 THEN Above(Double(trades[k].price), t)
                       ELSE Above(t, Double(trades[k].price))

(* Once nothing has moved for an interval, the ADX is 0/0 and its sum stays so: no trend
   bans the grid ever after, however strong it is. *)
UndefinedAdxBansNoMore ==
  [][strategies.DynamicGridAdx.adx.adx.sum = NaN =>
       strategies'.DynamicGridAdx.ban_until = strategies.DynamicGridAdx.ban_until]_vars
=============================================================================
