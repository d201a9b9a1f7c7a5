CONSTANTS
  Timeframe = 2
  Ticks <- MCTicks
  MaxTrades = 6
  FastInterval = 2
  SlowInterval = 4
  DiffThresholdPerc = 10
  Candles = 2
  StdCoef = 1
  CandlesThreshold = 1
  Margin = 30
  SignalPerc = 10
  TriggerInterval = 2
  RetracementPart = 4
  MinPriceDiffPerc = 10
  MaxStdDevPerc = 40
  MinImbalancePerc = 20
  MinChangePerc = 10
  MinTradeRatePerc = 50
  MaxVolatilityPerc = 60
  AdxThresholdPerc = 20
  MaxIter = 3
SPECIFICATION Spec
INVARIANTS CandlesAreTheTrades IndicatorsAgree SignalsTakeTurns
PROPERTY UndefinedAdxBansNoMore
CHECK_DEADLOCK FALSE
