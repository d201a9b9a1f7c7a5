CONSTANTS
  Orders = {o1, o2, o3, o4, o5, o6}
  TakeProfits = {tp1, tp2, tp3, tp4, tp5, tp6}
  StopLosses = {sl1, sl2, sl3, sl4, sl5, sl6}
  MaxVolume = 1
  Strategies = {"DynamicGridAdx", "StaticGrid"}
  PricesOf <- MCPrices
  Trends <- MCTrends
  Interval = 3
  LevelWidth = 4
  LevelsPerSide = 3
  MaxPrices <- MCMaxPrices
  MaxCandles = 2
SPECIFICATION Spec
INVARIANTS EveryLevelHasBothExits NoGridErrors
PROPERTIES LevelsAreIndependent LevelsCloseAwayFromEntry
CHECK_DEADLOCK FALSE
