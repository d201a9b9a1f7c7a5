CONSTANTS
  Orders = {o1, o2, o3, o4, o5}
  TakeProfits = {}
  StopLosses = {}
  MaxVolume = 2
  ExitOrders = {e1, e2, e3, e4, e5}
  Strategies = {"Mock", "TrendCatcher", "DebugEveryTick", "Ratchet"}
  ProfitDistance = 1
  RiskDistance = 2
  NoLossDistance = 1
  Prices <- MCPrices
  MaxPrices = 3
  MaxCandles = 2
  MaxStops = 0
  MaxForeign = 0
SPECIFICATION Spec
INVARIANT StoppedMeansFlat
CHECK_DEADLOCK FALSE
