CONSTANTS
  Threads = {t1, t2}
  Grids <- MCGrids
  Score <- MCScore
  IsValid <- MCIsValid
  TradesOf <- MCTradesOf
  Ranges <- MCRanges
  Day = 2
SPECIFICATION Spec
INVARIANTS BestOfTheGrid BacktestsReadTheirDays
PROPERTY OptimizerReturns
CHECK_DEADLOCK FALSE
