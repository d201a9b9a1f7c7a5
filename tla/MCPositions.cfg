CONSTANTS
  Volumes <- MCVolumes
  Prices = {1, 2, 5}
  Fees = {0, 1}
  MaxTrades = 4
SPECIFICATION Spec
INVARIANTS PositionsAreConserved WholeClosesAreTheProfit PriceLevelsBreakEven
CHECK_DEADLOCK FALSE
