CONSTANTS
  Volumes <- MCVolumes
  Prices = {1, 2, 5}
  Fees = {0, 1}
  MaxTrades = 4
SPECIFICATION Spec
INVARIANT NoMoveCostsTheFees
CHECK_DEADLOCK FALSE
