CONSTANTS
  Charts = {c1, c2}
  TimeOf <- MCTimeOf
  Capacities <- MCCapacities
SPECIFICATION Spec
INVARIANT ChartsShowTheSeries
PROPERTY ChartsCatchUp
CHECK_DEADLOCK FALSE
