CONSTANTS
  Orders = {o1}
  TakeProfits = {tp1}
  StopLosses = {}
  MaxVolume = 2
  Responses = 2
SPECIFICATION FairSpec
INVARIANTS EveryExecutionAccounted NoFinishedOrderIsKept AlarmsExplained NoOrphanAtExchange QuietStatusTellsTheCrossing
PROPERTIES KeepsTheLedger ExecutedOrdersLeave
CHECK_DEADLOCK FALSE
