CONSTANTS
  live1 = live1
  live2 = live2
  LiveRequests = {live1, live2}
  SymbolOf <- MCSymbolOf
  MaxChecks = 1
  MaxPings = 1
  Starts = {TRUE, FALSE}
  MaxPanics = 1
  MaxPosted = 2
SPECIFICATION Spec
INVARIANTS SubscriptionsAreTheRequests RequestsHaveOwners WatchGoesOn
PROPERTIES AnsweringConnectionsAreKept
CHECK_DEADLOCK FALSE
