CONSTANTS
  p1 = p1
  p2 = p2
  s1 = s1
  s2 = s2
  l1 = l1
  Producers = {p1, p2}
  Subscribers = {s1, s2}
  Loops = {l1}
  LoopOf <- SameLoop
  PriorityOf <- MCPriority
  Subscribed <- MCSubscribed
  MaxPushes <- MCMaxPushes
  MaxDelayed <- MCMaxDelayed
SPECIFICATION Spec
INVARIANTS PushesRunInOrder NoEventIsLost BarrierFlushes SurvivorsMeanDeadlock
PROPERTY BarrierReturns
CHECK_DEADLOCK FALSE
