CONSTANTS
  p1 = p1
  p2 = p2
  s1 = s1
  s2 = s2
  l1 = l1
  Producers = {p1}
  Subscribers = {s1}
  Loops = {l1}
  LoopOf <- SameLoop
  PriorityOf <- MCPriority
  Subscribed <- MCSubscribed
  MaxPushes <- OneDelayed
  MaxDelayed <- OneDelayed
SPECIFICATION Spec
INVARIANT NoEventAfterDestructor
CHECK_DEADLOCK FALSE
