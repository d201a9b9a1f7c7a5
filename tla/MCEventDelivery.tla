---------------------------- MODULE MCEventDelivery ----------------------------
(* Subscribers of one channel: the ordinary one and the one of priority High, in the
   same loop. *)
EXTENDS EventDelivery

CONSTANTS p1, p2, s1, s2, l1

SameLoop    == [s \in Subscribers |-> l1]
MCPriority  == [s \in Subscribers |-> IF s = s1 THEN Normal ELSE High]
MCSubscribed == IF s2 \in Subscribers THEN <<s1, s2>> ELSE <<s1>>
MCMaxPushes  == [p \in Producers |-> IF p = p1 THEN 2 ELSE 1]
MCMaxDelayed == [p \in Producers |-> IF p = p1 THEN 0 ELSE 1]
OneDelayed   == [p \in Producers |-> 1]
=============================================================================
