-------------------------------- MODULE Queues --------------------------------
(* Lists that lose what is not wanted any more, as the queues of the event loops and
   the lists of subscriptions do (src/frontend/crypto/util). *)
EXTENDS Integers, Sequences

(* What is left of the list q, in order.  (SelectSeq is the same, but takes an operator:
   nothing could be proved of it.) *)
Without(q, dropped) ==
  LET kept[i \in 0 .. Len(q)] ==
        IF i = 0 THEN <<>>
        ELSE IF q[i] \in dropped THEN kept[i - 1] ELSE Append(kept[i - 1], q[i])
  IN kept[Len(q)]

(* The lots that the trades in a list of events will tell a strategy instance of. *)
LotsIn(list) ==
  LET sum[i \in 0 .. Len(list)] ==
        IF i = 0 THEN 0
        ELSE sum[i - 1] + IF list[i].event = "InstanceTrade" THEN list[i].volume ELSE 0
  IN sum[Len(list)]
=============================================================================
