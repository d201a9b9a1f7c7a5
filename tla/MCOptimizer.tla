------------------------------ MODULE MCOptimizer ------------------------------
EXTENDS Optimizer, TLC
(* Day 0 and day 2 have trades, day 1 has a file without any. *)
MCTradesOf == (0 :> <<"t1", "t2">>) @@ (1 :> <<>>) @@ (2 :> <<"t3">>)
(* Whole days, a range that ends later in the day than it starts, one that ends earlier,
   a day without trades, and one with such a day in front. *)
MCRanges == {[start |-> 0, end |-> 6], [start |-> 0, end |-> 5], [start |-> 1, end |-> 5],
             [start |-> 2, end |-> 4], [start |-> 2, end |-> 6]}
(* Two parameters with a maximum off and on the grid of their steps; a parameter that is not
   optimised and one that is, without and with a configuration that is not valid. *)
MCGrids == {<<[min |-> 1, step |-> 2, max |-> 4], [min |-> 0, step |-> 1, max |-> 2]>>,
            <<[min |-> 5, step |-> 1, max |-> 6], [min |-> 0, step |-> 1, max |-> 2]>>,
            <<[min |-> 5, step |-> 1, max |-> 6], [min |-> 0, step |-> 1, max |-> 3]>>}
MCScore == [c \in Seq(Int) |-> IF c[1] = 5 THEN -c[2] - 1 ELSE c[1] * c[2]]
MCIsValid == [c \in Seq(Int) |-> c # <<5, 2>>]
=============================================================================
