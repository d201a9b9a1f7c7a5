---------------------------- MODULE MCGridBacktest ----------------------------
(* Two levels on each side of the trend, prices on their borders and inside them, and
   jumps over all of them: a stop loss of a dynamic grid is four levels away from its
   entry, one of a static grid a level beyond the limits. *)
EXTENDS GridBacktest

MCPrices    == [DynamicGridAdx |-> {2, 6, 8, 12, 16, 18, 22}, StaticGrid |-> {2, 6, 12, 16, 22}]
MCTrends    == {10, 12}
MCMaxPrices == [DynamicGridAdx |-> 5, StaticGrid |-> 7]
=============================================================================
