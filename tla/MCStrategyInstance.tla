-------------------------- MODULE MCStrategyInstance --------------------------
(* Four strategies, one for each combination of exit and entry channel. *)
EXTENDS StrategyInstance

MCPrices == {1, 2, 4}
=============================================================================
