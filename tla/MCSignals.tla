------------------------------- MODULE MCSignals -------------------------------
(* Candles of two units of time and averages of two candles.  A trade falls into the same
   candle, the next one, or one behind three empty ones. *)
EXTENDS Signals

Tick(price, bought, gap) == [price |-> price, bought |-> bought, gap |-> gap]

MCTicks == {Tick(2, 0, 2), Tick(4, 1, 1), Tick(4, 0, 2), Tick(6, 1, 1), Tick(2, 0, 1),
            Tick(6, 0, 8)}
=============================================================================
