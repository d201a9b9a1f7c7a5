-------------------------- MODULE MCTimeseriesCharts --------------------------
(* Two of three values at one time: with capacity 1 the first value is at the border of
   the third's, with 0 beyond it. *)
EXTENDS TimeseriesCharts

MCTimeOf     == <<1, 2, 2, 3>>
MCCapacities == {{}, {0}, {1}}
=============================================================================
