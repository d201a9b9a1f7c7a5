------------------------------ MODULE MCPositions ------------------------------
(* Up to two lots at a time, so that a trade may increase, halve, close or turn the
   position, at prices whose averages are fractions, with and without fees. *)
EXTENDS Positions

MCVolumes == -2 .. 2
=============================================================================
