---------------------------- MODULE ConfigGenerator ----------------------------
(***************************************************************************)
(* src/frontend/crypto/optimizer/ConfigGenerator.cpp: the configurations   *)
(* of a strategy.  A grid is a sequence of parameters, in the order of     *)
(* their names, each a record of min, step and max; a parameter that is    *)
(* not to be optimised has max = min + step.  A configuration is the       *)
(* sequence of the parameters' values.  (A step of 0 never ends.)          *)
(***************************************************************************)
EXTENDS Integers, Sequences, FiniteSets, SequencesExt, FiniteSetsExt

(* Mutant: the largest value of a parameter is tried too. *)
CanIncrement_Inclusive(grid, values, k) == values[k] + grid[k].step <= grid[k].max

CanIncrement(grid, values, k) == values[k] + grid[k].step < grid[k].max

(* The first parameter that has a next value gets it, and those in front of it start
   over; <<>> if there is none. *)
increment_current_param(grid, values) ==
  LET ks == {k \in DOMAIN grid : CanIncrement(grid, values, k)}
  IN IF ks = {} THEN <<>>
     ELSE [k \in DOMAIN grid |-> IF k < Min(ks) THEN grid[k].min
                                 ELSE IF k = Min(ks) THEN values[k] + grid[k].step
                                 ELSE values[k]]

(* What a parameter can be: its minimum, and what is reached by steps below its maximum. *)
ValuesOf(p) == {p.min} \cup {v \in p.min .. (p.max - 1) : (v - p.min) % p.step = 0}

(* Reference: every combination. *)
GridOf(grid) ==
  {values \in [DOMAIN grid -> UNION {ValuesOf(grid[k]) : k \in DOMAIN grid}] :
     \A k \in DOMAIN grid : values[k] \in ValuesOf(grid[k])}

(* The loop, for at most as many rounds as there are combinations, and one more. *)
get_possible_configs(grid) ==
  LET first  == [k \in DOMAIN grid |-> grid[k].min]
      Round(output, n) ==
        IF Last(output) = <<>> THEN output
        ELSE Append(output, increment_current_param(grid, Last(output)))
      rounds == FoldLeft(Round, <<first>>, [n \in 1 .. (Cardinality(GridOf(grid)) + 1) |-> n])
  IN SelectSeq(rounds, LAMBDA values : values # <<>>)
=============================================================================
