------------------------------ MODULE GridLevels ------------------------------
(***************************************************************************)
(* src/frontend/crypto/strategy/GridLevels.cpp and the prices that the     *)
(* grids' calc_tp_sl_prices make of it.  Prices are integers, the width of *)
(* a level (a percentage of the trend) is a constant.                      *)
(*                                                                         *)
(*   level -1        level 0         level 1                               *)
(*  |-------|-------|-------|-------|-------|                              *)
(*         -1 w   trend    +1 w    +2 w                                    *)
(***************************************************************************)
EXTENDS Integers

CONSTANTS
  LevelWidth,    \* get_one_level_width
  LevelsPerSide  \* m_levels_per_side

ASSUME WidthIsPositive == LevelWidth \in Nat \ {0}
ASSUME SidesHaveLevels == LevelsPerSide \in Nat \ {0}

(* floor above the trend, ceil below it: level 0 is two widths high. *)
get_level_number(price, trend) ==
  IF price > trend THEN (price - trend) \div LevelWidth
                   ELSE -((trend - price) \div LevelWidth)

get_price_from_level_number(level, trend) == trend + level * LevelWidth

(* Mutant: the take profit is the price of the entry's own level. *)
calc_tp_price_SameLevel(price, side, trend) ==
  get_price_from_level_number(get_level_number(price, trend), trend)

(* side: of the market order, 1 to buy and -1 to sell *)
calc_tp_price(price, side, trend) ==
  get_price_from_level_number(get_level_number(price, trend) + side, trend)

calc_sl_price(price, side) == price - side * (LevelsPerSide + 1) * LevelWidth

(* StaticGridWithBan: beyond the limits of the interval, wherever the entry was *)
calc_sl_price_static(min_price, max_price, side) ==
  IF side = 1 THEN min_price - LevelWidth ELSE max_price + LevelWidth
=============================================================================
