------------------------------- MODULE Positions -------------------------------
(***************************************************************************)
(* What a strategy has earned: OpenedPosition and ClosedPosition           *)
(* (src/frontend/crypto/trading_primitives/Position.cpp), PositionManager  *)
(* (PositionManager.cpp) and the StrategyResult that StrategyInstance      *)
(* makes of them.  The input is any sequence of trades: a strategy buys    *)
(* and sells, a grid closes in parts, a trade larger than the position     *)
(* turns it, and a trailing stop without a position trades a volume of     *)
(* zero.                                                                   *)
(*                                                                         *)
(* Volumes are lots, signed; prices and fees are integers; quotients are   *)
(* exact fractions.  The times in profit and in loss, and the regression   *)
(* through the deposit, only feed the charts and are left out.             *)
(***************************************************************************)
EXTENDS Doubles

CONSTANTS
  Volumes, Prices, Fees,  \* of the trades
  MaxTrades               \* bound: trades of one run

VARIABLES
  m_opened_position,  \* None, or [volume, avg_entry_price, total_entry_fee]
  m_closed_position,  \* None, or [rpnl, fee] of the part closed so far
  m_previous_profit,  \* None, or the profit counted for the position that is open
  m_strategy_result,  \* the fields of StrategyResult that add up
  ledger              \* history: the trades of this position and of all, in money

vars == <<m_opened_position, m_closed_position, m_previous_profit, m_strategy_result, ledger>>

None == [none |-> TRUE]
Zero == Double(0)
SignOf(n) == IF n > 0 THEN 1 ELSE IF n < 0 THEN -1 ELSE 0
Unsigned(n) == IF n < 0 THEN -n ELSE n

(* cash is what the trades brought in and paid is their fees, since the position was
   opened ("this") and since the start ("all"); partial and flipped say what became of the
   position so far, onePrice holds the prices traded at. *)
EmptyLedger == [thisCash |-> 0, thisPaid |-> 0, allCash |-> 0, allPaid |-> 0, held |-> 0,
                partial |-> FALSE, flipped |-> FALSE, prices |-> {}]

Init ==
  /\ m_opened_position = None /\ m_closed_position = None
  /\ m_previous_profit = None
  /\ m_strategy_result =
       [final_profit |-> Zero, fees_paid |-> Zero, trades_count |-> 0,
        profit_positions_cnt |-> 0, loss_positions_cnt |-> 0,
        max_depo |-> Zero, min_depo |-> Zero]
  /\ ledger = EmptyLedger

-----------------------------------------------------------------------------
(* OpenedPosition *)

NewPosition == [volume |-> 0, avg_entry_price |-> Zero, total_entry_fee |-> Zero]

Increases(pos, vol) == pos.volume = 0 \/ SignOf(vol) = SignOf(pos.volume)

Increased(pos, price, vol, fee) ==
  [volume |-> pos.volume + vol,
   avg_entry_price |->
     DividedBy(Plus(Times(pos.avg_entry_price, Double(pos.volume)), Double(price * vol)),
               Double(pos.volume + vol)),
   total_entry_fee |-> Plus(pos.total_entry_fee, Double(fee))]

(* The fee of as many lots as are closed, more than the position's own when it turns. *)
extract_fee(pos, vol) ==
  Times(Double(Unsigned(vol)), Over(pos.total_entry_fee.num,
                                    pos.total_entry_fee.den * Unsigned(pos.volume)))

(* Mutant: the fee of the part that is closed stays in the position. *)
Reduced_KeepsFee(pos, vol) == [pos EXCEPT !.volume = @ + vol]

Reduced(pos, vol) ==
  [pos EXCEPT !.volume = @ + vol, !.total_entry_fee = Minus(@, extract_fee(pos, vol))]

(* ClosedPosition; its volume and average price are only logged *)
ClosedBy(pos, price, vol, fee) ==
  LET fees == Plus(Double(fee), extract_fee(pos, vol)) IN
  [rpnl |-> Minus(Times(Minus(Double(price), pos.avg_entry_price), Double(-vol)), fees),
   fee  |-> fees]

(* ClosedPosition::operator+= *)
Added(closed, other) ==
  IF closed = None THEN other
  ELSE [rpnl |-> Plus(closed.rpnl, other.rpnl), fee |-> Plus(closed.fee, other.fee)]

(* Mutant: the close is taken to cost nothing. *)
expected_total_fee_Entry(pos) == pos.total_entry_fee

expected_total_fee(pos) == Times(pos.total_entry_fee, Double(2))

price_for_upnl(pos, upnl) ==
  Plus(pos.avg_entry_price, DividedBy(Plus(upnl, expected_total_fee(pos)), Double(pos.volume)))

price_levels(pos) ==
  [fee_profit_price |-> price_for_upnl(pos, expected_total_fee(pos)),
   no_loss_price    |-> price_for_upnl(pos, Zero),
   fee_loss_price   |-> price_for_upnl(pos, Minus(Zero, expected_total_fee(pos)))]

-----------------------------------------------------------------------------
(* StrategyInstance::process_position_result *)

(* Mutant: the profit of a position that is closed is taken back with the next one. *)
CountedAs_Previous(result) == result.pnl_with_fee

(* close_ts is empty after a partial close, and an empty optional differs from 0 ms as a
   real time does: the profit counted so far is always forgotten. *)
CountedAs(result) == IF result.close_ts # {0} THEN None ELSE result.pnl_with_fee

process_position_result(result) ==
  LET old    == IF m_previous_profit = None THEN Zero ELSE m_previous_profit
      profit == Plus(Minus(m_strategy_result.final_profit, old), result.pnl_with_fee)
      gains  == Above(result.pnl_with_fee, Zero)
      r      == m_strategy_result
  IN /\ m_previous_profit' = CountedAs(result)
     /\ m_strategy_result' =
          [final_profit         |-> profit,
           fees_paid            |-> Plus(r.fees_paid, result.fees_paid),
           trades_count         |-> r.trades_count + 1,
           profit_positions_cnt |-> r.profit_positions_cnt + IF gains THEN 1 ELSE 0,
           loss_positions_cnt   |-> r.loss_positions_cnt + IF gains THEN 0 ELSE 1,
           max_depo             |-> IF Above(profit, r.max_depo) THEN profit ELSE r.max_depo,
           min_depo             |-> IF Above(r.min_depo, profit) THEN profit ELSE r.min_depo]

-----------------------------------------------------------------------------
(* PositionManager::on_trade_received, and its caller *)

(* A position is opened further or, by a trade of no volume, left as it is: there is no
   result. *)
Opens(price, vol, fee) ==
  LET pos == IF m_opened_position = None THEN NewPosition ELSE m_opened_position IN
  /\ vol = 0 \/ Increases(pos, vol)
  /\ m_opened_position' = IF vol = 0 THEN pos ELSE Increased(pos, price, vol, fee)
  /\ m_strategy_result' = [m_strategy_result EXCEPT !.trades_count = @ + 1]
  /\ UNCHANGED <<m_closed_position, m_previous_profit>>

(* A position is closed, in whole or in part, or turned. *)
Closes(ts, price, vol, fee) ==
  LET pos    == m_opened_position
      closed == Added(m_closed_position, ClosedBy(pos, price, vol, fee))
      whole  == pos.volume + vol = 0
  IN /\ pos # None /\ vol # 0 /\ ~Increases(pos, vol)
     /\ m_opened_position' = IF whole THEN None ELSE Reduced(pos, vol)
     /\ m_closed_position' = IF whole THEN None ELSE closed
     /\ process_position_result([pnl_with_fee |-> closed.rpnl, fees_paid |-> closed.fee,
                                 close_ts |-> IF whole THEN {ts} ELSE {}])

(* history: the same trade in money *)
Recorded(price, vol, fee) ==
  LET pos  == m_opened_position
      opens == pos = None
      part == pos # None /\ vol # 0 /\ ~Increases(pos, vol) /\ pos.volume + vol # 0
  IN ledger' =
       [thisCash |-> (IF opens THEN 0 ELSE ledger.thisCash) - price * vol,
        thisPaid |-> (IF opens THEN 0 ELSE ledger.thisPaid) + fee,
        allCash  |-> ledger.allCash - price * vol,
        allPaid  |-> ledger.allPaid + fee,
        held     |-> ledger.held + vol,
        partial  |-> ledger.partial \/ part,
        flipped  |-> (~opens /\ ledger.flipped) \/ (part /\ Unsigned(vol) > Unsigned(pos.volume)),
        prices   |-> ledger.prices \cup {price}]

(* handle_event(TradeEvent); a trade without a volume has no fee *)
TradeReceived(price, vol, fee) ==
  LET ts == m_strategy_result.trades_count + 1 IN
  /\ ts <= MaxTrades
  /\ vol = 0 => fee = 0
  /\ Opens(price, vol, fee) \/ Closes(ts, price, vol, fee)
  /\ Recorded(price, vol, fee)

Next == \E price \in Prices, vol \in Volumes, fee \in Fees : TradeReceived(price, vol, fee)

Spec == Init /\ [][Next]_vars

-----------------------------------------------------------------------------
Flat == m_opened_position = None

ClosedSoFar == IF m_closed_position = None THEN [rpnl |-> Zero, fee |-> Zero] ELSE m_closed_position

(* PositionManager: no money and no fee is lost or counted twice between the part of a
   position that is closed and the part that is open, whether trades increase it, close it
   in parts or turn it: what is realised is the money its trades brought in and the value,
   at the average entry price, of what is held. *)
PositionsAreConserved ==
  IF Flat THEN ledger.held = 0 /\ m_closed_position = None
  ELSE LET pos == m_opened_position IN
    /\ pos.volume = ledger.held
    /\ Plus(ClosedSoFar.rpnl, ClosedSoFar.fee) =
         Plus(Double(ledger.thisCash), Times(pos.avg_entry_price, Double(pos.volume)))
    /\ Plus(ClosedSoFar.fee, pos.total_entry_fee) = Double(ledger.thisPaid)

(* StrategyResult: as long as every position was closed by one trade, final_profit is the
   money all trades brought in less all fees, and fees_paid is these fees. *)
WholeClosesAreTheProfit ==
  Flat /\ ~ledger.partial =>
    /\ m_strategy_result.final_profit = Double(ledger.allCash - ledger.allPaid)
    /\ m_strategy_result.fees_paid = Double(ledger.allPaid)

(* OpenedPosition::price_levels: what is left of a position that has not been turned,
   closed for the fee it was opened for, breaks even at no_loss_price, on either side, and
   gains or loses that expected fee at the levels around it. *)
PriceLevelsBreakEven ==
  ~Flat /\ m_opened_position.volume # 0 /\ ~ledger.flipped =>
    LET pos == m_opened_position
        fees == Times(pos.total_entry_fee, Double(2))
        ClosedAt(price) ==
          Minus(Times(Minus(price, pos.avg_entry_price), Double(pos.volume)), fees)
    IN /\ ClosedAt(price_levels(pos).no_loss_price) = Zero
       /\ ClosedAt(price_levels(pos).fee_profit_price) = fees
       /\ ClosedAt(price_levels(pos).fee_loss_price) = Minus(Zero, fees)

(* StrategyInstanceTest.cpp:507, "There was no price move, so we lost only fees": trades at
   one price that leave no position cost their fees. *)
NoMoveCostsTheFees ==
  Flat /\ (\E p \in Prices : ledger.prices \subseteq {p}) =>
    m_strategy_result.final_profit = Double(-ledger.allPaid)
=============================================================================
