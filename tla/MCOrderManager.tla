---------------------------- MODULE MCOrderManager ----------------------------
(* One market order of up to two lots, acknowledged twice, and one conditional order:
   orders do not share state, so two of a kind only multiply the interleavings, and
   m_take_profits and m_stop_losses are served by the same actions. *)
EXTENDS OrderManagerContract

=============================================================================
