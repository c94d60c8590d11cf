---------------------------- MODULE MCTradeOrders ----------------------------
(* Trades ask for the same things, so they can be exchanged. *)
EXTENDS TradeOrders, TLC

Symmetry == Permutations(Trades) \cup Permutations(Outcomes)
=============================================================================
