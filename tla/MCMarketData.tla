---------------------------- MODULE MCMarketData ----------------------------
(* MarketData for TLC: two orders that are added, traded in part or in     *)
(* full, replaced and canceled.                                            *)
EXTENDS MarketData

U(type, id, qty, new) ==
  [ticker_id |-> "t1", market_order_id |-> id, type |-> type, side |-> "BUY",
   price |-> 1, qty |-> qty, new_order_id |-> new, match_id |-> 0]

MCUpdates ==
  {U("ADD", 1, 2, 0), U("TRADE", 1, 1, 0), U("MODIFY", 1, 1, 2),
   U("CANCEL", 2, 1, 0)}
=============================================================================
