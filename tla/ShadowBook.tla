----------------------------- MODULE ShadowBook -----------------------------
(***************************************************************************)
(* The public book as a function from market order ids to orders, one per  *)
(* ticker, and the effect of one market update on it: applyToBook of       *)
(* src/src/network/market/snapshot_stream.h.                               *)
(***************************************************************************)
EXTENDS Naturals, Maps

PublicOrder(u) == [side |-> u.side, price |-> u.price, qty |-> u.qty]

(* SnapshotStreamer::applyToBook.  A CANCEL erases the order whatever its  *)
(* quantity, as the ITCH OrderDelete that encode makes of it does for the  *)
(* subscribers.  A TRADE for an unknown order is logged as a critical      *)
(* error and changes nothing.                                              *)

applyToBook_TradeErases(book, u) ==
  LET m == book[u.ticker_id]
      id == u.market_order_id
  IN  CASE u.type = "ADD" ->
             [book EXCEPT ![u.ticker_id] = Assign(m, id, PublicOrder(u))]
        [] u.type \in {"CANCEL", "TRADE"} ->
             [book EXCEPT ![u.ticker_id] = Erase(m, id)]
        [] u.type = "MODIFY" ->
             [book EXCEPT ![u.ticker_id] =
                Assign(Erase(m, id), u.new_order_id, PublicOrder(u))]

applyToBook(book, u) ==
  LET m == book[u.ticker_id]
      id == u.market_order_id
  IN  CASE u.type = "ADD" ->
             [book EXCEPT ![u.ticker_id] = Assign(m, id, PublicOrder(u))]
        [] u.type = "CANCEL" ->
             [book EXCEPT ![u.ticker_id] = Erase(m, id)]
        [] u.type = "MODIFY" ->
             [book EXCEPT ![u.ticker_id] =
                Assign(Erase(m, id), u.new_order_id, PublicOrder(u))]
        [] u.type = "TRADE" /\ id \in DOMAIN m ->
             IF m[id].qty <= u.qty
             THEN [book EXCEPT ![u.ticker_id] = Erase(m, id)]
             ELSE [book EXCEPT ![u.ticker_id][id].qty = @ - u.qty]
        [] u.type = "TRADE" /\ id \notin DOMAIN m -> book
=============================================================================
