------------------------------ MODULE ItchFeed ------------------------------
(***************************************************************************)
(* The incremental feed as ITCH messages: encode of                        *)
(* src/src/network/protocol/itch_encoder.h, and the book a subscriber      *)
(* keeps from them, which is external to the exchange.                     *)
(***************************************************************************)
EXTENDS Naturals, Maps

(* encode.  OrderDelete has no quantity and OrderReplace no side; the      *)
(* timestamp and the byte order are left out.                              *)

encode_SwapsRefs(u) ==
  CASE u.type = "ADD" ->
         [type |-> "AddOrder", stock_locate |-> u.ticker_id,
          order_ref_num |-> u.market_order_id, buy_sell |-> u.side,
          shares |-> u.qty, price |-> u.price]
    [] u.type = "CANCEL" ->
         [type |-> "OrderDelete", stock_locate |-> u.ticker_id,
          order_ref_num |-> u.market_order_id]
    [] u.type = "TRADE" ->
         [type |-> "OrderExecuted", stock_locate |-> u.ticker_id,
          order_ref_num |-> u.market_order_id, executed_shares |-> u.qty,
          match_number |-> u.match_id]
    [] u.type = "MODIFY" ->
         [type |-> "OrderReplace", stock_locate |-> u.ticker_id,
          original_order_ref |-> u.new_order_id, new_order_ref |-> u.market_order_id,
          shares |-> u.qty, price |-> u.price]

encode(u) ==
  CASE u.type = "ADD" ->
         [type |-> "AddOrder", stock_locate |-> u.ticker_id,
          order_ref_num |-> u.market_order_id, buy_sell |-> u.side,
          shares |-> u.qty, price |-> u.price]
    [] u.type = "CANCEL" ->
         [type |-> "OrderDelete", stock_locate |-> u.ticker_id,
          order_ref_num |-> u.market_order_id]
    [] u.type = "TRADE" ->
         [type |-> "OrderExecuted", stock_locate |-> u.ticker_id,
          order_ref_num |-> u.market_order_id, executed_shares |-> u.qty,
          match_number |-> u.match_id]
    [] u.type = "MODIFY" ->
         [type |-> "OrderReplace", stock_locate |-> u.ticker_id,
          original_order_ref |-> u.market_order_id, new_order_ref |-> u.new_order_id,
          shares |-> u.qty, price |-> u.price]

(* A subscriber's order ref -> order map after a message m, from map b.  A *)
(* message about an order it does not hold tells it nothing: of a          *)
(* replacement it would not know the side.                                 *)
Subscribe(b, m) ==
  LET ref == IF m.type = "OrderReplace" THEN m.original_order_ref
             ELSE m.order_ref_num
  IN  CASE m.type = "AddOrder" ->
             Assign(b, ref, [side |-> m.buy_sell, price |-> m.price, qty |-> m.shares])
        [] m.type = "OrderDelete" -> Erase(b, ref)
        [] m.type = "OrderExecuted" /\ ref \in DOMAIN b ->
             IF b[ref].qty <= m.executed_shares THEN Erase(b, ref)
             ELSE [b EXCEPT ![ref].qty = @ - m.executed_shares]
        [] m.type = "OrderReplace" /\ ref \in DOMAIN b ->
             Assign(Erase(b, ref), m.new_order_ref,
                    [side |-> b[ref].side, price |-> m.price, qty |-> m.shares])
        [] OTHER -> b

(* The effect of an update on the subscriber's books, through encode.      *)
Follow(books, u) ==
  LET m == encode(u)
  IN  [books EXCEPT ![m.stock_locate] = Subscribe(@, m)]
=============================================================================
