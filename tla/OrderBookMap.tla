---------------------------- MODULE OrderBookMap ----------------------------
(***************************************************************************)
(* One MEOrderBook of src/src/engine/order_book/order_book_map.cpp, the    *)
(* book the default build uses, as a record and the operations on it.      *)
(* A book is owned by the engine thread, so its helpers are operators from *)
(* a book to a book; module MatchingEngine gives them their place in the   *)
(* handlers.  The fields of a book are                                     *)
(*                                                                         *)
(*   pool    the MEOrder objects allocated from pool_.  A pointer to an    *)
(*           MEOrder is the order's marketOrderId_, which nothing reuses;  *)
(*   level   level[s][p] is the list of orders from head to tail of the    *)
(*           PriceLevel at price p of bids_ (s = "BUY") or asks_ ("SELL"). *)
(*           The empty list stands for a level the std::map does not hold; *)
(*   orders  the index orders_, from <<clientId, clientOrderId>>;          *)
(*   nextMarketOrderId  the counter of the same name.                      *)
(***************************************************************************)
EXTENDS Naturals, Sequences, Maps

CONSTANTS
  Clients,   \* the clients of the exchange (ClientId)
  Prices,    \* the limit prices an order may carry (Price)
  MaxQty     \* the largest quantity a request may carry (Quantity)

(* A price arrives as an unsigned 32-bit number, so there is a largest     *)
(* one.                                                                    *)
ASSUME PricesAssumption ==
  /\ Prices \subseteq Nat
  /\ \E max \in Prices : \A p \in Prices : p <= max
ASSUME MaxQtyAssumption == MaxQty \in Nat

Side == {"BUY", "SELL"}
OrderType == {"GoodTillCancel", "FillAndKill"}
Quantity == 0 .. MaxQty

(* The orders_ index is keyed by the client and the id the gateway gave.   *)
OrderKey == Clients \X Nat

MEOrder ==
  [clientId          : Clients,
   clientOrderId     : Nat,
   side              : Side,
   price             : Prices,
   initialQuantity   : Quantity,
   remainingQuantity : Quantity]

Opposite(side) == IF side = "BUY" THEN "SELL" ELSE "BUY"

KeyOf(order) == <<order.clientId, order.clientOrderId>>

EmptyBook ==
  [pool              |-> EmptyMap,
   level             |-> [s \in Side |-> [p \in Prices |-> <<>>]],
   orders            |-> EmptyMap,
   nextMarketOrderId |-> 1]

(* The orders of one price level, from head to tail.                       *)
LevelAt(b, side, price) == b.level[side][price]

-----------------------------------------------------------------------------
(* Unlinking a node from a doubly linked list: its neighbours are joined.  *)
PositionOf(list, id) == CHOOSE i \in DOMAIN list : list[i] = id

Without(list, i) == SubSeq(list, 1, i - 1) \o SubSeq(list, i + 1, Len(list))

Unlink(list, id) == Without(list, PositionOf(list, id))

-----------------------------------------------------------------------------
(* MEOrderBook::insert: allocate the order, link it at the tail of its     *)
(* level (creating the level), index it.                                   *)

insert_AtHead(b, id, order) ==
  [pool   |-> Assign(b.pool, id, order),
   level  |-> [b.level EXCEPT ![order.side][order.price] = <<id>> \o @],
   orders |-> Assign(b.orders, KeyOf(order), id),
   nextMarketOrderId |-> b.nextMarketOrderId]

insert(b, id, order) ==
  [pool   |-> Assign(b.pool, id, order),
   level  |-> [b.level EXCEPT ![order.side][order.price] = Append(@, id)],
   orders |-> Assign(b.orders, KeyOf(order), id),
   nextMarketOrderId |-> b.nextMarketOrderId]

(* MEOrderBook::remove: unlink the order from its level (an emptied level  *)
(* leaves the std::map), drop its index entry, deallocate it.              *)

remove_KeepIndex(b, id) ==
  [b EXCEPT !.pool  = Erase(@, id),
            !.level[b.pool[id].side][b.pool[id].price] = Unlink(@, id)]

remove(b, id) ==
  LET order == b.pool[id]
  IN  [pool   |-> Erase(b.pool, id),
       level  |-> [b.level EXCEPT ![order.side][order.price] = Unlink(@, id)],
       orders |-> Erase(b.orders, KeyOf(order)),
       nextMarketOrderId |-> b.nextMarketOrderId]

(* nextMarketOrderId++ where an order takes its id.                        *)

TakeMarketId_Reuse(b) == b

TakeMarketId(b) == [b EXCEPT !.nextMarketOrderId = b.nextMarketOrderId + 1]

(* The assignment order->remainingQuantity_ = qty, and the removal of the  *)
(* order when nothing of it is left, as cancelOrder and match end.         *)

SetRemaining_LowersInitial(b, id, qty) ==
  IF qty = 0 THEN remove(b, id)
  ELSE LET order == [b.pool[id] EXCEPT !.remainingQuantity = qty,
                                       !.initialQuantity = qty]
       IN  [b EXCEPT !.pool = [b.pool EXCEPT ![id] = order]]

SetRemaining(b, id, qty) ==
  IF qty = 0 THEN remove(b, id)
  ELSE LET order == [b.pool[id] EXCEPT !.remainingQuantity = qty]
       IN  [b EXCEPT !.pool = [b.pool EXCEPT ![id] = order]]

-----------------------------------------------------------------------------
(* The loop of MEOrderBook::match.                                         *)

(* The iteration order of the two maps: std::greater on bids_, std::less   *)
(* on asks_.  p comes no later than q.                                     *)
NotWorse(side, p, q) == IF side = "BUY" THEN p >= q ELSE p <= q

(* p is oppositeSide.begin()->first: the best price at which `side' has a  *)
(* level.                                                                  *)

IsBestPrice_Worst(b, side, p) ==
  /\ LevelAt(b, side, p) # <<>>
  /\ \A q \in Prices : LevelAt(b, side, q) # <<>> => NotWorse(side, q, p)

IsBestPrice(b, side, p) ==
  /\ LevelAt(b, side, p) # <<>>
  /\ \A q \in Prices : LevelAt(b, side, q) # <<>> => NotWorse(side, p, q)

(* The test that does not break the loop: an order of this side and price  *)
(* may trade at levelPrice.                                                *)

Crosses_Strict(side, price, levelPrice) ==
  IF side = "BUY" THEN price > levelPrice ELSE price < levelPrice

Crosses(side, price, levelPrice) ==
  IF side = "BUY" THEN price >= levelPrice ELSE price <= levelPrice

(* The loop body may run against the head of the level at price p.         *)
MayTradeAt(b, side, price, p) ==
  /\ IsBestPrice(b, Opposite(side), p)
  /\ Crosses(side, price, p)

-----------------------------------------------------------------------------
(* What a consistent book is: pool, levels and index describe one set of   *)
(* orders, each level is in order of arrival (market ids are handed out in *)
(* order of arrival), and no order rests with nothing left.                *)

BookTypeOK(b) ==
  /\ b \in [pool   : [DOMAIN b.pool -> MEOrder],
            level  : [Side -> [Prices -> Seq(Nat)]],
            orders : [DOMAIN b.orders -> Nat],
            nextMarketOrderId : Nat]
  /\ DOMAIN b.pool \subseteq Nat
  /\ DOMAIN b.orders \subseteq OrderKey

(* Every listed order is allocated and is listed at its own side and price.*)
ListedIsAllocated(b) ==
  \A s \in Side, p \in Prices : \A i \in 1 .. Len(LevelAt(b, s, p)) :
    /\ LevelAt(b, s, p)[i] \in DOMAIN b.pool
    /\ b.pool[LevelAt(b, s, p)[i]].side = s
    /\ b.pool[LevelAt(b, s, p)[i]].price = p

(* Every allocated order is in the list of its level.                      *)
AllocatedIsListed(b) ==
  \A id \in DOMAIN b.pool :
    \E i \in 1 .. Len(LevelAt(b, b.pool[id].side, b.pool[id].price)) :
      LevelAt(b, b.pool[id].side, b.pool[id].price)[i] = id

(* A level is first come, first served.                                    *)
LevelInArrivalOrder(b) ==
  \A s \in Side, p \in Prices : \A i, j \in 1 .. Len(LevelAt(b, s, p)) :
    i < j => LevelAt(b, s, p)[i] < LevelAt(b, s, p)[j]

(* orders_ finds exactly the allocated orders, each under its own key.     *)
IndexFindsOrders(b) ==
  /\ \A id \in DOMAIN b.pool :
       /\ KeyOf(b.pool[id]) \in DOMAIN b.orders
       /\ b.orders[KeyOf(b.pool[id])] = id
  /\ \A k \in DOMAIN b.orders :
       /\ b.orders[k] \in DOMAIN b.pool
       /\ KeyOf(b.pool[b.orders[k]]) = k

RestingQuantity(b) ==
  \A id \in DOMAIN b.pool :
    /\ b.pool[id].remainingQuantity > 0
    /\ b.pool[id].remainingQuantity <= b.pool[id].initialQuantity

IdsBelowNext(b) == \A id \in DOMAIN b.pool : id < b.nextMarketOrderId

BookConsistent(b) ==
  /\ ListedIsAllocated(b)
  /\ AllocatedIsListed(b)
  /\ LevelInArrivalOrder(b)
  /\ IndexFindsOrders(b)
  /\ RestingQuantity(b)
  /\ IdsBelowNext(b)

(* No bid at or above an ask: whatever could trade has traded.             *)
Uncrossed(b) ==
  \A x, y \in DOMAIN b.pool :
    b.pool[x].side = "BUY" /\ b.pool[y].side = "SELL"
      => b.pool[x].price < b.pool[y].price
=============================================================================
