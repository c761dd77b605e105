-------------------------- MODULE OrderBookVector --------------------------
(***************************************************************************)
(* One MEOrderBook of src/src/engine/order_book/order_book_vector.cpp, the *)
(* book of builds with NANOEXCHANGE_USE_VECTOR_ORDER_BOOK.  Its lists are  *)
(* kept here pointer by pointer, since they are what differs from the map  *)
(* book: a PriceLevel per price and side, occupied or not, a doubly linked *)
(* list through the occupied ones, and the two cached heads of that list.  *)
(*                                                                         *)
(*   pool    the MEOrders by marketOrderId_, which stands for the pointer; *)
(*   level   level[s][p] is &bids_[p] or &asks_[p]; its next and prev are  *)
(*           prices, its head and tail orders;                             *)
(*   best    best_bid_ (at "BUY") and best_ask_ ("SELL"), as prices;       *)
(*   orders, nextMarketOrderId   as in the map book.                       *)
(***************************************************************************)
EXTENDS Integers, Maps

CONSTANTS
  Clients,   \* the clients of the exchange (ClientId)
  Prices,    \* the indexes of bids_ and asks_ (Price)
  MaxQty     \* the largest quantity a request may carry (Quantity)

ASSUME VectorAssumption == Prices \subseteq Nat /\ MaxQty \in Nat

nullptr == -1

Side == {"BUY", "SELL"}
OrderType == {"GoodTillCancel", "FillAndKill"}
Quantity == 0 .. MaxQty

Opposite(side) == IF side = "BUY" THEN "SELL" ELSE "BUY"

KeyOf(order) == <<order.clientId, order.clientOrderId>>

Pointer(S) == S \cup {nullptr}

MEOrder ==
  [clientId : Clients, clientOrderId : Nat, side : Side, price : Prices,
   remainingQuantity : Quantity, next : Pointer(Nat), prev : Pointer(Nat)]

PriceLevel ==
  [head : Pointer(Nat), tail : Pointer(Nat), next : Pointer(Prices),
   prev : Pointer(Prices)]

EmptyLevel ==
  [head |-> nullptr, tail |-> nullptr, next |-> nullptr, prev |-> nullptr]

EmptyBook ==
  [pool              |-> EmptyMap,
   level             |-> [s \in Side |-> [p \in Prices |-> EmptyLevel]],
   best              |-> [s \in Side |-> nullptr],
   orders            |-> EmptyMap,
   nextMarketOrderId |-> 1]

(* x->next_ = y and x->prev_ = y on the nodes of either list, where x may  *)
(* be null and is then left alone.                                         *)
SetNext(nodes, x, y) == IF x = nullptr THEN nodes ELSE [nodes EXCEPT ![x].next = y]
SetPrev(nodes, x, y) == IF x = nullptr THEN nodes ELSE [nodes EXCEPT ![x].prev = y]

-----------------------------------------------------------------------------
(* Bids from highest to lowest, asks from lowest to highest.               *)
Better(side, p, q) == IF side = "BUY" THEN p > q ELSE p < q

(* The walk of insertPricelevel: from the best level to the last one that  *)
(* comes before p.                                                         *)
LevelBefore(levels, side, best, p) ==
  LET Walk[curr \in Prices] ==
        LET next == levels[curr].next
        IN  IF next # nullptr /\ Better(side, next, p) THEN Walk[next] ELSE curr
  IN  Walk[best]

(* MEOrderBook::insertPricelevel: link the level at p into its side's list.*)
insertPricelevel(b, side, p) ==
  LET best   == b.best[side]
      levels == b.level[side]
  IN  IF best = nullptr THEN [b EXCEPT !.best[side] = p]
      ELSE IF Better(side, p, best)
      THEN [b EXCEPT !.level[side] = SetPrev(SetNext(levels, p, best), best, p),
                     !.best[side] = p]
      ELSE LET curr  == LevelBefore(levels, side, best, p)
               after == levels[curr].next
           IN  [b EXCEPT !.level[side] =
                  SetPrev(SetNext(SetPrev(SetNext(levels, p, after), after, p),
                                  curr, p), p, curr)]

(* MEOrderBook::removePriceLevel: unlink it, move the cached best level on *)
(* if it was this one, and clear its pointers.                             *)

removePriceLevel_StaleBest(b, side, p) ==
  LET l == b.level[side][p]
      unlinked == SetNext(SetPrev(b.level[side], l.next, l.prev), l.prev, l.next)
  IN  [b EXCEPT !.level[side] = [unlinked EXCEPT ![p] = EmptyLevel],
                !.best[side] = IF @ = p THEN l.prev ELSE @]

removePriceLevel(b, side, p) ==
  LET l == b.level[side][p]
      unlinked == SetNext(SetPrev(b.level[side], l.next, l.prev), l.prev, l.next)
  IN  [b EXCEPT !.level[side] = [unlinked EXCEPT ![p] = EmptyLevel],
                !.best[side] = IF @ = p THEN l.next ELSE @]

(* MEOrderBook::insert: the order becomes the tail of its level, which is  *)
(* linked first if it was empty.                                           *)
insert(b, id, order) ==
  LET s == order.side
      p == order.price
      first  == b.level[s][p].head = nullptr
      tail   == IF first THEN nullptr ELSE b.level[s][p].tail
      linked == IF first THEN insertPricelevel(b, s, p) ELSE b
      l      == linked.level[s][p]
      node   == [order EXCEPT !.prev = tail]
  IN  [linked EXCEPT
         !.pool = SetNext(Assign(b.pool, id, node), tail, id),
         !.level[s][p] = [l EXCEPT !.head = IF first THEN id ELSE l.head, !.tail = id],
         !.orders = Assign(b.orders, KeyOf(order), id)]

(* MEOrderBook::remove: unlink the order, the level too if it is now       *)
(* empty, drop the index entry, deallocate.                                *)
remove(b, id) ==
  LET o == b.pool[id]
      l == b.level[o.side][o.price]
      book == [b EXCEPT
        !.pool = Erase(SetPrev(SetNext(@, o.prev, o.next), o.next, o.prev), id),
        !.level[o.side][o.price] =
          [l EXCEPT !.head = IF o.prev = nullptr THEN o.next ELSE l.head,
                    !.tail = IF o.next = nullptr THEN o.prev ELSE l.tail],
        !.orders = Erase(@, KeyOf(o))]
  IN  IF book.level[o.side][o.price].head = nullptr
      THEN removePriceLevel(book, o.side, o.price) ELSE book

(* The assignment to remainingQuantity_ and the removal of an order with   *)
(* nothing left, as cancelOrder and match end.                             *)
SetRemaining(b, id, qty) ==
  IF qty = 0 THEN remove(b, id)
  ELSE [b EXCEPT !.pool[id].remainingQuantity = qty]

-----------------------------------------------------------------------------
(* What the pointers must describe.                                        *)

BookTypeOK(b) ==
  /\ b \in [pool   : [DOMAIN b.pool -> MEOrder],
            level  : [Side -> [Prices -> PriceLevel]],
            best   : [Side -> Pointer(Prices)],
            orders : [DOMAIN b.orders -> Nat],
            nextMarketOrderId : Nat]
  /\ DOMAIN b.pool \subseteq Nat

(* The prices at which a side has orders, and the orders at a price.       *)
Occupied(b, side) ==
  {b.pool[id].price : id \in {i \in DOMAIN b.pool : b.pool[i].side = side}}

OrdersAt(b, side, p) ==
  {id \in DOMAIN b.pool : b.pool[id].side = side /\ b.pool[id].price = p}

(* x comes first in S, in the order of the prices of `side', or S is empty *)
(* and x null.                                                             *)
Leads(x, S, side) ==
  \/ x = nullptr /\ S = {}
  \/ x \in S /\ \A y \in S : ~Better(side, y, x)

(* y comes right after x in S, or x is last and y null.                    *)
Follows(y, x, S, side) ==
  \/ y = nullptr /\ \A z \in S : ~Better(side, x, z)
  \/ /\ y \in S /\ Better(side, x, y)
     /\ \A z \in S : Better(side, x, z) => ~Better(side, z, y)

(* nodes, entered at head, is a doubly linked list of exactly the members  *)
(* of S in this order.                                                     *)
IsList(nodes, head, S, side) ==
  /\ Leads(head, S, side)
  /\ \A x \in S : /\ Follows(nodes[x].next, x, S, side)
                  /\ Follows(nodes[x].prev, x, S, Opposite(side))

(* The list of a side's levels holds the occupied ones.                    *)
LevelsLinked(b) ==
  \A s \in Side : IsList(b.level[s], b.best[s], Occupied(b, s), s)

(* The list of a level holds its orders from the oldest to the newest: ids *)
(* rise along it, as prices do along the asks.                             *)
OrdersLinked(b) ==
  \A s \in Side, p \in Prices :
    /\ IsList(b.pool, b.level[s][p].head, OrdersAt(b, s, p), "SELL")
    /\ Leads(b.level[s][p].tail, OrdersAt(b, s, p), "BUY")

(* An unoccupied level is clear.                                           *)
OthersClear(b) ==
  \A s \in Side : \A p \in Prices \ Occupied(b, s) : b.level[s][p] = EmptyLevel

(* orders_ finds exactly the allocated orders, each under its own key.     *)
IndexFindsOrders(b) ==
  /\ \A id \in DOMAIN b.pool :
       /\ KeyOf(b.pool[id]) \in DOMAIN b.orders
       /\ b.orders[KeyOf(b.pool[id])] = id
  /\ \A k \in DOMAIN b.orders :
       /\ b.orders[k] \in DOMAIN b.pool
       /\ KeyOf(b.pool[b.orders[k]]) = k

VectorBookConsistent(b) ==
  LevelsLinked(b) /\ OrdersLinked(b) /\ OthersClear(b) /\ IndexFindsOrders(b)
=============================================================================
