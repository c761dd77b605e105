--------------------------- MODULE MatchingEngine ---------------------------
(***************************************************************************)
(* The matching engine thread: src/src/engine/matching_engine.{h,cpp} over *)
(* the books of order_book_map.cpp.                                        *)
(*                                                                         *)
(* A request is handled in steps: the handler's first part, one step per   *)
(* iteration of the loop in MEOrderBook::match, and what addOrder or       *)
(* replaceOrder does once match returned.  The engine may be held up       *)
(* between these steps, in the pushBlocking of a full queue, so each step  *)
(* ends with its pushes.  While a request is being matched, `taker' holds  *)
(* the handler's locals and no other request is taken.                     *)
(*                                                                         *)
(* `responses' and `marketUpdates' are the messages the last step pushed   *)
(* to responses_ and marketUpdates_, oldest first.                         *)
(*                                                                         *)
(* Requests come from the gateway: the id of a NEW order, or of the        *)
(* replacement in a MODIFY, is fresh, and a request names an order through *)
(* a token, so that client and ticker are those the id was registered      *)
(* with (TokenManager, decodeOuch).                                        *)
(***************************************************************************)
EXTENDS OrderBookMap, Integers

CONSTANTS
  Tickers,        \* the tickers, one book each (TickerId)
  TokenPoolSize   \* how many order ids the gateway can register

ASSUME TokenPoolSizeAssumption == TokenPoolSize \in Nat

VARIABLES
  books,          \* ticker_order_book_
  next_match_id,  \* next_match_id_
  id_to_token,    \* the client and ticker of every id handed out
  taker,          \* the order being matched, NoTaker between requests
  responses,      \* the responses the last step pushed
  marketUpdates   \* the market updates the last step pushed

vars == <<books, next_match_id, id_to_token, taker, responses, marketUpdates>>

(* Outside the ids and match ids in use, which start at 1.                 *)
OrderId_INVALID == 0

NoTaker == [ticker |-> "none"]

Taker ==
  [ticker          : Tickers,
   clientId        : Clients,
   clientOrderId   : Nat,
   marketOrderId   : Nat,
   orderType       : OrderType,
   side            : Side,
   price           : Prices,
   initialQuantity : Quantity,
   remaining       : Quantity,
   replacing       : BOOLEAN]   \* called from replaceOrder

MEClientResponse ==
  [client_id : Clients, ticker_id : Tickers, client_order_id : Nat,
   market_order_id : Nat, qty : Quantity,
   status : {"ACCEPTED", "EXECUTED", "CANCELED", "CANCEL_REJECTED", "MODIFIED"},
   executed_qty : Quantity, leaves_qty : Quantity, match_id : Nat]

MEMarketUpdate ==
  [ticker_id : Tickers, market_order_id : Nat,
   type : {"ADD", "CANCEL", "MODIFY", "TRADE"},
   side : Side, price : Prices, qty : Quantity,
   new_order_id : Nat, match_id : Nat]

Init ==
  /\ books = [t \in Tickers |-> EmptyBook]
  /\ next_match_id = 1
  /\ id_to_token = <<>>
  /\ taker = NoTaker
  /\ responses = <<>>
  /\ marketUpdates = <<>>

-----------------------------------------------------------------------------
(* The messages.                                                           *)

Response_LeavesAfterOneFill(c, t, coid, moid, qty, status, executed, leaves, match) ==
  [client_id |-> c, ticker_id |-> t, client_order_id |-> coid,
   market_order_id |-> moid, qty |-> qty, status |-> status,
   executed_qty |-> executed, match_id |-> match,
   leaves_qty |-> IF status = "EXECUTED" THEN qty - executed ELSE leaves]

Response(c, t, coid, moid, qty, status, executed, leaves, match) ==
  [client_id |-> c, ticker_id |-> t, client_order_id |-> coid,
   market_order_id |-> moid, qty |-> qty, status |-> status,
   executed_qty |-> executed, leaves_qty |-> leaves, match_id |-> match]

Update_TradeNamesTaker(t, moid, type, side, price, qty, newId, match) ==
  [ticker_id |-> t, type |-> type, side |-> side, price |-> price, qty |-> qty,
   new_order_id |-> newId, match_id |-> match,
   market_order_id |-> IF type = "TRADE" THEN taker.marketOrderId ELSE moid]

Update(t, moid, type, side, price, qty, newId, match) ==
  [ticker_id |-> t, market_order_id |-> moid, type |-> type, side |-> side,
   price |-> price, qty |-> qty, new_order_id |-> newId, match_id |-> match]

(* The rejection of a request whose order is not in the book.              *)
Unknown(c, t, coid) ==
  Response(c, t, coid, OrderId_INVALID, 0, "CANCEL_REJECTED", 0, 0,
           OrderId_INVALID)

-----------------------------------------------------------------------------
(* TokenManager::registerNewToken as the engine's requests see it: ids are *)
(* handed out from 1 upwards until the pool is used up; without an id      *)
(* decodeOuch drops the request.                                           *)
Register(c, t) ==
  /\ Len(id_to_token) < TokenPoolSize
  /\ id_to_token' = Append(id_to_token, [clientId |-> c, tickerId |-> t])

(* MEOrderBook::addOrder up to the call of match.                          *)
AddOrder(c, t, orderType, side, price, qty) ==
  LET coid == Len(id_to_token) + 1
      moid == books[t].nextMarketOrderId
  IN  /\ taker = NoTaker
      /\ Register(c, t)
      /\ books' = [books EXCEPT ![t] = TakeMarketId(@)]
      /\ taker' = [ticker |-> t, clientId |-> c, clientOrderId |-> coid,
                   marketOrderId |-> moid, orderType |-> orderType,
                   side |-> side, price |-> price, initialQuantity |-> qty,
                   remaining |-> qty, replacing |-> FALSE]
      /\ responses' = <<Response(c, t, coid, moid, qty, "ACCEPTED", 0, qty,
                                 OrderId_INVALID)>>
      /\ marketUpdates' = <<>>
      /\ UNCHANGED next_match_id

(* MEOrderBook::cancelOrder.  qty = 0 asks for all that remains.           *)

CancelOrder_NoBound(coid, qty) ==
  LET c == id_to_token[coid].clientId
      t == id_to_token[coid].tickerId
      id == books[t].orders[<<c, coid>>]
      order == books[t].pool[id]
      canceled == IF qty = 0 THEN order.remainingQuantity ELSE qty
  IN  /\ taker = NoTaker
      /\ <<c, coid>> \in DOMAIN books[t].orders
      /\ books' = [books EXCEPT ![t] =
                     SetRemaining(@, id, order.remainingQuantity - canceled)]
      /\ responses' = <<Response(c, t, coid, id, order.initialQuantity,
                                 "CANCELED", 0, canceled, OrderId_INVALID)>>
      /\ marketUpdates' = <<Update(t, id, "CANCEL", order.side, order.price,
                                   canceled, OrderId_INVALID, OrderId_INVALID)>>
      /\ UNCHANGED <<next_match_id, id_to_token, taker>>

CancelOrder(coid, qty) ==
  LET c == id_to_token[coid].clientId
      t == id_to_token[coid].tickerId
      id == books[t].orders[<<c, coid>>]
      order == books[t].pool[id]
      canceled == IF qty = 0 THEN order.remainingQuantity ELSE qty
  IN  /\ taker = NoTaker
      /\ \/ /\ <<c, coid>> \notin DOMAIN books[t].orders
            /\ responses' = <<Unknown(c, t, coid)>>
            /\ marketUpdates' = <<>>
            /\ UNCHANGED books
         \/ /\ <<c, coid>> \in DOMAIN books[t].orders
            /\ canceled > order.remainingQuantity
            /\ responses' = <<Response(c, t, coid, id, order.initialQuantity,
                                       "CANCEL_REJECTED", 0,
                                       order.remainingQuantity, OrderId_INVALID)>>
            /\ marketUpdates' = <<>>
            /\ UNCHANGED books
         \/ /\ <<c, coid>> \in DOMAIN books[t].orders
            /\ canceled <= order.remainingQuantity
            /\ books' = [books EXCEPT ![t] =
                           SetRemaining(@, id, order.remainingQuantity - canceled)]
            /\ responses' = <<Response(c, t, coid, id, order.initialQuantity,
                                       "CANCELED", 0, canceled, OrderId_INVALID)>>
            /\ marketUpdates' =
                 <<Update(t, id, "CANCEL", order.side, order.price, canceled,
                          OrderId_INVALID, OrderId_INVALID)>>
      /\ UNCHANGED <<next_match_id, id_to_token, taker>>

(* MEOrderBook::replaceOrder up to the call of match.  decodeOuch has      *)
(* registered the replacement, so newClientOrderId is never 0 and the id   *)
(* is used up even when the request is rejected.                           *)
ReplaceOrder(coid, orderType, price, qty) ==
  LET c == id_to_token[coid].clientId
      t == id_to_token[coid].tickerId
      oldId == books[t].orders[<<c, coid>>]
      side == books[t].pool[oldId].side
      newCoid == Len(id_to_token) + 1
      newId == books[t].nextMarketOrderId
  IN  /\ taker = NoTaker
      /\ Register(c, t)
      /\ \/ /\ <<c, coid>> \notin DOMAIN books[t].orders \/ qty = 0
            /\ responses' = <<Unknown(c, t, coid)>>
            /\ marketUpdates' = <<>>
            /\ UNCHANGED <<books, taker>>
         \/ /\ <<c, coid>> \in DOMAIN books[t].orders /\ qty # 0
            /\ books' = [books EXCEPT ![t] = TakeMarketId(remove(@, oldId))]
            /\ taker' = [ticker |-> t, clientId |-> c, clientOrderId |-> newCoid,
                         marketOrderId |-> newId, orderType |-> orderType,
                         side |-> side, price |-> price, initialQuantity |-> qty,
                         remaining |-> qty, replacing |-> TRUE]
            /\ responses' = <<Response(c, t, newCoid, newId, qty, "MODIFIED", 0,
                                       qty, OrderId_INVALID)>>
            /\ marketUpdates' = <<Update(t, oldId, "MODIFY", side, price, qty,
                                         newId, OrderId_INVALID)>>
      /\ UNCHANGED next_match_id

-----------------------------------------------------------------------------
(* MEOrderBook::match.                                                     *)

TakerMayTrade(p) ==
  /\ taker.remaining > 0
  /\ MayTradeAt(books[taker.ticker], taker.side, taker.price, p)

(* One iteration of the inner loop, against the head of the best level,    *)
(* which is at price p.                                                    *)
FillAt(p) ==
  LET t == taker.ticker
      id == Head(LevelAt(books[t], Opposite(taker.side), p))
      order == books[t].pool[id]
      fill == IF taker.remaining <= order.remainingQuantity
              THEN taker.remaining ELSE order.remainingQuantity
      takerLeft == taker.remaining - fill
      orderLeft == order.remainingQuantity - fill
  IN  /\ taker # NoTaker
      /\ TakerMayTrade(p)
      /\ books' = [books EXCEPT ![t] = SetRemaining(@, id, orderLeft)]
      /\ taker' = [taker EXCEPT !.remaining = takerLeft]
      /\ next_match_id' = next_match_id + 1
      /\ responses' =
           <<Response(order.clientId, t, order.clientOrderId, id,
                      order.initialQuantity, "EXECUTED", fill, orderLeft,
                      next_match_id),
             Response(taker.clientId, t, taker.clientOrderId,
                      taker.marketOrderId, taker.initialQuantity, "EXECUTED",
                      fill, takerLeft, next_match_id)>>
      /\ marketUpdates' =
           <<Update(t, id, "TRADE", order.side, order.price, fill,
                    OrderId_INVALID, next_match_id)>>
      /\ UNCHANGED id_to_token

Fill == \E p \in Prices : FillAt(p)

(* match returns: the taker is used up, or the loop ended or broke.        *)
MatchReturns ==
  /\ taker # NoTaker
  /\ ~ \E p \in Prices : TakerMayTrade(p)

(* Nothing remains.                                                        *)
Filled ==
  /\ MatchReturns
  /\ taker.remaining = 0
  /\ taker' = NoTaker
  /\ responses' = <<>>
  /\ marketUpdates' = <<>>
  /\ UNCHANGED <<books, next_match_id, id_to_token>>

(* A GoodTillCancel remainder rests.  The inserted order's initialQuantity *)
(* is the remainder.  Only addOrder publishes it: replaceOrder has already *)
(* published the whole replacement.                                        *)

Rest_Dropped ==
  /\ MatchReturns
  /\ taker.remaining > 0
  /\ taker.orderType = "GoodTillCancel"
  /\ taker' = NoTaker
  /\ responses' = <<>>
  /\ marketUpdates' = <<>>
  /\ UNCHANGED <<books, next_match_id, id_to_token>>

Rest ==
  /\ MatchReturns
  /\ taker.remaining > 0
  /\ taker.orderType = "GoodTillCancel"
  /\ books' = [books EXCEPT ![taker.ticker] =
                 insert(@, taker.marketOrderId,
                        [clientId |-> taker.clientId,
                         clientOrderId |-> taker.clientOrderId,
                         side |-> taker.side, price |-> taker.price,
                         initialQuantity |-> taker.remaining,
                         remainingQuantity |-> taker.remaining])]
  /\ taker' = NoTaker
  /\ responses' = <<>>
  /\ marketUpdates' =
       IF taker.replacing THEN <<>>
       ELSE <<Update(taker.ticker, taker.marketOrderId, "ADD", taker.side,
                     taker.price, taker.remaining, OrderId_INVALID,
                     OrderId_INVALID)>>
  /\ UNCHANGED <<next_match_id, id_to_token>>

(* A FillAndKill remainder is canceled.  Its order was never published by  *)
(* addOrder, so only replaceOrder takes it off the public book.            *)
Kill ==
  /\ MatchReturns
  /\ taker.remaining > 0
  /\ taker.orderType = "FillAndKill"
  /\ taker' = NoTaker
  /\ responses' = <<Response(taker.clientId, taker.ticker, taker.clientOrderId,
                             taker.marketOrderId, taker.initialQuantity,
                             "CANCELED", 0, taker.remaining, OrderId_INVALID)>>
  /\ marketUpdates' =
       IF taker.replacing
       THEN <<Update(taker.ticker, taker.marketOrderId, "CANCEL", taker.side,
                     taker.price, taker.remaining, OrderId_INVALID,
                     OrderId_INVALID)>>
       ELSE <<>>
  /\ UNCHANGED <<books, next_match_id, id_to_token>>

-----------------------------------------------------------------------------
(* MatchingEngine::processClientRequest: a request of each kind, and the   *)
(* steps of a handler under way.                                           *)
Request ==
  \/ \E c \in Clients, t \in Tickers, ty \in OrderType, s \in Side,
        p \in Prices, q \in Quantity : AddOrder(c, t, ty, s, p, q)
  \/ \E coid \in DOMAIN id_to_token, q \in Quantity : CancelOrder(coid, q)
  \/ \E coid \in DOMAIN id_to_token, ty \in OrderType, p \in Prices,
        q \in Quantity : ReplaceOrder(coid, ty, p, q)

Handler_SpinsAtWorsePrice ==
  LET loopCondition == /\ taker # NoTaker
                       /\ taker.remaining > 0
                       /\ \E p \in Prices : LevelAt(books[taker.ticker],
                                                   Opposite(taker.side), p) # <<>>
  IN  \/ Fill
      \/ ~loopCondition /\ (Filled \/ Rest \/ Kill)
      \/ loopCondition /\ MatchReturns /\ UNCHANGED vars

Handler == Fill \/ Filled \/ Rest \/ Kill

Next == Request \/ Handler

(* Once a request is taken, the engine thread goes on with its handler; it *)
(* need not receive another request.                                       *)
Spec == Init /\ [][Next]_vars /\ WF_vars(Handler)

-----------------------------------------------------------------------------
(* Properties.                                                             *)

(* The variables hold values of the code's types.                          *)
TypeOK ==
  /\ DOMAIN books = Tickers
  /\ \A t \in Tickers : BookTypeOK(books[t])
  /\ next_match_id \in Nat
  /\ id_to_token \in Seq([clientId : Clients, tickerId : Tickers])
  /\ taker \in Taker \cup {NoTaker}
  /\ responses \in Seq(MEClientResponse)
  /\ marketUpdates \in Seq(MEMarketUpdate)

(* After every step of a handler, pool, price levels and orders_ of each   *)
(* book describe the same set of orders; each level is in order of arrival *)
(* and no exhausted order is left in it (insert, remove, and the removals  *)
(* of match, cancelOrder and replaceOrder).                                *)
BooksConsistent == \A t \in Tickers : BookConsistent(books[t])

(* A book is never crossed, not even between two fills of one request: an  *)
(* order rests only once match found nothing left to trade it with.        *)
BooksUncrossed == \A t \in Tickers : Uncrossed(books[t])

(* Price-time priority: a trade takes the resting order that no other      *)
(* order of that side beats on price, nor on arrival at the same price.    *)
TradesBestFirst ==
  \A i \in 1 .. Len(marketUpdates') :
    marketUpdates'[i].type = "TRADE" =>
      LET u == marketUpdates'[i]
          b == books[u.ticker_id]
      IN  /\ u.market_order_id \in DOMAIN b.pool
          /\ \A id \in DOMAIN b.pool :
               b.pool[id].side = u.side =>
                 /\ NotWorse(u.side, u.price, b.pool[id].price)
                 /\ b.pool[id].price = u.price => u.market_order_id <= id

PriceTimePriority == [][TradesBestFirst]_vars

(* A request is handled to its end: match does not loop for ever, because  *)
(* every fill uses up the taker or a resting order.                        *)
MatchEnds == (taker # NoTaker) ~> (taker = NoTaker)

(* What is known of the order in hand while it is being matched: its ids   *)
(* are newer than any in its book, and its client id is not in the index.  *)
TakerIsNew ==
  taker # NoTaker =>
    LET b == books[taker.ticker]
    IN  /\ taker.marketOrderId < b.nextMarketOrderId
        /\ \A id \in DOMAIN b.pool : id < taker.marketOrderId
        /\ taker.clientOrderId = Len(id_to_token)
        /\ \A k \in DOMAIN b.orders : k[2] < taker.clientOrderId

(* The index holds only ids the gateway has handed out.                    *)
IndexedIdsKnown ==
  \A t \in Tickers : \A k \in DOMAIN books[t].orders : k[2] <= Len(id_to_token)

(* The inductive invariant behind the two book properties.                 *)
IInv ==
  /\ TypeOK
  /\ BooksConsistent
  /\ BooksUncrossed
  /\ TakerIsNew
  /\ IndexedIdsKnown
=============================================================================
