---------------------------- MODULE VectorEngine ----------------------------
(***************************************************************************)
(* The matching engine thread over the books of order_book_vector.cpp, in  *)
(* the steps of module MatchingEngine.  The loop of match keeps a pointer  *)
(* to the level it trades at, taker.level, and fetches the best level      *)
(* again when the inner loop has ended, which is a step of its own.        *)
(***************************************************************************)
EXTENDS OrderBookVector, Sequences

CONSTANTS
  Tickers,        \* the tickers, one book each (TickerId)
  TokenPoolSize   \* how many order ids the gateway can register

ASSUME VectorTokenPoolSizeAssumption == TokenPoolSize \in Nat

VARIABLES
  books,          \* ticker_order_book_
  id_to_token,    \* the client and ticker of every id handed out
  taker,          \* the order being matched, NoTaker between requests
  responses,      \* the responses the last step pushed
  marketUpdates   \* the market updates the last step pushed

vars == <<books, id_to_token, taker, responses, marketUpdates>>

OrderId_INVALID == 0

Taker ==
  [ticker : Tickers, clientId : Clients, clientOrderId : Nat, marketOrderId : Nat,
   orderType : OrderType, side : Side, price : Prices, remaining : Quantity,
   replacing : BOOLEAN, level : Pointer(Prices)]

NoTaker == [ticker |-> "none"]

Init ==
  /\ books = [t \in Tickers |-> EmptyBook]
  /\ id_to_token = <<>>
  /\ taker = NoTaker
  /\ responses = <<>>
  /\ marketUpdates = <<>>

-----------------------------------------------------------------------------
(* The messages, with their ids and quantities.  Match ids are left out: a *)
(* TRADE of this book carries none.                                        *)

Response(coid, moid, status, executed, leaves) ==
  [client_order_id |-> coid, market_order_id |-> moid, status |-> status,
   executed_qty |-> executed, leaves_qty |-> leaves]

Update(t, moid, type, qty, newId) ==
  [ticker_id |-> t, market_order_id |-> moid, type |-> type, qty |-> qty, new_order_id |-> newId]

Rejected(coid, moid, leaves) ==
  /\ responses' = <<Response(coid, moid, "CANCEL_REJECTED", 0, leaves)>>
  /\ marketUpdates' = <<>>
  /\ UNCHANGED <<books, taker>>

-----------------------------------------------------------------------------
(* The gateway registers an id for a NEW order and for a replacement.      *)
Register(c, t) ==
  /\ Len(id_to_token) < TokenPoolSize
  /\ id_to_token' = Append(id_to_token, [clientId |-> c, tickerId |-> t])

(* The locals of addOrder or replaceOrder and of match on its entry, in    *)
(* the book b it is called on.                                             *)
MatchIn(b, t, c, coid, moid, orderType, side, price, qty, replacing) ==
  taker' = [ticker |-> t, clientId |-> c, clientOrderId |-> coid,
            marketOrderId |-> moid, orderType |-> orderType, side |-> side,
            price |-> price, remaining |-> qty, replacing |-> replacing,
            level |-> b.best[Opposite(side)]]

(* MEOrderBook::addOrder up to the call of match.                          *)
AddOrder(c, t, orderType, side, price, qty) ==
  LET coid == Len(id_to_token) + 1
      moid == books[t].nextMarketOrderId
  IN  /\ taker = NoTaker
      /\ Register(c, t)
      /\ books' = [books EXCEPT ![t].nextMarketOrderId = @ + 1]
      /\ MatchIn(books[t], t, c, coid, moid, orderType, side, price, qty, FALSE)
      /\ responses' = <<Response(coid, moid, "ACCEPTED", 0, qty)>>
      /\ marketUpdates' = <<>>

(* What cancelOrder pushes when it cancels.  The CANCELED response carries *)
(* what remains of the order; the map book's carries what was canceled.    *)

CancelMessages_QtyAsked(t, coid, id, qty, canceled, left) ==
  /\ responses' = <<Response(coid, id, "CANCELED", 0, left - canceled)>>
  /\ marketUpdates' = <<Update(t, id, "CANCEL", qty, OrderId_INVALID)>>

CancelMessages(t, coid, id, qty, canceled, left) ==
  /\ responses' = <<Response(coid, id, "CANCELED", 0, left - canceled)>>
  /\ marketUpdates' = <<Update(t, id, "CANCEL", canceled, OrderId_INVALID)>>

(* MEOrderBook::cancelOrder.                                               *)
CancelOrder(coid, qty) ==
  LET c == id_to_token[coid].clientId
      t == id_to_token[coid].tickerId
      id == books[t].orders[<<c, coid>>]
      left == books[t].pool[id].remainingQuantity
      canceled == IF qty = 0 THEN left ELSE qty
  IN  /\ taker = NoTaker
      /\ \/ /\ <<c, coid>> \notin DOMAIN books[t].orders
            /\ Rejected(coid, OrderId_INVALID, 0)
         \/ /\ <<c, coid>> \in DOMAIN books[t].orders
            /\ canceled > left
            /\ Rejected(coid, id, left)
         \/ /\ <<c, coid>> \in DOMAIN books[t].orders
            /\ canceled <= left
            /\ books' = [books EXCEPT ![t] = SetRemaining(@, id, left - canceled)]
            /\ CancelMessages(t, coid, id, qty, canceled, left)
            /\ UNCHANGED taker
      /\ UNCHANGED id_to_token

(* MEOrderBook::replaceOrder up to the call of match.                      *)
ReplaceOrder(coid, orderType, price, qty) ==
  LET c == id_to_token[coid].clientId
      t == id_to_token[coid].tickerId
      oldId == books[t].orders[<<c, coid>>]
      side == books[t].pool[oldId].side
      newCoid == Len(id_to_token) + 1
      newId == books[t].nextMarketOrderId
      without == [remove(books[t], oldId) EXCEPT !.nextMarketOrderId = @ + 1]
  IN  /\ taker = NoTaker
      /\ Register(c, t)
      /\ \/ /\ <<c, coid>> \notin DOMAIN books[t].orders \/ qty = 0
            /\ Rejected(coid, OrderId_INVALID, 0)
         \/ /\ <<c, coid>> \in DOMAIN books[t].orders /\ qty # 0
            /\ books' = [books EXCEPT ![t] = without]
            /\ MatchIn(without, t, c, newCoid, newId, orderType, side, price, qty, TRUE)
            /\ responses' = <<Response(newCoid, newId, "MODIFIED", 0, qty)>>
            /\ marketUpdates' = <<Update(t, oldId, "MODIFY", qty, newId)>>

-----------------------------------------------------------------------------
(* MEOrderBook::match.                                                     *)

OppositeLevel == books[taker.ticker].level[Opposite(taker.side)][taker.level]

(* The condition of the outer loop, and the test that breaks it.           *)
MatchGoesOn ==
  /\ taker # NoTaker
  /\ taker.level # nullptr
  /\ taker.remaining > 0
  /\ ~Better(Opposite(taker.side), taker.price, taker.level)

(* An iteration of the inner loop, against the head of the level.          *)
Fill ==
  LET t == taker.ticker
      id == OppositeLevel.head
      order == books[t].pool[id]
      fill == IF taker.remaining <= order.remainingQuantity
              THEN taker.remaining ELSE order.remainingQuantity
      takerLeft == taker.remaining - fill
      orderLeft == order.remainingQuantity - fill
  IN  /\ MatchGoesOn
      /\ OppositeLevel.head # nullptr
      /\ books' = [books EXCEPT ![t] = SetRemaining(@, id, orderLeft)]
      /\ taker' = [taker EXCEPT !.remaining = takerLeft]
      /\ responses' =
           <<Response(order.clientOrderId, id, "EXECUTED", fill, orderLeft),
             Response(taker.clientOrderId, taker.marketOrderId, "EXECUTED",
                      fill, takerLeft)>>
      /\ marketUpdates' = <<Update(t, id, "TRADE", fill, OrderId_INVALID)>>
      /\ UNCHANGED id_to_token

(* The inner loop has emptied its level: level = best_ask_ (best_bid_).    *)

NextLevel_FollowsList ==
  /\ MatchGoesOn
  /\ OppositeLevel.head = nullptr
  /\ taker' = [taker EXCEPT !.level = OppositeLevel.next]
  /\ responses' = <<>>
  /\ marketUpdates' = <<>>
  /\ UNCHANGED <<books, id_to_token>>

NextLevel_KeepsLevel ==
  /\ MatchGoesOn
  /\ OppositeLevel.head = nullptr
  /\ responses' = <<>>
  /\ marketUpdates' = <<>>
  /\ UNCHANGED <<books, id_to_token, taker>>

NextLevel ==
  /\ MatchGoesOn
  /\ OppositeLevel.head = nullptr
  /\ taker' = [taker EXCEPT !.level = books[taker.ticker].best[Opposite(taker.side)]]
  /\ responses' = <<>>
  /\ marketUpdates' = <<>>
  /\ UNCHANGED <<books, id_to_token>>

(* match has returned; addOrder or replaceOrder ends.                      *)
HandlerEnds ==
  /\ taker # NoTaker
  /\ ~MatchGoesOn
  /\ taker' = NoTaker
  /\ UNCHANGED id_to_token

(* A GoodTillCancel remainder rests; only addOrder publishes it.           *)
Rest ==
  /\ HandlerEnds
  /\ taker.remaining > 0 /\ taker.orderType = "GoodTillCancel"
  /\ books' = [books EXCEPT ![taker.ticker] =
                 insert(@, taker.marketOrderId,
                        [clientId |-> taker.clientId,
                         clientOrderId |-> taker.clientOrderId,
                         side |-> taker.side, price |-> taker.price,
                         remainingQuantity |-> taker.remaining,
                         next |-> nullptr, prev |-> nullptr])]
  /\ responses' = <<>>
  /\ marketUpdates' =
       IF taker.replacing THEN <<>>
       ELSE <<Update(taker.ticker, taker.marketOrderId, "ADD", taker.remaining,
                     OrderId_INVALID)>>

(* A FillAndKill remainder is dropped.  addOrder tells the client so;      *)
(* replaceOrder tells nobody, where the map book tells client and public.  *)
Kill ==
  /\ HandlerEnds
  /\ taker.remaining > 0 /\ taker.orderType = "FillAndKill"
  /\ responses' =
       IF taker.replacing THEN <<>>
       ELSE <<Response(taker.clientOrderId, taker.marketOrderId, "CANCELED", 0,
                       taker.remaining)>>
  /\ marketUpdates' = <<>>
  /\ UNCHANGED books

Filled ==
  /\ HandlerEnds
  /\ taker.remaining = 0
  /\ responses' = <<>>
  /\ marketUpdates' = <<>>
  /\ UNCHANGED books

-----------------------------------------------------------------------------
(* MatchingEngine::processClientRequest.                                   *)
Request ==
  \/ \E c \in Clients, t \in Tickers, ty \in OrderType, s \in Side,
        p \in Prices, q \in Quantity : AddOrder(c, t, ty, s, p, q)
  \/ \E coid \in DOMAIN id_to_token, q \in Quantity : CancelOrder(coid, q)
  \/ \E coid \in DOMAIN id_to_token, ty \in OrderType, p \in Prices,
        q \in Quantity : ReplaceOrder(coid, ty, p, q)

Handler == Fill \/ NextLevel \/ Filled \/ Rest \/ Kill

Next == Request \/ Handler

(* The engine thread goes on with a handler it has begun.                  *)
Spec == Init /\ [][Next]_vars /\ WF_vars(Handler)

-----------------------------------------------------------------------------
(* Properties.                                                             *)

(* After every step the pointers describe the orders in the pool: the list *)
(* of levels holds the occupied ones, best first, the cached best level is *)
(* its head, each level lists its orders in order of arrival up to its     *)
(* tail, unoccupied levels are clear, and orders_ finds every order        *)
(* (insertPricelevel, removePriceLevel, insert, remove).                   *)
VectorBooksConsistent == \A t \in Tickers : VectorBookConsistent(books[t])

(* What is left of an order.                                               *)
Left(b, id) == IF id \in DOMAIN b.pool THEN b.pool[id].remainingQuantity ELSE 0

(* What the updates of a step say of a resting order explains what the     *)
(* step did to it.                                                         *)
Explained(t, id) ==
  LET about == {u \in Range(marketUpdates') : u.ticker_id = t /\ u.market_order_id = id}
  IN  \/ about = {} /\ Left(books'[t], id) = Left(books[t], id)
      \/ \E u \in about :
           \/ /\ u.type \in {"TRADE", "CANCEL"}
              /\ Left(books'[t], id) = Left(books[t], id) - u.qty
           \/ u.type = "MODIFY" /\ id \notin DOMAIN books'[t].pool

StepExplained == \A t \in Tickers : \A id \in DOMAIN books[t].pool : Explained(t, id)

(* The engine's market updates account for every change to a resting       *)
(* order: its quantity goes down by what a TRADE or CANCEL update about it *)
(* says, and never up, it leaves the book otherwise only where a MODIFY    *)
(* names it, and without an update it stays as it is (match, cancelOrder,  *)
(* replaceOrder).  What ITCH makes of the updates is not its concern.      *)
UpdatesExplainBook == [][StepExplained]_vars

(* What remains, in hand or in its book, of the order a response is about. *)
RemainingOf(bs, k, r) ==
  IF k # NoTaker /\ k.clientOrderId = r.client_order_id THEN k.remaining
  ELSE Left(bs[id_to_token[r.client_order_id].tickerId], r.market_order_id)

CanceledReported ==
  \A r \in Range(responses') :
    r.status = "CANCELED" =>
      r.leaves_qty = RemainingOf(books, taker, r) - RemainingOf(books', taker', r)

(* leaves_qty_ of a CANCELED response is the quantity that was canceled:   *)
(* "response reports canceled quantity = 4" (test_matching_engine.cpp),    *)
(* and encodeOuch sends it as decrement_shares.                            *)
ReportsCanceledQuantity == [][CanceledReported]_vars

(* What the engine keeps true between two steps so that the pointers stay  *)
(* right.  A resting order has something left, an id already handed out,   *)
(* and the client and ticker its client order id was registered with.      *)
RestingKnown ==
  \A t \in Tickers : \A id \in DOMAIN books[t].pool :
    LET order == books[t].pool[id]
    IN  /\ id < books[t].nextMarketOrderId
        /\ order.remainingQuantity > 0
        /\ order.clientOrderId \in DOMAIN id_to_token
        /\ id_to_token[order.clientOrderId] =
             [clientId |-> order.clientId, tickerId |-> t]

(* The order in hand is newer than every order in its book.                *)
TakerIsNew ==
  taker # NoTaker =>
    LET b == books[taker.ticker]
    IN  /\ taker.marketOrderId < b.nextMarketOrderId
        /\ taker.clientOrderId \in DOMAIN id_to_token
        /\ id_to_token[taker.clientOrderId] =
             [clientId |-> taker.clientId, tickerId |-> taker.ticker]
        /\ \A id \in DOMAIN b.pool :
             /\ id < taker.marketOrderId
             /\ b.pool[id].clientOrderId # taker.clientOrderId

(* The level match holds is the best one, or one that its fills emptied    *)
(* and that it may still trade at.                                         *)
LevelInHand ==
  taker # NoTaker =>
    LET b == books[taker.ticker]
        side == Opposite(taker.side)
    IN  \/ taker.level = b.best[side]
        \/ /\ taker.level # nullptr
           /\ b.level[side][taker.level].head = nullptr
           /\ ~Better(side, taker.price, taker.level)

TypeOK ==
  /\ DOMAIN books = Tickers
  /\ \A t \in Tickers : BookTypeOK(books[t])
  /\ id_to_token \in Seq([clientId : Clients, tickerId : Tickers])
  /\ taker \in Taker \cup {NoTaker}

(* The facts that make VectorBooksConsistent inductive: the typing of the  *)
(* books and of the order in hand, that no order rests with nothing left   *)
(* or under an id of somebody else, and that the level pointer of match is *)
(* never left on a level it should not look at (addOrder, replaceOrder,    *)
(* match).                                                                 *)
VectorSupport == TypeOK /\ RestingKnown /\ TakerIsNew /\ LevelInHand

RestingIn(b) ==
  [id \in DOMAIN b.pool |->
     [client |-> b.pool[id].clientId, side |-> b.pool[id].side,
      price |-> b.pool[id].price, left |-> b.pool[id].remainingQuantity]]

AbstractResting == [t \in Tickers |-> RestingIn(books[t])]

HandOf(k) ==
  IF k = NoTaker THEN NoTaker
  ELSE [ticker |-> k.ticker, id |-> k.marketOrderId, client |-> k.clientId,
        side |-> k.side, price |-> k.price, left |-> k.remaining,
        kill |-> k.orderType = "FillAndKill"]

AbstractArrivals == [t \in Tickers |-> books[t].nextMarketOrderId]

Abstract == INSTANCE PriceTimeBook WITH
  resting  <- AbstractResting,
  hand     <- HandOf(taker),
  arrivals <- AbstractArrivals

(* The vector book has the semantics of PriceTimeBook, as the map book has *)
(* (ImplementsPriceTimeBook in MapBookRefinement): its matching through    *)
(* cached and linked levels trades, rests, cancels and replaces as the     *)
(* abstract book does.                                                     *)
VectorImplementsPriceTimeBook == Abstract!Safety

(* And match does not sit on the order in hand: whichever level pointer it *)
(* holds, it comes to a trade or to its end.                               *)
VectorDealsWithHand == Abstract!Liveness
=============================================================================
