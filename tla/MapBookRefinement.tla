------------------------- MODULE MapBookRefinement -------------------------
(***************************************************************************)
(* The engine over the map book implements the abstract book.  The pool    *)
(* gives the resting orders, the order in hand is the handler's, and the   *)
(* market order ids are the arrival numbers.  Price levels, index, message *)
(* queues, match ids and the gateway's ids are hidden.                     *)
(***************************************************************************)
EXTENDS MatchingEngine

RestingIn(b) ==
  [id \in DOMAIN b.pool |->
     [client |-> b.pool[id].clientId, side |-> b.pool[id].side,
      price |-> b.pool[id].price, left |-> b.pool[id].remainingQuantity]]

AbstractResting == [t \in Tickers |-> RestingIn(books[t])]

HandOf(k) ==
  IF k = NoTaker THEN NoTaker
  ELSE [ticker |-> k.ticker, id |-> k.marketOrderId, client |-> k.clientId,
        side |-> k.side, price |-> k.price, left |-> k.remaining,
        kill |-> k.orderType = "FillAndKill"]

AbstractArrivals == [t \in Tickers |-> books[t].nextMarketOrderId]

Abstract == INSTANCE PriceTimeBook WITH
  resting  <- AbstractResting,
  hand     <- HandOf(taker),
  arrivals <- AbstractArrivals

(* The map book has the semantics of PriceTimeBook: every step of addOrder,*)
(* cancelOrder, replaceOrder and match is a step of the abstract book or   *)
(* changes nothing it shows.                                               *)
ImplementsPriceTimeBook == Abstract!Safety
=============================================================================
