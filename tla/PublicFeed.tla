----------------------------- MODULE PublicFeed -----------------------------
(***************************************************************************)
(* The public book.  The matching engine composed with the shadow book     *)
(* that SnapshotStreamer (src/src/network/market/snapshot_stream.h) keeps  *)
(* from the engine's market updates and serves to recovering subscribers.  *)
(* Updates travel from the engine to the streamer through lossless queues  *)
(* in the order they are pushed, so applying them in the step that pushes  *)
(* them gives the shadow book as it is once the queues have drained.  A    *)
(* subscriber that has followed the ITCH feed from the start and missed no *)
(* datagram keeps a book of its own from the same updates.                 *)
(***************************************************************************)
EXTENDS MatchingEngine, ShadowBook, ItchFeed

VARIABLES
  shadow_book,        \* shadow_book_: ticker -> market order id -> order
  itch_book,          \* the subscriber's: ticker -> order ref -> order
  partlyCanceled,     \* history: <<ticker, id>> of orders canceled in part
  tradedReplacement   \* history: replacements that traded on their arrival

feedVars == <<vars, shadow_book, itch_book, partlyCanceled, tradedReplacement>>

(* A step of the engine pushes at most one update.                         *)
ApplyAll(book, updates) ==
  IF updates = <<>> THEN book ELSE applyToBook(book, updates[1])

FollowAll(book, updates) ==
  IF updates = <<>> THEN book ELSE Follow(book, updates[1])

FeedInit ==
  /\ Init
  /\ shadow_book = [t \in Tickers |-> EmptyMap]
  /\ itch_book = [t \in Tickers |-> EmptyMap]
  /\ partlyCanceled = {}
  /\ tradedReplacement = {}

(* What the update that a step pushed does to the public books, and what   *)
(* it says for the histories.                                              *)
Published ==
  /\ shadow_book' = ApplyAll(shadow_book, marketUpdates')
  /\ itch_book' = FollowAll(itch_book, marketUpdates')
  /\ partlyCanceled' = partlyCanceled \cup
       {<<u.ticker_id, u.market_order_id>> :
          u \in {v \in Range(marketUpdates') :
                   /\ v.type = "CANCEL"
                   /\ v.market_order_id \in DOMAIN books'[v.ticker_id].pool}}
  /\ tradedReplacement' = tradedReplacement \cup
       {<<u.ticker_id, taker.marketOrderId>> :
          u \in {v \in Range(marketUpdates') : v.type = "TRADE" /\ taker.replacing}}

FeedNext == Next /\ Published

FeedSpec == FeedInit /\ [][FeedNext]_feedVars

-----------------------------------------------------------------------------
(* The order as the book itself holds it, in public form.                  *)
Resting(t) ==
  [id \in DOMAIN books[t].pool |->
     [side |-> books[t].pool[id].side, price |-> books[t].pool[id].price,
      qty |-> books[t].pool[id].remainingQuantity]]

(* The README's "shadow book of all resting orders": between requests the  *)
(* shadow book is the set of resting orders.                               *)
ShadowMatchesBook ==
  taker = NoTaker => \A t \in Tickers : shadow_book[t] = Resting(t)

(* The same, as long as no order was ever canceled in part.                *)
ShadowMatchesBookUnlessPartlyCanceled ==
  partlyCanceled = {} => ShadowMatchesBook

(* What does hold.  Between requests the shadow book differs from the book *)
(* in two ways only: an order that was canceled in part is missing, and a  *)
(* replacement that traded on its arrival is shown with too much quantity, *)
(* or shown although it is gone.                                           *)
ShadowExactOtherwise ==
  taker = NoTaker =>
    \A t \in Tickers :
      /\ \A id \in DOMAIN books[t].pool :
           <<t, id>> \notin partlyCanceled =>
             /\ id \in DOMAIN shadow_book[t]
             /\ shadow_book[t][id].side = books[t].pool[id].side
             /\ shadow_book[t][id].price = books[t].pool[id].price
             /\ shadow_book[t][id].qty >= books[t].pool[id].remainingQuantity
             /\ <<t, id>> \notin tradedReplacement =>
                  shadow_book[t][id] = Resting(t)[id]
      /\ \A id \in DOMAIN shadow_book[t] :
           id \in DOMAIN books[t].pool \/ <<t, id>> \in tradedReplacement

(* A subscriber that follows the feed and one that starts from a snapshot  *)
(* see the same orders.  After a partial cancel the first may lack some,   *)
(* for it cannot place the replacement of an order it was told is deleted, *)
(* but what it shows is never in conflict with the snapshot (encode        *)
(* against applyToBook).                                                   *)
SubscriberAgreesWithSnapshot ==
  \A t \in Tickers :
    /\ \A ref \in DOMAIN itch_book[t] :
         ref \in DOMAIN shadow_book[t] /\ itch_book[t][ref] = shadow_book[t][ref]
    /\ partlyCanceled = {} => itch_book[t] = shadow_book[t]

(* The "CRITICAL ERROR: Received TRADE for unknown OrderID" of applyToBook *)
(* is logged only for an order that was canceled in part.                  *)
TradeUnknownOnlyAfterPartCancel ==
  [][\A u \in Range(marketUpdates') :
       /\ u.type = "TRADE"
       /\ u.market_order_id \notin DOMAIN shadow_book[u.ticker_id]
       => <<u.ticker_id, u.market_order_id>> \in partlyCanceled]_feedVars

-----------------------------------------------------------------------------
(* Why: the invariant behind these properties.                             *)

ShownOrder == [side : Side, price : Prices, qty : Quantity]

(* `shown' is the public form of an order with this side, price and        *)
(* quantity, up to a quantity that is too high unless it is to be exact.   *)
Shows(shown, side, price, qty, exact) ==
  /\ shown.side = side /\ shown.price = price
  /\ shown.qty >= qty
  /\ exact => shown.qty = qty

IdsIn(pairs, t) == {e[2] : e \in {d \in pairs : d[1] = t}}

(* One ticker: sh shows the orders of the pool but for those canceled in   *)
(* part, which it never shows again, and nothing else but replacements     *)
(* that are in hand or traded on arrival.                                  *)
View(sh, pool, hand, partly, traded) ==
  /\ \A id \in DOMAIN pool \ partly :
       /\ id \in DOMAIN sh
       /\ Shows(sh[id], pool[id].side, pool[id].price,
                pool[id].remainingQuantity, id \notin traded)
  /\ \A id \in DOMAIN sh :
       /\ sh[id] \in ShownOrder /\ id \notin partly
       /\ id \in DOMAIN pool \cup hand \cup traded

(* The replacement in hand, which is shown although it does not rest yet.  *)
Replacing(t) ==
  IF taker # NoTaker /\ taker.replacing /\ taker.ticker = t
  THEN {taker.marketOrderId} ELSE {}

TickerShown(t) ==
  View(shadow_book[t], books[t].pool, Replacing(t),
       IdsIn(partlyCanceled, t), IdsIn(tradedReplacement, t))

(* A replacement in hand is shown with its whole quantity, of which only   *)
(* trades take something.                                                  *)
HandShown ==
  taker # NoTaker =>
    LET t == taker.ticker
        id == taker.marketOrderId
    IN  /\ <<t, id>> \notin partlyCanceled
        /\ taker.replacing =>
             /\ id \in DOMAIN shadow_book[t]
             /\ shadow_book[t][id].qty > 0
             /\ Shows(shadow_book[t][id], taker.side, taker.price,
                      taker.remaining, <<t, id>> \notin tradedReplacement)

(* No id is spoken of before it is given.                                  *)
IdsGiven ==
  /\ \A e \in partlyCanceled \cup tradedReplacement :
       /\ e \in Tickers \X Nat
       /\ e[2] < books[e[1]].nextMarketOrderId
  /\ \A t \in Tickers : \A id \in DOMAIN shadow_book[t] :
       id \in Nat /\ id < books[t].nextMarketOrderId

(* Also while a request is handled, applyToBook keeps every ticker's       *)
(* shadow book a view of its pool, and shows the replacement in hand.      *)
ShadowSupport ==
  /\ DOMAIN shadow_book = Tickers /\ DOMAIN itch_book = Tickers
  /\ \A t \in Tickers : TickerShown(t)
  /\ HandShown /\ IdsGiven
=============================================================================
