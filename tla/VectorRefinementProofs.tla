----------------------- MODULE VectorRefinementProofs -----------------------
(***************************************************************************)
(* What others see of the engine over the vector book, for every value of  *)
(* the constants: its market updates say what happened to resting orders,  *)
(* and it trades as the abstract book does.                                *)
(*                                                                         *)
(* VectorInv is what the steps need.  The level match holds is the best    *)
(* one or empty, so its head is the abstract book's first in line and the  *)
(* loop ends only when no resting order crosses; and no two orders share   *)
(* an id, so that a message is about one of them.                          *)
(***************************************************************************)
EXTENDS VectorEngineProofs

(* Leaves are for Zenon unless they name another prover.                   *)
USE ZenonT(60)

-----------------------------------------------------------------------------
(* What a step pushes, and what it leaves of the orders.                   *)

(* The elements of the sequences that the steps push.                      *)
Pushed(q, S) == \A x : x \in Range(q) <=> x \in S

(* A step that pushes nothing leaves no message.                           *)
LEMMA NonePushed == Pushed(<<>>, {})
<1>1. DOMAIN <<>> = {}
  BY SMTT(30), SMTT(60)
<1> QED BY <1>1 DEF Pushed, Range

(* A step that pushes once leaves that message.                            *)
LEMMA OnePushed ==
  ASSUME NEW x
  PROVE  Pushed(<<x>>, {x})
<1>1. DOMAIN <<x>> = {1} /\ <<x>>[1] = x
  BY SMTT(30), SMTT(60)
<1> QED BY <1>1 DEF Pushed, Range

(* What is left of the orders of t after a step that leaves id with qty.   *)
LeftsAre(t, id, qty) ==
  /\ Left(books'[t], id) = qty
  /\ \A i \in DOMAIN books[t].pool : i # id => Left(books'[t], i) = Left(books[t], i)

(* A step that leaves qty of one order leaves the others as they are.      *)
LEMMA LeftAfter ==
  ASSUME NEW t \in Tickers, NEW id, NEW qty, OneLeaves(t, id, qty)
  PROVE  LeftsAre(t, id, qty)
<1> DEFINE b == books[t]
           n == books'[t]
<1>1. id \in DOMAIN b.pool /\ Leaves(b, n, id, qty)
  BY DEF OneLeaves
<1> HIDE DEF b, n
<1>2. CASE qty = 0
  <2>1. DOMAIN n.pool = DOMAIN b.pool \ {id}
    BY <1>1, <1>2 DEF Leaves
  <2>2. Left(n, id) = qty
    BY <1>2, <2>1 DEF Left
  <2>3. ASSUME NEW i \in DOMAIN b.pool, i # id PROVE Left(n, i) = Left(b, i)
    <3>1. i \in DOMAIN n.pool
      BY <2>1, <2>3
    <3>2. n.pool[i].remainingQuantity = b.pool[i].remainingQuantity
      BY <1>1, <2>3, <3>1 DEF Leaves
    <3> QED BY <3>1, <3>2 DEF Left
  <2> QED BY <2>2, <2>3 DEF LeftsAre, b, n
<1>3. CASE qty # 0
  <2>1. DOMAIN n.pool = DOMAIN b.pool
    BY <1>1, <1>3 DEF Leaves
  <2>2. Left(n, id) = qty
    BY <1>1, <2>1 DEF Left, Leaves
  <2>3. ASSUME NEW i \in DOMAIN b.pool, i # id PROVE Left(n, i) = Left(b, i)
    <3>1. n.pool[i].remainingQuantity = b.pool[i].remainingQuantity
      BY <1>1, <2>1, <2>3 DEF Leaves
    <3> QED BY <2>1, <3>1 DEF Left
  <2> QED BY <2>2, <2>3 DEF LeftsAre, b, n
<1> QED BY <1>2, <1>3

-----------------------------------------------------------------------------
(* What the market updates say.                                            *)

(* A step leaves the same of every order of t that it has not to explain.  *)
LeftSame(t, id) == Left(books'[t], id) = Left(books[t], id)

(* A step that publishes nothing leaves every order as it is.              *)
LEMMA QuietStep ==
  ASSUME marketUpdates' = <<>>,
         \A t \in Tickers : \A id \in DOMAIN books[t].pool : LeftSame(t, id)
  PROVE  StepExplained
<1>1. Range(marketUpdates') = {}
  BY NonePushed DEF Pushed
<1> QED BY <1>1 DEF StepExplained, Explained, LeftSame

(* A step that publishes u changes no order but the one u names, and that  *)
(* one as u says.                                                          *)
SaysWhy(u, t, id) ==
  \/ u.type \in {"TRADE", "CANCEL"} /\ Left(books'[t], id) = Left(books[t], id) - u.qty
  \/ u.type = "MODIFY" /\ id \notin DOMAIN books'[t].pool

(* A step with one update explains the book if its update explains the     *)
(* order it names and no other order changes.                              *)
LEMMA UpdateStep ==
  ASSUME NEW u, marketUpdates' = <<u>>,
         \A t \in Tickers : \A id \in DOMAIN books[t].pool :
           IF u.ticker_id = t /\ u.market_order_id = id THEN SaysWhy(u, t, id)
           ELSE LeftSame(t, id)
  PROVE  StepExplained
<1>1. \A x : x \in Range(marketUpdates') <=> x = u
  BY OnePushed DEF Pushed
<1> DEFINE about(t, id) ==
             {x \in Range(marketUpdates') : x.ticker_id = t /\ x.market_order_id = id}
<1>2. ASSUME NEW t \in Tickers, NEW id \in DOMAIN books[t].pool
      PROVE  Explained(t, id)
  <2>1. CASE u.ticker_id = t /\ u.market_order_id = id
    <3>1. u \in about(t, id) /\ SaysWhy(u, t, id)
      BY <1>1, <2>1
    <3> QED BY <3>1 DEF Explained, SaysWhy
  <2>2. CASE ~(u.ticker_id = t /\ u.market_order_id = id)
    <3>1. about(t, id) = {} /\ LeftSame(t, id)
      BY <1>1, <2>2
    <3> QED BY <3>1 DEF Explained, LeftSame
  <2> QED BY <2>1, <2>2
<1> QED BY <1>2 DEF StepExplained

(* What is left of orders in a book that a step does not change.           *)
LEMMA OtherBooks ==
  ASSUME NEW t \in Tickers, OnlyBook(t), NEW u \in Tickers, u # t, NEW id
  PROVE  LeftSame(u, id)
BY DEF OnlyBook, LeftSame

(* A TRADE or CANCEL of x says why the order id of t has x less.           *)
LEMMA LessExplained ==
  ASSUME VectorInv, NEW t \in Tickers, NEW id \in DOMAIN books[t].pool, NEW x, NEW type,
         type \in {"TRADE", "CANCEL"}, books[t].pool[id].remainingQuantity - x \in Quantity,
         books' = [books EXCEPT ![t] =
                     SetRemaining(books[t], id, books[t].pool[id].remainingQuantity - x)],
         marketUpdates' = <<Update(t, id, type, x, OrderId_INVALID)>>
  PROVE  StepExplained
<1> DEFINE u == Update(t, id, type, x, OrderId_INVALID)
           left == books[t].pool[id].remainingQuantity
           rest == left - x
<1>1. u.ticker_id = t /\ u.market_order_id = id /\ u.type = type /\ u.qty = x
  BY DEF Update
<1>2. marketUpdates' = <<u>> /\ Left(books[t], id) = left
  BY DEF Left
<1>3. OneLeaves(t, id, rest)
  <2> HIDE DEF rest
  <2>1. rest \in Quantity /\ books' = [books EXCEPT ![t] = SetRemaining(books[t], id, rest)]
    BY DEF rest
  <2> QED BY <2>1, SetRemainingStep
<1>4. LeftsAre(t, id, rest) /\ OnlyBook(t)
  <2> HIDE DEF rest
  <2> QED BY <1>3, LeftAfter DEF OneLeaves
<1>5. SaysWhy(u, t, id)
  <2> HIDE DEF u, left
  <2> QED BY <1>1, <1>2, <1>4 DEF SaysWhy, LeftsAre
<1> HIDE DEF u, rest
<1>6. ASSUME NEW v \in Tickers, NEW i \in DOMAIN books[v].pool
      PROVE  IF u.ticker_id = v /\ u.market_order_id = i THEN SaysWhy(u, v, i)
             ELSE LeftSame(v, i)
  <2>1. CASE v = t /\ i = id
    BY <1>1, <1>5, <2>1
  <2>2. CASE v # t
    BY <1>1, <1>4, <2>2, OtherBooks
  <2>3. CASE v = t /\ i # id
    BY <1>1, <1>4, <2>3 DEF LeftsAre, LeftSame
  <2> QED BY <2>1, <2>2, <2>3
<1> QED BY <1>2, <1>6, UpdateStep

(* A step that changes no book and publishes nothing.                      *)
LEMMA NothingToExplain ==
  ASSUME UNCHANGED books, marketUpdates' = <<>>
  PROVE  StepExplained
<1>1. \A t \in Tickers : \A id \in DOMAIN books[t].pool : LeftSame(t, id)
  BY DEF LeftSame
<1> QED BY <1>1, QuietStep

(* addOrder changes no resting order before it matches.                    *)
LEMMA AddOrderExplained ==
  ASSUME VectorInv, NEW c \in Clients, NEW t \in Tickers, NEW orderType \in OrderType,
         NEW side \in Side, NEW price \in Prices, NEW qty \in Quantity,
         AddOrder(c, t, orderType, side, price, qty)
  PROVE  StepExplained
<1> DEFINE b == books[t]
           n == [b EXCEPT !.nextMarketOrderId = b.nextMarketOrderId + 1]
<1>1. books' = [books EXCEPT ![t] = n] /\ marketUpdates' = <<>>
  BY DEF AddOrder
<1>2. DOMAIN books = Tickers /\ GoodBook(b, t, id_to_token)
  BY DEF VectorInv
<1>3. n.pool = b.pool
  <2>1. TakesId(b, n)
    BY <1>2, IdTaken DEF GoodBook
  <2> QED BY <2>1 DEF TakesId
<1> HIDE DEF n
<1>4. books'[t] = n /\ OnlyBook(t)
  BY <1>1, <1>2 DEF OnlyBook
<1>5. ASSUME NEW v \in Tickers, NEW i \in DOMAIN books[v].pool PROVE LeftSame(v, i)
  <2>1. CASE v = t
    BY <1>3, <1>4, <2>1 DEF LeftSame, Left
  <2>2. CASE v # t
    BY <1>4, <2>2, OtherBooks
  <2> QED BY <2>1, <2>2
<1> QED BY <1>1, <1>5, QuietStep

(* cancelOrder publishes what it cancels.                                  *)
LEMMA CancelOrderExplained ==
  ASSUME VectorInv, NEW coid \in DOMAIN id_to_token, NEW qty \in Quantity,
         CancelOrder(coid, qty)
  PROVE  StepExplained
<1>1. CASE UNCHANGED books /\ marketUpdates' = <<>>
  BY <1>1, NothingToExplain
<1>2. ASSUME NEW t \in Tickers, NEW id \in DOMAIN books[t].pool, NEW canceled, NEW left,
             Cancels(coid, t, id, canceled, left)
      PROVE  StepExplained
  <2>1. /\ left = books[t].pool[id].remainingQuantity /\ left - canceled \in Quantity
        /\ books' = [books EXCEPT ![t] = SetRemaining(books[t], id, left - canceled)]
        /\ marketUpdates' = <<Update(t, id, "CANCEL", canceled, OrderId_INVALID)>>
    BY <1>2 DEF Cancels
  <2>2. "CANCEL" \in {"TRADE", "CANCEL"}
    OBVIOUS
  <2> QED BY <2>1, <2>2, LessExplained
<1> QED BY <1>1, <1>2, CancelOrderDoes DEF Rejected

(* replaceOrder publishes the order it takes off the book.                 *)
LEMMA ReplaceOrderExplained ==
  ASSUME VectorInv, NEW coid \in DOMAIN id_to_token, NEW orderType \in OrderType,
         NEW price \in Prices, NEW qty \in Quantity, ReplaceOrder(coid, orderType, price, qty)
  PROVE  StepExplained
<1>1. CASE Refuses(coid)
  BY <1>1, NothingToExplain DEF Refuses, Rejected
<1>2. ASSUME NEW t \in Tickers, NEW id \in DOMAIN books[t].pool,
             Replaces(coid, orderType, price, qty, t, id)
      PROVE  StepExplained
  <2> DEFINE u == Update(t, id, "MODIFY", qty, books[t].nextMarketOrderId)
             b == books[t]
             n == books'[t]
  <2>1. u.ticker_id = t /\ u.market_order_id = id /\ u.type = "MODIFY"
    BY DEF Update
  <2>2. marketUpdates' = <<u>> /\ OnlyBook(t) /\ Vacates(b, n, id)
    BY <1>2 DEF Replaces
  <2> HIDE DEF u
  <2>3. SaysWhy(u, t, id)
    BY <2>1, <2>2 DEF SaysWhy, Vacates
  <2>4. ASSUME NEW v \in Tickers, NEW i \in DOMAIN books[v].pool
        PROVE  IF u.ticker_id = v /\ u.market_order_id = i THEN SaysWhy(u, v, i)
               ELSE LeftSame(v, i)
    <3>1. CASE v = t /\ i = id
      BY <2>1, <2>3, <3>1
    <3>2. CASE v # t
      BY <2>1, <2>2, <3>2, OtherBooks
    <3>3. CASE v = t /\ i # id
      <4>1. i \in DOMAIN n.pool /\ n.pool[i].remainingQuantity = b.pool[i].remainingQuantity
        BY <2>2, <3>3 DEF Vacates
      <4>2. LeftSame(v, i)
        BY <3>3, <4>1 DEF LeftSame, Left
      <4> QED BY <2>1, <3>3, <4>2
    <3> QED BY <3>1, <3>2, <3>3
  <2> QED BY <2>2, <2>4, UpdateStep
<1> QED BY <1>1, <1>2, ReplaceOrderDoes

(* A fill publishes its trade.                                             *)
LEMMA FillExplained ==
  ASSUME VectorInv, Fill
  PROVE  StepExplained
<1> DEFINE t == taker.ticker
<1>1. t \in Tickers /\ \E id \in DOMAIN books[t].pool : \E fill : Fills(t, id, fill)
  BY FillDoes
<1>2. ASSUME NEW id \in DOMAIN books[t].pool, NEW fill, Fills(t, id, fill)
      PROVE  StepExplained
  <2>1. /\ books[t].pool[id].remainingQuantity - fill \in Quantity
        /\ books' = [books EXCEPT ![t] =
             SetRemaining(books[t], id, books[t].pool[id].remainingQuantity - fill)]
        /\ marketUpdates' = <<Update(t, id, "TRADE", fill, OrderId_INVALID)>>
    BY <1>2 DEF Fills
  <2>2. "TRADE" \in {"TRADE", "CANCEL"}
    OBVIOUS
  <2> HIDE DEF t
  <2> QED BY <1>1, <2>1, <2>2, LessExplained
<1> QED BY <1>1, <1>2

(* An order that comes to rest changes no other.                           *)
LEMMA RestExplained ==
  ASSUME VectorInv, Rest
  PROVE  StepExplained
<1> DEFINE t == taker.ticker
           b == books[t]
           n == books'[t]
           id == taker.marketOrderId
           u == Update(t, id, "ADD", taker.remaining, OrderId_INVALID)
<1>1. /\ taker # NoTaker /\ t \in Tickers /\ OnlyBook(t)
      /\ Inserted(b, n, id, RestingOrder(taker))
  BY RestDoes
<1>2. marketUpdates' = <<>> \/ marketUpdates' = <<u>>
  BY DEF Rest
<1>3. u.ticker_id = t /\ u.market_order_id = id
  BY DEF Update
<1>4. id \notin DOMAIN b.pool
  <2>1. \A i \in DOMAIN b.pool : i < id
    BY <1>1, InHand DEF GoodTaker, NewerThan
  <2>2. id \in Nat
    BY <1>1, InHand, TakerFields
  <2>3. ~(id < id)
    BY <2>2, SMTT(30), SMTT(60)
  <2> QED BY <2>1, <2>3
<1> HIDE DEF u
<1>5. ASSUME NEW v \in Tickers, NEW i \in DOMAIN books[v].pool
      PROVE  LeftSame(v, i) /\ ~(u.ticker_id = v /\ u.market_order_id = i)
  <2>1. CASE v = t
    <3>1. /\ i \in DOMAIN n.pool
          /\ n.pool[i].remainingQuantity = b.pool[i].remainingQuantity
      BY <1>1, <2>1 DEF Inserted, Adds
    <3> QED BY <1>3, <1>4, <2>1, <3>1 DEF LeftSame, Left
  <2>2. CASE v # t
    BY <1>1, <1>3, <2>2, OtherBooks
  <2> QED BY <2>1, <2>2
<1>6. CASE marketUpdates' = <<>>
  BY <1>5, <1>6, QuietStep
<1>7. CASE marketUpdates' = <<u>>
  BY <1>5, <1>7, UpdateStep
<1> QED BY <1>2, <1>6, <1>7

(* So every step explains itself.                                          *)
LEMMA NextExplained == VectorInv /\ [Next]_vars => [StepExplained]_vars
<1> SUFFICES ASSUME VectorInv, Next PROVE StepExplained
  OBVIOUS
<1>1. CASE Request
  BY <1>1, AddOrderExplained, CancelOrderExplained, ReplaceOrderExplained DEF Request
<1>2. CASE NextLevel \/ Filled \/ Kill
  BY <1>2, NothingToExplain DEF NextLevel, Filled, Kill
<1>3. CASE Fill \/ Rest
  BY <1>3, FillExplained, RestExplained
<1> QED BY <1>1, <1>2, <1>3 DEF Next, Handler

(* The market updates account for every change to a resting order, for any *)
(* requests: match, cancelOrder and replaceOrder publish what they take.   *)
THEOREM VectorUpdatesExplainBook == Spec => UpdatesExplainBook
BY NextExplained, SpecInv, PTL DEF Spec, UpdatesExplainBook
-----------------------------------------------------------------------------
(* The vector book implements PriceTimeBook.                               *)

(* A resting order as the abstract book sees it.                           *)
ShownOrder(order) ==
  [client |-> order.clientId, side |-> order.side, price |-> order.price,
   left |-> order.remainingQuantity]

(* It is the same for the same order with the same left.                   *)
LEMMA SameShown ==
  ASSUME NEW o, NEW n, SameOrder(o, n), n.remainingQuantity = o.remainingQuantity
  PROVE  ShownOrder(n) = ShownOrder(o)
BY DEF SameOrder, ShownOrder

(* And differs in left when that is all that differs.                      *)
LEMMA FewerShown ==
  ASSUME NEW o, NEW n, SameOrder(o, n)
  PROVE  ShownOrder(n) = [ShownOrder(o) EXCEPT !.left = n.remainingQuantity]
<1>1. /\ n.clientId = o.clientId /\ n.side = o.side /\ n.price = o.price
  BY DEF SameOrder
<1> DEFINE c == o.clientId
           s == o.side
           p == o.price
           q == o.remainingQuantity
           r == n.remainingQuantity
<1>2. ShownOrder(n) = [client |-> c, side |-> s, price |-> p, left |-> r]
  BY <1>1 DEF ShownOrder
<1>3. ShownOrder(o) = [client |-> c, side |-> s, price |-> p, left |-> q]
  BY DEF ShownOrder
<1> HIDE DEF c, s, p, q, r
<1> DEFINE x == [client |-> c, side |-> s, price |-> p, left |-> q]
<1>4. [x EXCEPT !.left = r] = [client |-> c, side |-> s, price |-> p, left |-> r]
  BY SMTT(30), SMTT(60)
<1> HIDE DEF x
<1>5. ShownOrder(o) = x
  BY <1>3 DEF x
<1> QED BY <1>2, <1>4, <1>5 DEF r

(* What a book shows.                                                      *)
LEMMA ShownIs ==
  ASSUME NEW b
  PROVE  RestingIn(b) = [id \in DOMAIN b.pool |-> ShownOrder(b.pool[id])]
BY DEF RestingIn, ShownOrder

(* A book without the order id shows the others.                           *)
ShownLess(b, n, id) == RestingIn(n) = Abstract!Erase(RestingIn(b), id)

(* Taking an order out of the book takes it out of what the book shows.    *)
LEMMA DropShown ==
  ASSUME NEW b, NEW n, NEW id, DOMAIN n.pool = DOMAIN b.pool \ {id},
         \A i \in DOMAIN n.pool :
           /\ SameOrder(b.pool[i], n.pool[i])
           /\ n.pool[i].remainingQuantity = b.pool[i].remainingQuantity
  PROVE  ShownLess(b, n, id)
<1> DEFINE r == RestingIn(b)
           w == RestingIn(n)
<1>1. /\ r = [i \in DOMAIN b.pool |-> ShownOrder(b.pool[i])]
      /\ w = [i \in DOMAIN n.pool |-> ShownOrder(n.pool[i])]
  BY ShownIs
<1>2. \A i \in DOMAIN n.pool : ShownOrder(n.pool[i]) = ShownOrder(b.pool[i])
  BY SameShown
<1> HIDE DEF r, w
<1>3. DOMAIN r = DOMAIN b.pool /\ \A i \in DOMAIN n.pool : r[i] = ShownOrder(b.pool[i])
  BY <1>1
<1>4. w = [i \in DOMAIN r \ {id} |-> r[i]]
  BY <1>1, <1>2, <1>3
<1>5. w = Abstract!Erase(r, id)
  BY <1>4 DEF Abstract!Erase, Abstract!Restrict
<1> QED BY <1>5 DEF ShownLess, r, w

(* SetRemaining leaves the quantity it is given, as Leave does.            *)
ShownLeaves(b, n, id, qty) ==
  RestingIn(n) =
    IF qty = 0 THEN Abstract!Erase(RestingIn(b), id)
    ELSE Abstract!Assign(RestingIn(b), id, [RestingIn(b)[id] EXCEPT !.left = qty])

(* A fill or a partial cancel shows as a new quantity, or as the order     *)
(* gone.                                                                   *)
LEMMA LeavesShown ==
  ASSUME NEW b, NEW n, NEW id \in DOMAIN b.pool, NEW qty, Leaves(b, n, id, qty)
  PROVE  ShownLeaves(b, n, id, qty)
<1>1. CASE qty = 0
  <2>1. DOMAIN n.pool = DOMAIN b.pool \ {id}
    BY <1>1 DEF Leaves
  <2>2. \A i \in DOMAIN n.pool :
          /\ SameOrder(b.pool[i], n.pool[i])
          /\ n.pool[i].remainingQuantity = b.pool[i].remainingQuantity
    BY <2>1 DEF Leaves
  <2>3. ShownLess(b, n, id)
    BY <2>1, <2>2, DropShown
  <2> QED BY <1>1, <2>3 DEF ShownLess, ShownLeaves
<1>2. CASE qty # 0
  <2> DEFINE r == RestingIn(b)
             w == RestingIn(n)
             fewer == [r[id] EXCEPT !.left = qty]
  <2>1. /\ r = [i \in DOMAIN b.pool |-> ShownOrder(b.pool[i])]
        /\ w = [i \in DOMAIN n.pool |-> ShownOrder(n.pool[i])]
    BY ShownIs
  <2>2. DOMAIN n.pool = DOMAIN b.pool /\ n.pool[id].remainingQuantity = qty
        /\ \A i \in DOMAIN b.pool : SameOrder(b.pool[i], n.pool[i])
    BY <1>2 DEF Leaves
  <2>3. ASSUME NEW i \in DOMAIN b.pool, i # id PROVE ShownOrder(n.pool[i]) = ShownOrder(b.pool[i])
    <3>1. n.pool[i].remainingQuantity = b.pool[i].remainingQuantity
      BY <2>2, <2>3 DEF Leaves
    <3> QED BY <2>2, <3>1, SameShown
  <2>4. ShownOrder(n.pool[id]) = [ShownOrder(b.pool[id]) EXCEPT !.left = qty]
    <3>1. ShownOrder(n.pool[id]) =
            [ShownOrder(b.pool[id]) EXCEPT !.left = n.pool[id].remainingQuantity]
      BY <2>2, FewerShown, SMTT(30), SMTT(60)
    <3> QED BY <2>2, <3>1
  <2> HIDE DEF r, w
  <2>5. r[id] = ShownOrder(b.pool[id]) /\ DOMAIN r = DOMAIN b.pool
        /\ \A i \in DOMAIN b.pool : r[i] = ShownOrder(b.pool[i])
    BY <2>1
  <2>6. ShownOrder(n.pool[id]) = fewer
    BY <2>4, <2>5
  <2> HIDE DEF fewer
  <2>7. DOMAIN r \cup {id} = DOMAIN n.pool
    BY <2>2, <2>5
  <2>8. w = [i \in DOMAIN r \cup {id} |-> IF i = id THEN fewer ELSE r[i]]
    <3>1. \A i \in DOMAIN n.pool :
            ShownOrder(n.pool[i]) = IF i = id THEN fewer ELSE r[i]
      BY <2>2, <2>3, <2>5, <2>6
    <3> QED BY <2>1, <2>7, <3>1
  <2>9. w = Abstract!Assign(r, id, fewer)
    BY <2>8 DEF Abstract!Assign
  <2> QED BY <1>2, <2>9 DEF ShownLeaves, r, w, fewer
<1> QED BY <1>1, <1>2

(* A step that changes one book changes what one ticker shows.             *)
ShownStep(t) ==
  /\ AbstractResting' = [AbstractResting EXCEPT ![t] = RestingIn(books'[t])]
  /\ AbstractResting[t] = RestingIn(books[t])
  /\ AbstractArrivals' = [AbstractArrivals EXCEPT ![t] = books'[t].nextMarketOrderId]
  /\ AbstractArrivals[t] = books[t].nextMarketOrderId

(* Books the step leaves alone show what they showed.                      *)
LEMMA OneBookShown ==
  ASSUME NEW t \in Tickers, OnlyBook(t)
  PROVE  ShownStep(t)
<1>1. \A u \in Tickers : u # t => books'[u] = books[u]
  BY DEF OnlyBook
<1>2. AbstractResting' = [AbstractResting EXCEPT ![t] = RestingIn(books'[t])]
  BY <1>1 DEF AbstractResting, RestingIn
<1>3. AbstractArrivals' = [AbstractArrivals EXCEPT ![t] = books'[t].nextMarketOrderId]
  BY <1>1 DEF AbstractArrivals
<1> QED BY <1>2, <1>3 DEF ShownStep, AbstractResting, AbstractArrivals

(* When no id is taken, no arrival is shown.                               *)
LEMMA NoArrival ==
  ASSUME NEW t \in Tickers, ShownStep(t),
         books'[t].nextMarketOrderId = books[t].nextMarketOrderId
  PROVE  UNCHANGED AbstractArrivals
<1>1. AbstractArrivals' = [AbstractArrivals EXCEPT ![t] = AbstractArrivals[t]]
  BY DEF ShownStep
<1> QED BY <1>1 DEF AbstractArrivals

(* Lowering what remains of a resting order, and removing an exhausted     *)
(* one, is Leave.                                                          *)
LEMMA LeaveShown ==
  ASSUME VectorInv, NEW t \in Tickers, NEW id \in DOMAIN books[t].pool, NEW qty \in Quantity,
         books' = [books EXCEPT ![t] = SetRemaining(books[t], id, qty)]
  PROVE  Abstract!Leave(t, id, qty) /\ UNCHANGED AbstractArrivals
<1> DEFINE r == AbstractResting[t]
           fewer == [r[id] EXCEPT !.left = qty]
<1>1. OneLeaves(t, id, qty)
  BY SetRemainingStep
<1>2. /\ ShownStep(t) /\ Leaves(books[t], books'[t], id, qty)
  BY <1>1, OneBookShown DEF OneLeaves
<1>3. ShownLeaves(books[t], books'[t], id, qty)
  BY <1>2, LeavesShown
<1>4. r = RestingIn(books[t])
  BY <1>2 DEF ShownStep
<1>5. RestingIn(books'[t]) = IF qty = 0 THEN Abstract!Erase(r, id)
                             ELSE Abstract!Assign(r, id, fewer)
  BY <1>3, <1>4 DEF ShownLeaves
<1>6. UNCHANGED AbstractArrivals
  <2>1. books'[t].nextMarketOrderId = books[t].nextMarketOrderId
    BY <1>2 DEF Leaves
  <2> QED BY <1>2, <2>1, NoArrival
<1> HIDE DEF fewer
<1>7. AbstractResting' = [AbstractResting EXCEPT ![t] = RestingIn(books'[t])]
  BY <1>2 DEF ShownStep
<1> QED BY <1>5, <1>6, <1>7 DEF Abstract!Leave, fewer

(* The order in hand as the abstract book sees it.                         *)
LEMMA HandShown ==
  ASSUME NEW k \in Taker
  PROVE  /\ HandOf(k) = [ticker |-> k.ticker, id |-> k.marketOrderId,
                         client |-> k.clientId, side |-> k.side,
                         price |-> k.price, left |-> k.remaining,
                         kill |-> k.orderType = "FillAndKill"]
         /\ HandOf(k) # Abstract!NoOrder
         /\ HandOf(k) \in Abstract!Order
<1>1. HandOf(k) = [ticker |-> k.ticker, id |-> k.marketOrderId,
                   client |-> k.clientId, side |-> k.side,
                   price |-> k.price, left |-> k.remaining,
                   kill |-> k.orderType = "FillAndKill"]
  BY TakerIsSome DEF HandOf
<1>2. HandOf(k) # Abstract!NoOrder
  <2>1. "side" \in DOMAIN HandOf(k)
    BY <1>1, SMTT(30), SMTT(60)
  <2>2. "side" \notin DOMAIN Abstract!NoOrder
    BY DEF Abstract!NoOrder
  <2> QED BY <2>1, <2>2
<1>3. HandOf(k) \in Abstract!Order
  BY <1>1, SMTT(30), SMTT(60) DEF Abstract!Order, Taker, Side, Quantity
<1> QED BY <1>1, <1>2, <1>3

(* Its fields there.                                                       *)
ShownHand(k) ==
  LET h == HandOf(k)
  IN  /\ h # Abstract!NoOrder /\ h \in Abstract!Order
      /\ h.ticker = k.ticker /\ h.id = k.marketOrderId /\ h.client = k.clientId
      /\ h.side = k.side /\ h.price = k.price /\ h.left = k.remaining
      /\ h.kill = (k.orderType = "FillAndKill")

(* The order in hand shows its client, side, price, quantity and kind.     *)
LEMMA HandFields ==
  ASSUME NEW k \in Taker
  PROVE  ShownHand(k)
<1> DEFINE h == HandOf(k)
<1>1. h # Abstract!NoOrder /\ h \in Abstract!Order
  BY HandShown
<1>2. h = [ticker |-> k.ticker, id |-> k.marketOrderId, client |-> k.clientId,
           side |-> k.side, price |-> k.price, left |-> k.remaining,
           kill |-> k.orderType = "FillAndKill"]
  BY HandShown
<1> HIDE DEF h
<1>3. /\ h.ticker = k.ticker /\ h.id = k.marketOrderId /\ h.client = k.clientId
      /\ h.side = k.side /\ h.price = k.price /\ h.left = k.remaining
      /\ h.kill = (k.orderType = "FillAndKill")
  BY <1>2
<1> QED BY <1>1, <1>3 DEF ShownHand, h

(* Without an order in hand there is none in the abstract book.            *)
LEMMA NoHandShown == HandOf(NoTaker) = Abstract!NoOrder
BY DEF HandOf, NoTaker, Abstract!NoOrder

(* addOrder, up to its call of match, is an arrival.                       *)
LEMMA AddOrderShown ==
  ASSUME VectorInv, NEW c \in Clients, NEW t \in Tickers, NEW orderType \in OrderType,
         NEW side \in Side, NEW price \in Prices, NEW qty \in Quantity,
         AddOrder(c, t, orderType, side, price, qty)
  PROVE  Abstract!Next
<1> DEFINE b == books[t]
           n == [b EXCEPT !.nextMarketOrderId = b.nextMarketOrderId + 1]
           h == HandOf(taker')
<1>1. /\ taker = NoTaker /\ books' = [books EXCEPT ![t] = n]
      /\ taker'.ticker = t /\ taker'.marketOrderId = b.nextMarketOrderId
      /\ "side" \in DOMAIN taker'
  BY DEF AddOrder, MatchIn
<1>2. taker' \in Taker
  <2>1. "side" \notin DOMAIN NoTaker
    BY DEF NoTaker
  <2>2. taker' # NoTaker
    BY <1>1, <2>1
  <2>3. VectorInv'
    BY AddOrderInv
  <2> QED BY <2>2, <2>3 DEF VectorInv, GoodTaker
<1>3. DOMAIN books = Tickers /\ TakesId(b, n)
  BY IdTaken DEF VectorInv, GoodBook
<1> HIDE DEF n
<1>4. books'[t] = n /\ OnlyBook(t)
  BY <1>1, <1>3 DEF OnlyBook
<1>5. n.pool = b.pool /\ n.nextMarketOrderId = b.nextMarketOrderId + 1
  BY <1>3 DEF TakesId
<1>6. ShownStep(t)
  BY <1>4, OneBookShown
<1>7. UNCHANGED AbstractResting
  <2>1. RestingIn(n) = RestingIn(b)
    BY <1>5 DEF RestingIn
  <2>2. AbstractResting' = [AbstractResting EXCEPT ![t] = AbstractResting[t]]
    BY <1>4, <1>6, <2>1 DEF ShownStep
  <2> QED BY <2>2 DEF AbstractResting
<1>8. AbstractArrivals' = [AbstractArrivals EXCEPT ![t] = AbstractArrivals[t] + 1]
  BY <1>4, <1>5, <1>6 DEF ShownStep
<1>9. ShownHand(taker')
  BY <1>2, HandFields
<1>10. h \in Abstract!Order /\ h.ticker = t /\ h.id = AbstractArrivals[t]
  BY <1>1, <1>6, <1>9 DEF ShownHand, ShownStep
<1> HIDE DEF h
<1>11. Abstract!Enter
  BY <1>7, <1>8, <1>10 DEF Abstract!Enter, Abstract!Arrive, h
<1> QED BY <1>1, <1>11, NoHandShown DEF Abstract!Next, Abstract!Request

(* What the abstract book sees of a resting order.                         *)
ShownAs(t, id) ==
  LET o == AbstractResting[t][id]
      order == books[t].pool[id]
  IN  /\ o.client = order.clientId /\ o.side = order.side
      /\ o.price = order.price /\ o.left = order.remainingQuantity

(* A resting order shows its client, side, price and quantity.             *)
LEMMA OrderShown ==
  ASSUME NEW t \in Tickers
  PROVE  /\ DOMAIN AbstractResting[t] = DOMAIN books[t].pool
         /\ \A id \in DOMAIN books[t].pool : ShownAs(t, id)
<1>1. AbstractResting[t] = [id \in DOMAIN books[t].pool |-> ShownOrder(books[t].pool[id])]
  BY ShownIs DEF AbstractResting
<1>2. ASSUME NEW id \in DOMAIN books[t].pool PROVE ShownAs(t, id)
  <2>1. AbstractResting[t][id] = ShownOrder(books[t].pool[id])
    BY <1>1
  <2> DEFINE o == AbstractResting[t][id]
             order == books[t].pool[id]
  <2> HIDE DEF o, order
  <2>2. o = ShownOrder(order)
    BY <2>1 DEF o, order
  <2>3. /\ o.client = order.clientId /\ o.side = order.side
        /\ o.price = order.price /\ o.left = order.remainingQuantity
    BY <2>2 DEF ShownOrder
  <2> QED BY <2>3 DEF ShownAs, o, order
<1> QED BY <1>1, <1>2

(* A step that changes neither books nor the order in hand shows nothing.  *)
LEMMA NothingShown ==
  ASSUME UNCHANGED <<books, taker>>
  PROVE  UNCHANGED Abstract!bookVars
BY DEF Abstract!bookVars, AbstractResting, AbstractArrivals, RestingIn, HandOf

(* cancelOrder rejects, and nothing is shown, or lowers what is left of    *)
(* the order it names.                                                     *)
LEMMA CancelOrderShown ==
  ASSUME VectorInv, NEW coid \in DOMAIN id_to_token, NEW qty \in Quantity,
         CancelOrder(coid, qty)
  PROVE  Abstract!Next \/ UNCHANGED Abstract!bookVars
<1>1. taker = NoTaker
  BY CancelOrderDoes
<1>2. CASE UNCHANGED <<books, taker>>
  BY <1>2, NothingShown
<1>3. ASSUME NEW t \in Tickers, NEW id \in DOMAIN books[t].pool, NEW canceled, NEW left,
             Cancels(coid, t, id, canceled, left)
      PROVE  Abstract!Next
  <2>1. /\ left = books[t].pool[id].remainingQuantity /\ left \in Quantity
        /\ canceled \in Quantity /\ canceled > 0 /\ canceled <= left
        /\ left - canceled \in Quantity /\ taker' = NoTaker
        /\ books' = [books EXCEPT ![t] = SetRemaining(books[t], id, left - canceled)]
    BY <1>1, <1>3 DEF Cancels
  <2>2. canceled \in 1 .. MaxQty
    BY <2>1, VectorAssumption, SMTT(30), SMTT(60) DEF Quantity
  <2>3. id \in DOMAIN AbstractResting[t] /\ AbstractResting[t][id].left = left
    BY <2>1, OrderShown DEF ShownAs
  <2>4. Abstract!Leave(t, id, left - canceled) /\ UNCHANGED AbstractArrivals
    BY <2>1, LeaveShown
  <2>5. Abstract!Cancel(t, id, canceled)
    BY <1>1, <2>1, <2>3, <2>4 DEF Abstract!Cancel
  <2> QED BY <1>1, <2>2, <2>3, <2>5, NoHandShown DEF Abstract!Next, Abstract!Request
<1> QED BY <1>2, <1>3, CancelOrderDoes DEF Rejected

(* replaceOrder rejects, and nothing is shown, or takes the order off the  *)
(* book and lets its replacement arrive.                                   *)
LEMMA ReplaceOrderShown ==
  ASSUME VectorInv, NEW coid \in DOMAIN id_to_token, NEW orderType \in OrderType,
         NEW price \in Prices, NEW qty \in Quantity, ReplaceOrder(coid, orderType, price, qty)
  PROVE  Abstract!Next \/ UNCHANGED Abstract!bookVars
<1>1. taker = NoTaker
  BY ReplaceOrderDoes
<1>2. CASE UNCHANGED <<books, taker>>
  BY <1>2, NothingShown
<1>3. ASSUME NEW t \in Tickers, NEW id \in DOMAIN books[t].pool,
             Replaces(coid, orderType, price, qty, t, id)
      PROVE  Abstract!Next
  <2> DEFINE b == books[t]
             n == books'[t]
             h == HandOf(taker')
  <2>1. /\ Vacates(b, n, id) /\ OnlyBook(t) /\ qty # 0
        /\ taker'.ticker = t /\ taker'.clientId = b.pool[id].clientId
        /\ taker'.marketOrderId = b.nextMarketOrderId /\ taker'.side = b.pool[id].side
        /\ taker'.remaining = qty /\ "side" \in DOMAIN taker'
    BY <1>3 DEF Replaces
  <2>2. taker' \in Taker
    <3>1. "side" \notin DOMAIN NoTaker
      BY DEF NoTaker
    <3>2. taker' # NoTaker
      BY <2>1, <3>1
    <3>3. VectorInv'
      BY ReplaceOrderInv
    <3> QED BY <3>2, <3>3 DEF VectorInv, GoodTaker
  <2>3. ShownHand(taker')
    BY <2>2, HandFields
  <2>4. ShownStep(t)
    BY <2>1, OneBookShown
  <2>5. ShownLess(b, n, id)
    BY <2>1, DropShown DEF Vacates
  <2>6. id \in DOMAIN AbstractResting[t] /\ ShownAs(t, id)
    BY OrderShown
  <2>7. /\ h \in Abstract!Order /\ h.ticker = t /\ h.id = AbstractArrivals[t]
        /\ h.client = AbstractResting[t][id].client
        /\ h.side = AbstractResting[t][id].side /\ h.left = qty
    BY <2>1, <2>3, <2>4, <2>6 DEF ShownHand, ShownStep, ShownAs
  <2>8. qty > 0
    BY <2>1, PositiveQuantity
  <2>9. AbstractArrivals' = [AbstractArrivals EXCEPT ![t] = AbstractArrivals[t] + 1]
    BY <2>1, <2>4 DEF ShownStep, Vacates
  <2>10. AbstractResting' =
           [AbstractResting EXCEPT ![t] = Abstract!Erase(AbstractResting[t], id)]
    BY <2>4, <2>5 DEF ShownStep, ShownLess
  <2> HIDE DEF h
  <2>11. Abstract!Arrive
    BY <2>7, <2>9 DEF Abstract!Arrive, h
  <2>12. Abstract!Replace(t, id)
    BY <2>7, <2>8, <2>10, <2>11 DEF Abstract!Replace, h
  <2> QED BY <1>1, <2>6, <2>12, NoHandShown DEF Abstract!Next, Abstract!Request
<1> QED BY <1>2, <1>3, ReplaceOrderDoes DEF Refuses, Rejected

(* A resting order makes its price occupied.                               *)
LEMMA RestsAt ==
  ASSUME NEW t \in Tickers, NEW id \in DOMAIN books[t].pool
  PROVE  books[t].pool[id].price \in Occupied(books[t], books[t].pool[id].side)
BY DEF Occupied

(* One iteration of the inner loop is a trade with the first order in      *)
(* line: the head of the list of the best level.                           *)
LEMMA FillShown ==
  ASSUME VectorInv, Fill
  PROVE  Abstract!Next
<1> DEFINE t == taker.ticker
           b == books[t]
           s == Opposite(taker.side)
           h == HandOf(taker)
           r == AbstractResting[t]
<1>1. /\ taker # NoTaker /\ t \in Tickers
      /\ \E id \in DOMAIN b.pool : \E fill : Fills(t, id, fill)
  BY FillDoes
<1>2. PICK id \in DOMAIN b.pool : \E fill : Fills(t, id, fill)
  BY <1>1
<1>3. PICK fill : Fills(t, id, fill)
  BY <1>2
<1> DEFINE left == b.pool[id].remainingQuantity
<1>4. /\ MatchGoesOn /\ taker.level = b.best[s] /\ id \in OrdersAt(b, s, taker.level)
      /\ \A y \in OrdersAt(b, s, taker.level) : ~Better("SELL", y, id)
      /\ left - fill \in Quantity /\ taker.remaining - fill \in Quantity
      /\ fill = IF taker.remaining <= left THEN taker.remaining ELSE left
      /\ books' = [books EXCEPT ![t] = SetRemaining(b, id, left - fill)]
      /\ taker' = [taker EXCEPT !.remaining = taker.remaining - fill]
  BY <1>3 DEF Fills
<1>5. /\ taker.level # nullptr /\ taker.remaining > 0
      /\ ~Better(s, taker.price, taker.level)
      /\ b.pool[id].side = s /\ b.pool[id].price = taker.level
  BY <1>4 DEF MatchGoesOn, OrdersAt
<1>6. /\ taker \in Taker /\ BookTypeOK(b) /\ VectorBookConsistent(b)
  BY <1>1, InHand DEF GoodBook
<1>7. s \in Side /\ s # taker.side
  <2>1. taker.side \in Side
    BY <1>6, TakerFields
  <2> QED BY <2>1, TwoWays DEF Side
<1>8. ShownHand(taker) /\ DOMAIN r = DOMAIN b.pool
      /\ \A i \in DOMAIN b.pool : ShownAs(t, i)
  BY <1>1, <1>6, HandFields, OrderShown
<1>9. /\ h # Abstract!NoOrder /\ h.ticker = t /\ h.side = taker.side
      /\ h.price = taker.price /\ h.left = taker.remaining
  BY <1>8 DEF ShownHand
<1>10. \A i \in DOMAIN b.pool : /\ r[i].side = b.pool[i].side
                                /\ r[i].price = b.pool[i].price
                                /\ r[i].left = b.pool[i].remainingQuantity
  BY <1>8 DEF ShownAs
<1>11. Abstract!CrossesHand(id)
  <2>1. ~Abstract!Better(s, taker.price, taker.level)
    BY <1>5 DEF Abstract!Better, Better
  <2> QED BY <1>5, <1>7, <1>9, <1>10, <2>1 DEF Abstract!CrossesHand
<1>12. Abstract!FirstInLine(t, id)
  <2>1. ASSUME NEW x \in DOMAIN b.pool, b.pool[x].side = s
        PROVE  /\ ~Abstract!Better(s, b.pool[x].price, taker.level)
               /\ b.pool[x].price = taker.level => id <= x
    <3>1. Leads(taker.level, Occupied(b, s), s)
      BY <1>4, <1>6, <1>7 DEF VectorBookConsistent, LevelsLinked, IsList
    <3>2. b.pool[x].price \in Occupied(b, s)
      BY <1>1, <2>1, RestsAt
    <3>3. ~Better(s, b.pool[x].price, taker.level)
      BY <1>5, <3>1, <3>2 DEF Leads
    <3>4. ASSUME b.pool[x].price = taker.level PROVE id <= x
      <4>1. x \in OrdersAt(b, s, taker.level)
        BY <2>1, <3>4 DEF OrdersAt
      <4>2. ~Better("SELL", x, id)
        BY <1>4, <4>1
      <4>3. ~(x < id)
        BY <4>2, TwoWays DEF Better
      <4>4. x \in Nat /\ id \in Nat
        BY <1>6, BookFields
      <4> HIDE DEF b
      <4> QED BY <4>3, <4>4, SMTT(30), SMTT(60)
    <3> QED BY <3>3, <3>4 DEF Abstract!Better, Better
  <2>2. ASSUME NEW x \in DOMAIN r, r[x].side = r[id].side
        PROVE  /\ ~Abstract!Better(r[id].side, r[x].price, r[id].price)
               /\ r[x].price = r[id].price => id <= x
    <3>1. x \in DOMAIN b.pool /\ b.pool[x].side = s /\ r[id].side = s
          /\ r[x].price = b.pool[x].price /\ r[id].price = taker.level
      BY <1>5, <1>8, <1>10, <2>2
    <3> QED BY <2>1, <3>1
  <2> QED BY <2>2 DEF Abstract!FirstInLine
<1>13. Abstract!Leave(t, id, left - fill) /\ UNCHANGED AbstractArrivals
  BY <1>1, <1>4, LeaveShown
<1>14. HandOf(taker') = [h EXCEPT !.left = h.left - fill]
  <2> DEFINE rest == taker.remaining - fill
             k == taker'
  <2>1. k = [taker EXCEPT !.remaining = rest] /\ rest \in Quantity /\ h.left - fill = rest
    BY <1>4, <1>9
  <2> HIDE DEF rest, k
  <2>2. /\ k \in Taker /\ k.ticker = taker.ticker /\ k.clientId = taker.clientId
        /\ k.marketOrderId = taker.marketOrderId /\ k.side = taker.side
        /\ k.price = taker.price /\ k.orderType = taker.orderType /\ k.remaining = rest
    BY <1>6, <2>1 DEF Taker
  <2>3. HandOf(k) = [ticker |-> k.ticker, id |-> k.marketOrderId, client |-> k.clientId,
                     side |-> k.side, price |-> k.price, left |-> k.remaining,
                     kill |-> k.orderType = "FillAndKill"]
    BY <2>2, HandShown
  <2>4. h = [ticker |-> taker.ticker, id |-> taker.marketOrderId,
             client |-> taker.clientId, side |-> taker.side, price |-> taker.price,
             left |-> taker.remaining, kill |-> taker.orderType = "FillAndKill"]
    BY <1>6, HandShown
  <2> HIDE DEF h
  <2>5. HandOf(k) = [h EXCEPT !.left = rest]
    BY <2>2, <2>3, <2>4, SMTT(30), SMTT(60)
  <2> QED BY <2>1, <2>5 DEF k
<1>15. Abstract!Trade(id)
  <2>1. r[id].left = left
    BY <1>10
  <2>2. fill = IF h.left <= r[id].left THEN h.left ELSE r[id].left
    BY <1>4, <1>9, <2>1
  <2>3. Abstract!Leave(h.ticker, id, r[id].left - fill) /\ Abstract!FirstInLine(h.ticker, id)
    BY <1>9, <1>12, <1>13, <2>1
  <2> QED BY <1>9, <1>11, <1>13, <1>14, <2>2, <2>3 DEF Abstract!Trade
<1> QED BY <1>8, <1>9, <1>15 DEF Abstract!Next, Abstract!Match

(* Fetching the best level again shows nothing.                            *)
LEMMA NextLevelShown ==
  ASSUME VectorInv, NextLevel
  PROVE  UNCHANGED Abstract!bookVars
<1> DEFINE k == taker'
           best == books[taker.ticker].best[Opposite(taker.side)]
<1>1. taker # NoTaker /\ UNCHANGED books /\ k = [taker EXCEPT !.level = best]
  BY DEF NextLevel, MatchGoesOn
<1>2. taker \in Taker
  BY <1>1, InHand
<1> HIDE DEF best, k
<1>3. /\ "side" \in DOMAIN k /\ k.ticker = taker.ticker /\ k.clientId = taker.clientId
      /\ k.marketOrderId = taker.marketOrderId /\ k.side = taker.side
      /\ k.price = taker.price /\ k.orderType = taker.orderType
      /\ k.remaining = taker.remaining
  BY <1>1, <1>2 DEF Taker
<1>4. k # NoTaker
  <2>1. "side" \notin DOMAIN NoTaker
    BY DEF NoTaker
  <2> QED BY <1>3, <2>1
<1>5. HandOf(k) = HandOf(taker)
  BY <1>1, <1>3, <1>4 DEF HandOf
<1>6. UNCHANGED <<AbstractResting, AbstractArrivals>>
  BY <1>1 DEF AbstractResting, AbstractArrivals, RestingIn
<1> QED BY <1>5, <1>6 DEF Abstract!bookVars, k

(* A price that is better than the first of S is better than all of S.     *)
LEMMA BetterThanAll ==
  ASSUME NEW S, S \subseteq Nat, NEW side, NEW p \in Nat, NEW x \in S, NEW y \in S,
         \A z \in S : ~Better(side, z, x), Better(side, p, x)
  PROVE  Better(side, p, y)
<1> DEFINE T == S \cup {p}
<1>1. T \subseteq Nat
  OBVIOUS
<1> HIDE DEF T
<1>2. /\ \A u, v \in T : u = v \/ Better(side, u, v) \/ Better(side, v, u)
      /\ \A u, v, w \in T : Better(side, u, v) /\ Better(side, v, w) => Better(side, u, w)
  BY <1>1, BetterIsOrder
<1>3. p \in T /\ x \in T /\ y \in T
  BY DEF T
<1>4. y = x \/ Better(side, x, y)
  BY <1>2, <1>3
<1> QED BY <1>2, <1>3, <1>4

(* When match returns, the order in hand crosses no resting order: the     *)
(* level it stopped at is the best one, or none is occupied.               *)
LEMMA MatchReturnsShown ==
  ASSUME VectorInv, taker # NoTaker, ~MatchGoesOn
  PROVE  \A id \in DOMAIN AbstractResting[HandOf(taker).ticker] :
           ~Abstract!CrossesHand(id)
<1> DEFINE t == taker.ticker
           b == books[t]
           s == Opposite(taker.side)
           h == HandOf(taker)
           r == AbstractResting[t]
<1>1. /\ taker \in Taker /\ t \in Tickers /\ BookTypeOK(b) /\ VectorBookConsistent(b)
      /\ HoldsLevel(taker, b)
  BY InHand DEF GoodBook, GoodTaker
<1>2. taker.side \in Side /\ s \in Side /\ taker.price \in Prices
  BY <1>1, TakerFields
<1>3. ShownHand(taker) /\ DOMAIN r = DOMAIN b.pool /\ \A i \in DOMAIN b.pool : ShownAs(t, i)
  BY <1>1, HandFields, OrderShown
<1>4. h.ticker = t /\ h.side = taker.side /\ h.price = taker.price /\ h.left = taker.remaining
  BY <1>3 DEF ShownHand
<1>5. ASSUME NEW id \in DOMAIN b.pool, taker.remaining > 0, b.pool[id].side # taker.side
      PROVE  Better(b.pool[id].side, taker.price, b.pool[id].price)
  <2>1. b.pool[id].side = s
    <3>1. b.pool[id].side \in Side
      BY <1>1, RestingType
    <3> QED BY <1>2, <1>5, <3>1, TwoWays DEF Side
  <2>2. taker.level = b.best[s]
    BY <1>1, <1>5 DEF HoldsLevel, MatchGoesOn
  <2>3. Leads(taker.level, Occupied(b, s), s)
    BY <1>1, <1>2, <2>2 DEF VectorBookConsistent, LevelsLinked, IsList
  <2>4. b.pool[id].price \in Occupied(b, s)
    BY <1>1, <2>1, RestsAt
  <2>5. /\ taker.level \in Occupied(b, s)
        /\ \A z \in Occupied(b, s) : ~Better(s, z, taker.level)
    BY <2>3, <2>4 DEF Leads
  <2>6. Occupied(b, s) \subseteq Nat /\ taker.price \in Nat /\ taker.level \in Nat
    <3>1. Occupied(b, s) \subseteq Nat
      BY <1>1, OccupiedIsPrices
    <3>2. taker.price \in Nat
      BY <1>2, VectorAssumption
    <3> QED BY <2>5, <3>1, <3>2
  <2>7. taker.level # nullptr
    BY <2>6, NullIsNoNode
  <2>8. Better(s, taker.price, taker.level)
    BY <1>5, <2>7 DEF MatchGoesOn
  <2>9. Better(s, taker.price, b.pool[id].price)
    <3> DEFINE S == Occupied(b, s)
               p == taker.price
               x == taker.level
               y == b.pool[id].price
    <3>1. /\ S \subseteq Nat /\ p \in Nat /\ x \in S /\ y \in S
          /\ \A z \in S : ~Better(s, z, x)
          /\ Better(s, p, x)
      BY <2>4, <2>5, <2>6, <2>8
    <3> HIDE DEF S, p, x, y
    <3>2. Better(s, p, y)
      BY <3>1, BetterThanAll
    <3> QED BY <3>2 DEF p, y
  <2> QED BY <2>1, <2>9
<1>6. ASSUME NEW id \in DOMAIN r PROVE ~Abstract!CrossesHand(id)
  <2>1. /\ id \in DOMAIN b.pool /\ r[id].side = b.pool[id].side
        /\ r[id].price = b.pool[id].price
    BY <1>3 DEF ShownAs
  <2>2. \/ ~(h.left > 0)
        \/ r[id].side = h.side
        \/ Abstract!Better(r[id].side, h.price, r[id].price)
    BY <1>4, <1>5, <2>1 DEF Abstract!Better, Better
  <2> QED BY <1>4, <2>2 DEF Abstract!CrossesHand
<1> QED BY <1>4, <1>6

(* A book with one order more shows it.                                    *)
ShownMore(b, n, id, order) ==
  RestingIn(n) = Abstract!Assign(RestingIn(b), id, ShownOrder(order))

(* An order that comes to rest shows as one more order.                    *)
LEMMA AddShown ==
  ASSUME NEW b, NEW n, NEW id, NEW order, Adds(b, n, id, order), id \notin DOMAIN b.pool
  PROVE  ShownMore(b, n, id, order)
<1> DEFINE r == RestingIn(b)
           w == RestingIn(n)
           shown == ShownOrder(order)
<1>1. /\ r = [i \in DOMAIN b.pool |-> ShownOrder(b.pool[i])]
      /\ w = [i \in DOMAIN n.pool |-> ShownOrder(n.pool[i])]
  BY ShownIs
<1>2. /\ DOMAIN n.pool = DOMAIN b.pool \cup {id} /\ SameOrder(order, n.pool[id])
      /\ n.pool[id].remainingQuantity = order.remainingQuantity
      /\ \A i \in DOMAIN b.pool :
           /\ SameOrder(b.pool[i], n.pool[i])
           /\ n.pool[i].remainingQuantity = b.pool[i].remainingQuantity
  BY DEF Adds
<1>3. ShownOrder(n.pool[id]) = shown
  BY <1>2, SameShown
<1>4. \A i \in DOMAIN b.pool : ShownOrder(n.pool[i]) = ShownOrder(b.pool[i])
  BY <1>2, SameShown
<1> HIDE DEF r, w, shown
<1>5. DOMAIN r = DOMAIN b.pool /\ \A i \in DOMAIN b.pool : r[i] = ShownOrder(b.pool[i])
  BY <1>1
<1>6. DOMAIN r \cup {id} = DOMAIN n.pool
  BY <1>2, <1>5
<1>7. \A i \in DOMAIN n.pool : ShownOrder(n.pool[i]) = IF i = id THEN shown ELSE r[i]
  BY <1>2, <1>3, <1>4, <1>5
<1>8. w = [i \in DOMAIN r \cup {id} |-> IF i = id THEN shown ELSE r[i]]
  BY <1>1, <1>6, <1>7
<1>9. w = Abstract!Assign(r, id, shown)
  BY <1>8 DEF Abstract!Assign
<1> QED BY <1>9 DEF ShownMore, r, w, shown

(* Used up, killed or come to rest: the order in hand settles.             *)
LEMMA SettleShown ==
  ASSUME VectorInv, Filled \/ Kill \/ Rest
  PROVE  Abstract!Next
<1> DEFINE t == taker.ticker
           b == books[t]
           n == books'[t]
           h == HandOf(taker)
<1>1. taker # NoTaker /\ ~MatchGoesOn /\ taker' = NoTaker
  BY DEF Filled, Kill, Rest, HandlerEnds
<1>2. taker \in Taker /\ t \in Tickers
  BY <1>1, InHand
<1>3. ShownHand(taker)
  BY <1>2, HandFields
<1>4. /\ h # Abstract!NoOrder /\ h.ticker = t /\ h.left = taker.remaining
      /\ h.id = taker.marketOrderId /\ h.kill = (taker.orderType = "FillAndKill")
      /\ h.client = taker.clientId /\ h.side = taker.side /\ h.price = taker.price
  BY <1>3 DEF ShownHand
<1>5. /\ AbstractResting' =
           IF h.left = 0 \/ h.kill THEN AbstractResting
           ELSE [AbstractResting EXCEPT ![t] =
                   Abstract!Assign(AbstractResting[t], h.id, Abstract!AtRest(h))]
      /\ UNCHANGED AbstractArrivals
  <2>1. CASE Filled \/ Kill
    <3>1. UNCHANGED books /\ (taker.remaining = 0 \/ taker.orderType = "FillAndKill")
      BY <2>1 DEF Filled, Kill
    <3>2. UNCHANGED <<AbstractResting, AbstractArrivals>>
      BY <3>1 DEF AbstractResting, AbstractArrivals, RestingIn
    <3> HIDE DEF h
    <3> QED BY <1>4, <3>1, <3>2
  <2>2. CASE Rest
    <3>1. /\ taker.remaining > 0 /\ taker.orderType = "GoodTillCancel" /\ OnlyBook(t)
          /\ Inserted(b, n, taker.marketOrderId, RestingOrder(taker))
      BY <2>2, RestDoes DEF Rest
    <3>2. h.left # 0 /\ ~h.kill
      <4>1. taker.remaining # 0
        BY <1>2, <3>1, TakerFields, PositiveQuantity
      <4>2. taker.orderType # "FillAndKill"
        BY <3>1
      <4> HIDE DEF h
      <4> QED BY <1>4, <4>1, <4>2
    <3>3. ShownStep(t)
      BY <1>2, <3>1, OneBookShown
    <3>4. n.nextMarketOrderId = b.nextMarketOrderId
      BY <3>1 DEF Inserted, Adds
    <3>5. UNCHANGED AbstractArrivals
      BY <1>2, <3>3, <3>4, NoArrival
    <3>6. taker.marketOrderId \notin DOMAIN b.pool
      <4>1. \A i \in DOMAIN b.pool : i < taker.marketOrderId
        BY <1>1, InHand DEF GoodTaker, NewerThan
      <4>2. taker.marketOrderId \in Nat
        BY <1>2, TakerFields
      <4>3. ~(taker.marketOrderId < taker.marketOrderId)
        BY <4>2, SMTT(30), SMTT(60)
      <4> QED BY <4>1, <4>3
    <3>7. ShownMore(b, n, taker.marketOrderId, RestingOrder(taker))
      BY <3>1, <3>6, AddShown DEF Inserted
    <3>8. ShownOrder(RestingOrder(taker)) = Abstract!AtRest(h)
      BY <1>4 DEF ShownOrder, RestingOrder, Abstract!AtRest
    <3>9. RestingIn(n) =
            Abstract!Assign(AbstractResting[t], h.id, Abstract!AtRest(h))
      BY <1>4, <3>3, <3>7, <3>8 DEF ShownMore, ShownStep
    <3> DEFINE more == Abstract!Assign(AbstractResting[t], h.id, Abstract!AtRest(h))
    <3>10. AbstractResting' = [AbstractResting EXCEPT ![t] = more]
      BY <3>3, <3>9 DEF ShownStep
    <3> HIDE DEF more, h
    <3> QED BY <3>2, <3>5, <3>10 DEF more
  <2> QED BY <2>1, <2>2
<1>6. Abstract!Settle
  <2>1. HandOf(taker') = Abstract!NoOrder
    BY <1>1, NoHandShown
  <2>2. \A id \in DOMAIN AbstractResting[h.ticker] : ~Abstract!CrossesHand(id)
    BY <1>1, MatchReturnsShown
  <2>3. AbstractResting' =
           IF h.left = 0 \/ h.kill THEN AbstractResting
           ELSE [AbstractResting EXCEPT ![h.ticker] =
                   Abstract!Assign(AbstractResting[h.ticker], h.id, Abstract!AtRest(h))]
    BY <1>4, <1>5
  <2> QED BY <1>5, <2>1, <2>2, <2>3 DEF Abstract!Settle
<1> QED BY <1>4, <1>6 DEF Abstract!Next, Abstract!Match

(* The engine starts with what the abstract book starts with.              *)
LEMMA InitShown == Init => Abstract!Init
<1> SUFFICES ASSUME Init PROVE Abstract!Init
  OBVIOUS
<1>1. taker = NoTaker /\ books = [t \in Tickers |-> EmptyBook]
  BY DEF Init
<1>2. DOMAIN EmptyBook.pool = {} /\ EmptyBook.nextMarketOrderId = 1
  BY EmptyBookGood DEF EmptyBook
<1>3. RestingIn(EmptyBook) = Abstract!EmptyMap
  BY <1>2 DEF RestingIn, Abstract!EmptyMap
<1>4. AbstractResting = [t \in Tickers |-> Abstract!EmptyMap]
  BY <1>1, <1>3 DEF AbstractResting
<1>5. AbstractArrivals = [t \in Tickers |-> 1]
  BY <1>1, <1>2 DEF AbstractArrivals
<1> QED BY <1>1, <1>4, <1>5, NoHandShown DEF Abstract!Init

(* Every step of the engine is a step of the abstract book or changes      *)
(* nothing that book shows.                                                *)
LEMMA NextShown ==
  VectorInv /\ [Next]_vars => [Abstract!Next]_(Abstract!bookVars)
<1> SUFFICES ASSUME VectorInv, [Next]_vars
             PROVE  Abstract!Next \/ UNCHANGED Abstract!bookVars
  OBVIOUS
<1>1. CASE Request
  BY <1>1, AddOrderShown, CancelOrderShown, ReplaceOrderShown DEF Request
<1>2. CASE Handler
  BY <1>2, FillShown, NextLevelShown, SettleShown DEF Handler
<1>3. CASE UNCHANGED vars
  BY <1>3, NothingShown DEF vars
<1> QED BY <1>1, <1>2, <1>3 DEF Next

(* addOrder, cancelOrder, replaceOrder and match over the vector book have *)
(* the semantics of the abstract book, for any clients, tickers, prices    *)
(* and quantities, as those over the map book have.                        *)
THEOREM VectorEngineImplementsPriceTimeBook == Spec => VectorImplementsPriceTimeBook
BY InitShown, NextShown, SpecInv, PTL DEF Spec, VectorImplementsPriceTimeBook, Abstract!Safety
=============================================================================
