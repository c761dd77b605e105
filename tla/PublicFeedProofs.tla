------------------------- MODULE PublicFeedProofs --------------------------
(***************************************************************************)
(* How far the public books can be from the engine's, for every set of     *)
(* clients, tickers and prices and every bound on quantities and ids.      *)
(*                                                                         *)
(* The argument: one ticker is looked at on its own, as a view of a pool.  *)
(* Each update changes the view of its ticker as the engine's step changes *)
(* the pool, but for the two cases the histories record.                   *)
(***************************************************************************)
EXTENDS PublicFeed, MatchingEngineProofs

(* Leaves are for Zenon unless they name another prover.                   *)
USE ZenonT(60)

-----------------------------------------------------------------------------
(* The effect of an update on the public books.                            *)

(* `new' is `books' with the map m for the ticker t.                       *)
Only(old, new, t, m) ==
  /\ DOMAIN new = Tickers
  /\ new[t] = m
  /\ \A x \in Tickers : x # t => new[x] = old[x]

Public(side, price, qty) == [side |-> side, price |-> price, qty |-> qty]

AfterTrade(m, id, qty) ==
  IF id \notin DOMAIN m THEN m
  ELSE IF m[id].qty <= qty THEN Erase(m, id)
  ELSE [m EXCEPT ![id].qty = @ - qty]

(* A subscriber takes the side of a replacement from the order replaced.   *)
AfterReplace(m, id, newId, price, qty) ==
  IF id \notin DOMAIN m THEN m
  ELSE Assign(Erase(m, id), newId, Public(m[id].side, price, qty))

(* What is in a map after an erasure.                                      *)
LEMMA EraseMap ==
  ASSUME NEW m, NEW k
  PROVE  /\ DOMAIN Erase(m, k) = DOMAIN m \ {k}
         /\ \A x \in DOMAIN m : x # k => Erase(m, k)[x] = m[x]
BY DEF Erase, Restrict

(* An ADD puts the order into the book, with applyToBook and through       *)
(* encode alike.                                                           *)
LEMMA AddEffect ==
  ASSUME NEW old, DOMAIN old = Tickers, NEW t \in Tickers, NEW id, NEW side,
         NEW price, NEW qty, NEW newId, NEW match
  PROVE  LET u == Update(t, id, "ADD", side, price, qty, newId, match)
             m == Assign(old[t], id, Public(side, price, qty))
         IN  Only(old, applyToBook(old, u), t, m) /\ Only(old, Follow(old, u), t, m)
<1> DEFINE u == Update(t, id, "ADD", side, price, qty, newId, match)
           m == Assign(old[t], id, Public(side, price, qty))
<1>1. /\ u.type = "ADD" /\ u.ticker_id = t /\ u.market_order_id = id
      /\ u.side = side /\ u.price = price /\ u.qty = qty
  BY DEF Update
<1> HIDE DEF u
<1>2. applyToBook(old, u) = [old EXCEPT ![t] = m]
  BY <1>1, SMTT(30), SMTT(60) DEF applyToBook, PublicOrder, Public
<1>3. encode(u) = [type |-> "AddOrder", stock_locate |-> t, order_ref_num |-> id,
                   buy_sell |-> side, shares |-> qty, price |-> price]
  BY <1>1, SMTT(30), SMTT(60) DEF encode
<1>4. Subscribe(old[t], encode(u)) = m
  BY <1>3, SMTT(30), SMTT(60) DEF Subscribe, Public
<1>5. Follow(old, u) = [old EXCEPT ![t] = Subscribe(old[t], encode(u))]
  BY <1>3, SMTT(30), SMTT(60) DEF Follow
<1> HIDE DEF m
<1> QED BY <1>2, <1>4, <1>5 DEF Only, u, m

(* A CANCEL erases the order, whatever its quantity.                       *)
LEMMA CancelEffect ==
  ASSUME NEW old, DOMAIN old = Tickers, NEW t \in Tickers, NEW id, NEW side,
         NEW price, NEW qty, NEW newId, NEW match
  PROVE  LET u == Update(t, id, "CANCEL", side, price, qty, newId, match)
             m == Erase(old[t], id)
         IN  Only(old, applyToBook(old, u), t, m) /\ Only(old, Follow(old, u), t, m)
<1> DEFINE u == Update(t, id, "CANCEL", side, price, qty, newId, match)
           m == Erase(old[t], id)
<1>1. u.type = "CANCEL" /\ u.ticker_id = t /\ u.market_order_id = id
  BY DEF Update
<1> HIDE DEF u
<1>2. applyToBook(old, u) = [old EXCEPT ![t] = m]
  BY <1>1, SMTT(30), SMTT(60) DEF applyToBook
<1>3. encode(u) = [type |-> "OrderDelete", stock_locate |-> t, order_ref_num |-> id]
  BY <1>1, SMTT(30), SMTT(60) DEF encode
<1>4. Subscribe(old[t], encode(u)) = m
  BY <1>3, SMTT(30), SMTT(60) DEF Subscribe
<1>5. Follow(old, u) = [old EXCEPT ![t] = Subscribe(old[t], encode(u))]
  BY <1>3, SMTT(30), SMTT(60) DEF Follow
<1> HIDE DEF m
<1> QED BY <1>2, <1>4, <1>5 DEF Only, u, m

(* A TRADE takes its quantity from an order that is shown.                 *)
LEMMA TradeEffect ==
  ASSUME NEW old, DOMAIN old = Tickers, NEW t \in Tickers, NEW id, NEW side,
         NEW price, NEW qty, NEW newId, NEW match
  PROVE  LET u == Update(t, id, "TRADE", side, price, qty, newId, match)
             m == AfterTrade(old[t], id, qty)
         IN  Only(old, applyToBook(old, u), t, m) /\ Only(old, Follow(old, u), t, m)
<1> DEFINE u == Update(t, id, "TRADE", side, price, qty, newId, match)
           m == AfterTrade(old[t], id, qty)
<1>1. /\ u.type = "TRADE" /\ u.ticker_id = t /\ u.market_order_id = id
      /\ u.qty = qty
  BY DEF Update
<1> HIDE DEF u
<1>2. applyToBook(old, u) =
        IF id \notin DOMAIN old[t] THEN old
        ELSE IF old[t][id].qty <= qty THEN [old EXCEPT ![t] = Erase(old[t], id)]
        ELSE [old EXCEPT ![t] = [old[t] EXCEPT ![id].qty = @ - qty]]
  <2>1. CASE id \notin DOMAIN old[t]
    BY <1>1, <2>1, SMTT(30), SMTT(60) DEF applyToBook
  <2>2. CASE id \in DOMAIN old[t]
    <3>1. applyToBook(old, u) =
            IF old[t][id].qty <= qty THEN [old EXCEPT ![t] = Erase(old[t], id)]
            ELSE [old EXCEPT ![t][id].qty = @ - qty]
      BY <1>1, <2>2, SMTT(30), SMTT(60) DEF applyToBook
    <3> QED BY <2>2, <3>1
  <2> QED BY <2>1, <2>2
<1>3. encode(u) = [type |-> "OrderExecuted", stock_locate |-> t, order_ref_num |-> id,
                   executed_shares |-> qty, match_number |-> u.match_id]
  BY <1>1, SMTT(30), SMTT(60) DEF encode
<1>4. Subscribe(old[t], encode(u)) = m
  <2>1. CASE id \notin DOMAIN old[t]
    BY <1>3, <2>1, SMTT(30), SMTT(60) DEF Subscribe, AfterTrade
  <2>2. CASE id \in DOMAIN old[t]
    BY <1>3, <2>2, SMTT(30), SMTT(60) DEF Subscribe, AfterTrade
  <2> QED BY <2>1, <2>2
<1>5. Follow(old, u) = [old EXCEPT ![t] = Subscribe(old[t], encode(u))]
  BY <1>3, SMTT(30), SMTT(60) DEF Follow
<1>6. Only(old, Follow(old, u), t, m)
  <2> HIDE DEF m
  <2> QED BY <1>4, <1>5 DEF Only
<1>7. Only(old, applyToBook(old, u), t, m)
  <2>1. applyToBook(old, u) = IF id \notin DOMAIN old[t] THEN old
                              ELSE [old EXCEPT ![t] = m]
    BY <1>2 DEF AfterTrade
  <2>2. id \notin DOMAIN old[t] => m = old[t]
    BY DEF AfterTrade
  <2> HIDE DEF m
  <2> QED BY <2>1, <2>2 DEF Only
<1> QED BY <1>6, <1>7 DEF u

(* A MODIFY puts the replacement in the place of the order; a subscriber   *)
(* that does not hold the order does not learn of the replacement.         *)
LEMMA ModifyEffect ==
  ASSUME NEW old, DOMAIN old = Tickers, NEW t \in Tickers, NEW id, NEW side,
         NEW price, NEW qty, NEW newId, NEW match
  PROVE  LET u == Update(t, id, "MODIFY", side, price, qty, newId, match)
         IN  /\ Only(old, applyToBook(old, u), t,
                     Assign(Erase(old[t], id), newId, Public(side, price, qty)))
             /\ Only(old, Follow(old, u), t,
                     AfterReplace(old[t], id, newId, price, qty))
<1> DEFINE u == Update(t, id, "MODIFY", side, price, qty, newId, match)
           m == Assign(Erase(old[t], id), newId, Public(side, price, qty))
           b == AfterReplace(old[t], id, newId, price, qty)
<1>1. /\ u.type = "MODIFY" /\ u.ticker_id = t /\ u.market_order_id = id
      /\ u.side = side /\ u.price = price /\ u.qty = qty /\ u.new_order_id = newId
  BY DEF Update
<1> HIDE DEF u
<1>2. applyToBook(old, u) = [old EXCEPT ![t] = m]
  BY <1>1, SMTT(30), SMTT(60) DEF applyToBook, PublicOrder, Public
<1>3. encode(u) = [type |-> "OrderReplace", stock_locate |-> t,
                   original_order_ref |-> id, new_order_ref |-> newId,
                   shares |-> qty, price |-> price]
  BY <1>1, SMTT(30), SMTT(60) DEF encode
<1>4. Subscribe(old[t], encode(u)) = b
  BY <1>3, SMTT(30), SMTT(60) DEF Subscribe, AfterReplace, Public
<1>5. Follow(old, u) = [old EXCEPT ![t] = Subscribe(old[t], encode(u))]
  BY <1>3, SMTT(30), SMTT(60) DEF Follow
<1> HIDE DEF m, b
<1>6. Only(old, applyToBook(old, u), t, m) /\ Only(old, Follow(old, u), t, b)
  BY <1>2, <1>4, <1>5 DEF Only
<1> QED BY <1>6 DEF u, m, b
-----------------------------------------------------------------------------
(* The view of one ticker.                                                 *)

(* A pool with one order less, one order more, one order changed.          *)
Less(pool, n, id) ==
  /\ DOMAIN n = DOMAIN pool \ {id}
  /\ \A x \in DOMAIN n : n[x] = pool[x]

More(pool, n, id, order) ==
  /\ DOMAIN n = DOMAIN pool \cup {id}
  /\ n[id] = order
  /\ \A x \in DOMAIN pool : n[x] = pool[x]

Lowered(pool, n, id, qty) ==
  /\ DOMAIN n = DOMAIN pool
  /\ n[id].side = pool[id].side /\ n[id].price = pool[id].price
  /\ n[id].remainingQuantity = qty
  /\ \A x \in DOMAIN pool : x # id => n[x] = pool[x]

(* An order canceled in full disappears from book and view.                *)
LEMMA ViewCanceled ==
  ASSUME NEW sh, NEW pool, NEW n, NEW hand, NEW partly, NEW traded, NEW id,
         View(sh, pool, hand, partly, traded), Less(pool, n, id)
  PROVE  View(Erase(sh, id), n, hand, partly, traded)
<1> DEFINE e == Erase(sh, id)
<1>1. DOMAIN e = DOMAIN sh \ {id} /\ \A x \in DOMAIN sh : x # id => e[x] = sh[x]
  BY EraseMap
<1> HIDE DEF e
<1>2. View(e, n, hand, partly, traded)
  BY <1>1 DEF View, Less
<1> QED BY <1>2 DEF e

(* An order canceled in part disappears from the view only.                *)
LEMMA ViewPartlyCanceled ==
  ASSUME NEW sh, NEW pool, NEW n, NEW hand, NEW partly, NEW traded, NEW id,
         NEW qty, View(sh, pool, hand, partly, traded), Lowered(pool, n, id, qty)
  PROVE  View(Erase(sh, id), n, hand, partly \cup {id}, traded)
<1> DEFINE e == Erase(sh, id)
<1>1. DOMAIN e = DOMAIN sh \ {id} /\ \A x \in DOMAIN sh : x # id => e[x] = sh[x]
  BY EraseMap
<1> HIDE DEF e
<1>2. View(e, n, hand, partly \cup {id}, traded)
  BY <1>1 DEF View, Lowered
<1> QED BY <1>2 DEF e

(* A replacement is shown as soon as its order is gone.                    *)
LEMMA ViewReplaced ==
  ASSUME NEW sh, NEW pool, NEW n, NEW partly, NEW traded, NEW id, NEW newId,
         NEW o \in ShownOrder, View(sh, pool, {}, partly, traded), Less(pool, n, id),
         newId \notin partly, newId \notin DOMAIN pool
  PROVE  View(Assign(Erase(sh, id), newId, o), n, {newId}, partly, traded)
<1> DEFINE e == Erase(sh, id)
           a == Assign(e, newId, o)
<1>1. View(e, n, {}, partly, traded)
  BY ViewCanceled
<1>2. /\ DOMAIN a = DOMAIN e \cup {newId} /\ a[newId] = o
      /\ \A x \in DOMAIN e : x # newId => a[x] = e[x]
  BY DEF Assign
<1> HIDE DEF e, a
<1>3. \A x \in DOMAIN n \ partly :
        /\ x \in DOMAIN a
        /\ Shows(a[x], n[x].side, n[x].price, n[x].remainingQuantity, x \notin traded)
  <2>1. newId \notin DOMAIN n
    BY DEF Less
  <2> QED BY <1>1, <1>2, <2>1 DEF View
<1>4. \A x \in DOMAIN a :
        /\ a[x] \in ShownOrder /\ x \notin partly
        /\ x \in DOMAIN n \cup {newId} \cup traded
  BY <1>1, <1>2 DEF View
<1>5. View(a, n, {newId}, partly, traded)
  BY <1>3, <1>4 DEF View
<1> QED BY <1>5 DEF a, e

(* A replacement that trades on arrival is one that may stay behind.       *)
LEMMA ViewTrades ==
  ASSUME NEW sh, NEW pool, NEW hand, NEW partly, NEW traded, NEW more,
         View(sh, pool, hand, partly, traded), traded \subseteq more
  PROVE  View(sh, pool, hand, partly, more)
BY DEF View, Shows

(* A replacement used up is shown no longer, or it traded.                 *)
LEMMA ViewSettled ==
  ASSUME NEW sh, NEW pool, NEW id, NEW partly, NEW traded,
         View(sh, pool, {id}, partly, traded), id \in traded
  PROVE  View(sh, pool, {}, partly, traded)
BY DEF View

(* A killed replacement is taken off the view.                             *)
LEMMA ViewKilled ==
  ASSUME NEW sh, NEW pool, NEW id, NEW partly, NEW traded,
         View(sh, pool, {id}, partly, traded), id \notin DOMAIN pool
  PROVE  View(Erase(sh, id), pool, {}, partly, traded)
<1> DEFINE e == Erase(sh, id)
<1>1. DOMAIN e = DOMAIN sh \ {id} /\ \A x \in DOMAIN sh : x # id => e[x] = sh[x]
  BY EraseMap
<1> HIDE DEF e
<1>2. View(e, pool, {}, partly, traded)
  BY <1>1 DEF View
<1> QED BY <1>2 DEF e

(* A replacement that comes to rest is already shown.                      *)
LEMMA ViewReplacementRests ==
  ASSUME NEW sh, NEW pool, NEW n, NEW id, NEW partly, NEW traded, NEW order,
         View(sh, pool, {id}, partly, traded), More(pool, n, id, order),
         id \notin DOMAIN pool, id \in DOMAIN sh,
         Shows(sh[id], order.side, order.price, order.remainingQuantity,
               id \notin traded)
  PROVE  View(sh, n, {}, partly, traded)
BY DEF View, More

(* A new order that comes to rest is added with what is left of it.        *)
LEMMA ViewRests ==
  ASSUME NEW sh, NEW pool, NEW n, NEW id, NEW partly, NEW traded, NEW order,
         NEW o \in ShownOrder, View(sh, pool, {}, partly, traded),
         More(pool, n, id, order), id \notin DOMAIN pool, id \notin partly,
         Shows(o, order.side, order.price, order.remainingQuantity, TRUE)
  PROVE  View(Assign(sh, id, o), n, {}, partly, traded)
<1> DEFINE a == Assign(sh, id, o)
<1>1. /\ DOMAIN a = DOMAIN sh \cup {id} /\ a[id] = o
      /\ \A x \in DOMAIN sh : x # id => a[x] = sh[x]
  BY DEF Assign
<1> HIDE DEF a
<1>2. Shows(a[id], n[id].side, n[id].price, n[id].remainingQuantity, id \notin traded)
  BY <1>1 DEF More, Shows
<1>3. ASSUME NEW x \in DOMAIN n \ partly
      PROVE  /\ x \in DOMAIN a
             /\ Shows(a[x], n[x].side, n[x].price, n[x].remainingQuantity,
                      x \notin traded)
  <2>1. CASE x = id
    BY <1>1, <1>2, <2>1
  <2>2. CASE x # id
    <3>1. x \in DOMAIN pool \ partly /\ n[x] = pool[x]
      BY <2>2 DEF More
    <3> QED BY <1>1, <2>2, <3>1 DEF View
  <2> QED BY <2>1, <2>2
<1>4. \A x \in DOMAIN a :
        /\ a[x] \in ShownOrder /\ x \notin partly
        /\ x \in DOMAIN n \cup {} \cup traded
  BY <1>1 DEF View, More
<1>5. View(a, n, {}, partly, traded)
  BY <1>3, <1>4 DEF View
<1> QED BY <1>5 DEF a

(* A trade takes as much from the view as from the pool.  An order that is *)
(* shown with too much stays behind when it is used up.                    *)
LEMMA ViewFilled ==
  ASSUME NEW sh, NEW pool, NEW n, NEW hand, NEW partly, NEW traded,
         NEW id \in DOMAIN pool, NEW fill \in Quantity, NEW left \in Quantity,
         View(sh, pool, hand, partly, traded), pool[id].remainingQuantity = left + fill,
         left = 0 => Less(pool, n, id), left # 0 => Lowered(pool, n, id, left)
  PROVE  View(AfterTrade(sh, id, fill), n, hand, partly, traded)
<1>1. CASE id \notin DOMAIN sh
  <2>1. id \in partly /\ AfterTrade(sh, id, fill) = sh
    BY <1>1 DEF View, AfterTrade
  <2>2. View(sh, n, hand, partly, traded)
    <3>1. CASE Less(pool, n, id)
      BY <1>1, <3>1 DEF View, Less
    <3>2. CASE Lowered(pool, n, id, left)
      BY <2>1, <3>2 DEF View, Lowered
    <3> QED BY <3>1, <3>2
  <2> QED BY <2>1, <2>2
<1>2. CASE id \in DOMAIN sh /\ sh[id].qty <= fill
  <2>1. id \notin partly /\ sh[id] \in ShownOrder
    BY <1>2 DEF View
  <2>2. sh[id].qty \in Quantity /\ sh[id].qty >= left + fill
    <3>1. sh[id].qty \in Quantity /\ sh[id].qty >= pool[id].remainingQuantity
      BY <2>1 DEF View, Shows, ShownOrder
    <3> QED BY <3>1, SMTT(30), SMTT(60)
  <2>3. left = 0
    BY <1>2, <2>2, MaxQtyAssumption, SMTT(30), SMTT(60) DEF Quantity
  <2>4. AfterTrade(sh, id, fill) = Erase(sh, id)
    BY <1>2 DEF AfterTrade
  <2> QED BY <2>3, <2>4, ViewCanceled
<1>3. CASE id \in DOMAIN sh /\ ~(sh[id].qty <= fill)
  <2> DEFINE r == AfterTrade(sh, id, fill)
             q == sh[id].qty - fill
  <2>1. id \notin partly /\ sh[id] \in ShownOrder
    BY <1>3 DEF View
  <2>2. /\ sh[id].qty \in Quantity /\ sh[id].qty >= left + fill
        /\ sh[id].side = pool[id].side /\ sh[id].price = pool[id].price
        /\ id \notin traded => sh[id].qty = left + fill
    <3>1. /\ sh[id].qty \in Quantity /\ sh[id].qty >= pool[id].remainingQuantity
          /\ sh[id].side = pool[id].side /\ sh[id].price = pool[id].price
          /\ id \notin traded => sh[id].qty = pool[id].remainingQuantity
      BY <2>1 DEF View, Shows, ShownOrder
    <3> QED BY <3>1, SMTT(30), SMTT(60)
  <2>3. r = [sh EXCEPT ![id].qty = q]
    BY <1>3 DEF AfterTrade
  <2>4. /\ q \in Quantity /\ q >= left
        /\ id \notin traded => q = left
        /\ id \notin traded => left # 0
    BY <1>3, <2>2, MaxQtyAssumption, SMTT(30), SMTT(60) DEF Quantity
  <2> HIDE DEF q, r
  <2>5. /\ DOMAIN r = DOMAIN sh
        /\ \A x \in DOMAIN sh : x # id => r[x] = sh[x]
        /\ r[id] \in ShownOrder
        /\ r[id].side = sh[id].side /\ r[id].price = sh[id].price /\ r[id].qty = q
    BY <1>3, <2>1, <2>3, <2>4, SMTT(30), SMTT(60) DEF ShownOrder
  <2>6. Shows(r[id], pool[id].side, pool[id].price, left, id \notin traded)
    BY <2>2, <2>4, <2>5 DEF Shows
  <2>7. View(r, n, hand, partly, traded)
    <3>1. CASE left = 0
      <4>1. id \in traded /\ Less(pool, n, id)
        BY <2>4, <3>1
      <4> QED BY <2>1, <2>5, <4>1 DEF View, Less
    <3>2. CASE left # 0
      <4>1. Lowered(pool, n, id, left)
        BY <3>2
      <4>2. \A x \in DOMAIN n \ partly :
              /\ x \in DOMAIN r
              /\ Shows(r[x], n[x].side, n[x].price, n[x].remainingQuantity,
                       x \notin traded)
        BY <1>3, <2>5, <2>6, <4>1 DEF View, Lowered
      <4> QED BY <2>1, <2>5, <4>1, <4>2 DEF View, Lowered
    <3> QED BY <3>1, <3>2
  <2> QED BY <2>7 DEF r
<1> QED BY <1>1, <1>2, <1>3

-----------------------------------------------------------------------------
(* A subscriber of the feed against the shadow book, for one ticker.       *)

Agrees(b, sh, exact) ==
  /\ \A ref \in DOMAIN b : ref \in DOMAIN sh /\ b[ref] = sh[ref]
  /\ exact => b = sh

(* A CANCEL erases the order on both sides.                                *)
LEMMA ErasesAgree ==
  ASSUME NEW b, NEW sh, NEW exact, NEW id, Agrees(b, sh, exact)
  PROVE  Agrees(Erase(b, id), Erase(sh, id), exact)
<1>1. \A ref \in DOMAIN Erase(b, id) :
        ref \in DOMAIN Erase(sh, id) /\ Erase(b, id)[ref] = Erase(sh, id)[ref]
  BY DEF Agrees, Erase, Restrict
<1> QED BY <1>1 DEF Agrees

(* An ADD puts the same order on both sides.                               *)
LEMMA AssignsAgree ==
  ASSUME NEW b, NEW sh, NEW exact, NEW id, NEW o, Agrees(b, sh, exact)
  PROVE  Agrees(Assign(b, id, o), Assign(sh, id, o), exact)
<1>1. \A ref \in DOMAIN Assign(b, id, o) :
        /\ ref \in DOMAIN Assign(sh, id, o)
        /\ Assign(b, id, o)[ref] = Assign(sh, id, o)[ref]
  BY DEF Agrees, Assign
<1> QED BY <1>1 DEF Agrees

(* A trade finds the same quantity in both, if the subscriber holds the    *)
(* order.                                                                  *)
LEMMA TradesAgree ==
  ASSUME NEW b, NEW sh, NEW exact, NEW id, NEW qty, Agrees(b, sh, exact)
  PROVE  Agrees(AfterTrade(b, id, qty), AfterTrade(sh, id, qty), exact)
<1> DEFINE c == AfterTrade(b, id, qty)
           s == AfterTrade(sh, id, qty)
<1>1. exact => c = s
  BY DEF Agrees
<1>2. \A ref \in DOMAIN c : ref \in DOMAIN s /\ c[ref] = s[ref]
  <2>1. CASE id \notin DOMAIN b
    <3>1. c = b
      BY <2>1 DEF AfterTrade
    <3>2. \A x \in DOMAIN sh : x # id => x \in DOMAIN s /\ s[x] = sh[x]
      BY EraseMap DEF AfterTrade
    <3> HIDE DEF c, s
    <3> QED BY <2>1, <3>1, <3>2 DEF Agrees
  <2>2. CASE id \in DOMAIN b /\ b[id].qty <= qty
    <3>1. c = Erase(b, id) /\ s = Erase(sh, id)
      BY <2>2 DEF AfterTrade, Agrees
    <3>2. Agrees(Erase(b, id), Erase(sh, id), exact)
      BY ErasesAgree
    <3> HIDE DEF c, s
    <3> QED BY <3>1, <3>2 DEF Agrees
  <2>3. CASE id \in DOMAIN b /\ ~(b[id].qty <= qty)
    <3>1. /\ c = [b EXCEPT ![id].qty = @ - qty]
          /\ s = [sh EXCEPT ![id].qty = @ - qty]
      BY <2>3 DEF AfterTrade, Agrees
    <3> HIDE DEF c, s
    <3> QED BY <2>3, <3>1 DEF Agrees
  <2> QED BY <2>1, <2>2, <2>3
<1> HIDE DEF c, s
<1>3. Agrees(c, s, exact)
  BY <1>1, <1>2 DEF Agrees
<1> QED BY <1>3 DEF c, s

(* A replacement keeps the side of its order; a subscriber that lacks the  *)
(* order lacks the replacement too.                                        *)
LEMMA ReplacesAgree ==
  ASSUME NEW b, NEW sh, NEW exact, NEW id, NEW newId, NEW side, NEW price, NEW qty,
         Agrees(b, sh, exact), newId \notin DOMAIN sh,
         id \in DOMAIN sh => sh[id].side = side, exact => id \in DOMAIN sh
  PROVE  Agrees(AfterReplace(b, id, newId, price, qty),
                Assign(Erase(sh, id), newId, Public(side, price, qty)), exact)
<1> DEFINE o == Public(side, price, qty)
<1>1. CASE id \in DOMAIN b
  <2>1. AfterReplace(b, id, newId, price, qty) = Assign(Erase(b, id), newId, o)
    BY <1>1 DEF AfterReplace, Agrees
  <2>2. Agrees(Erase(b, id), Erase(sh, id), exact)
    BY ErasesAgree
  <2> HIDE DEF o
  <2>3. Agrees(Assign(Erase(b, id), newId, o), Assign(Erase(sh, id), newId, o), exact)
    BY <2>2, AssignsAgree
  <2> QED BY <2>1, <2>3 DEF o
<1>2. CASE id \notin DOMAIN b
  <2>1. AfterReplace(b, id, newId, price, qty) = b /\ ~exact
    BY <1>2 DEF AfterReplace, Agrees
  <2> DEFINE e == Erase(sh, id)
             a == Assign(e, newId, o)
  <2>2. DOMAIN e = DOMAIN sh \ {id} /\ \A x \in DOMAIN sh : x # id => e[x] = sh[x]
    BY EraseMap
  <2> HIDE DEF e, o
  <2>3. DOMAIN e \subseteq DOMAIN a /\ \A x \in DOMAIN e : x # newId => a[x] = e[x]
    BY DEF Assign
  <2> HIDE DEF a
  <2>4. \A ref \in DOMAIN b : ref \in DOMAIN a /\ b[ref] = a[ref]
    BY <1>2, <2>2, <2>3 DEF Agrees
  <2>5. Agrees(b, a, exact)
    BY <2>1, <2>4 DEF Agrees
  <2> QED BY <2>1, <2>5 DEF a, e, o
<1> QED BY <1>1, <1>2

-----------------------------------------------------------------------------
(* What a step publishes.                                                  *)

(* The ids of S are added to a history for the ticker t.                   *)
Records(pairs, more, t, S) == more = pairs \cup {<<t, i>> : i \in S}

(* The public books change for the ticker t only, and so do the histories: *)
(* by the ids of pc and tr.                                                *)
PublicStep(t, sh, b, pc, tr) ==
  /\ Only(shadow_book, shadow_book', t, sh)
  /\ Only(itch_book, itch_book', t, b)
  /\ Records(partlyCanceled, partlyCanceled', t, pc)
  /\ Records(tradedReplacement, tradedReplacement', t, tr)

(* A step that pushes no update changes nothing in public.                 *)
LEMMA NothingPublished ==
  ASSUME ShadowSupport, Published, marketUpdates' = <<>>, NEW t \in Tickers
  PROVE  PublicStep(t, shadow_book[t], itch_book[t], {}, {})
<1>1. Range(marketUpdates') = {}
  BY SMTT(30), SMTT(60) DEF Range
<1>2. /\ shadow_book' = shadow_book /\ itch_book' = itch_book
  BY DEF Published, ApplyAll, FollowAll
<1>3. partlyCanceled' = partlyCanceled
  BY <1>1 DEF Published
<1>4. tradedReplacement' = tradedReplacement
  BY <1>1 DEF Published
<1> QED BY <1>2, <1>3, <1>4 DEF PublicStep, Only, Records, ShadowSupport

(* A step that pushes the update u.                                        *)
LEMMA OnePublished ==
  ASSUME Published, NEW u, marketUpdates' = <<u>>
  PROVE  /\ shadow_book' = applyToBook(shadow_book, u)
         /\ itch_book' = Follow(itch_book, u)
         /\ partlyCanceled' = partlyCanceled \cup
              {<<u.ticker_id, i>> :
                 i \in IF /\ u.type = "CANCEL"
                          /\ u.market_order_id \in DOMAIN books'[u.ticker_id].pool
                       THEN {u.market_order_id} ELSE {}}
         /\ tradedReplacement' = tradedReplacement \cup
              {<<u.ticker_id, i>> :
                 i \in IF u.type = "TRADE" /\ taker.replacing
                       THEN {taker.marketOrderId} ELSE {}}
<1>1. Range(marketUpdates') = {u} /\ marketUpdates'[1] = u /\ marketUpdates' # <<>>
  BY SMTT(30), SMTT(60) DEF Range
<1>2. shadow_book' = applyToBook(shadow_book, u) /\ itch_book' = Follow(itch_book, u)
  BY <1>1 DEF Published, ApplyAll, FollowAll
<1>3. partlyCanceled' = partlyCanceled \cup
        {<<u.ticker_id, i>> :
           i \in IF /\ u.type = "CANCEL"
                    /\ u.market_order_id \in DOMAIN books'[u.ticker_id].pool
                 THEN {u.market_order_id} ELSE {}}
  <2>1. CASE /\ u.type = "CANCEL"
             /\ u.market_order_id \in DOMAIN books'[u.ticker_id].pool
    BY <1>1, <2>1 DEF Published
  <2>2. CASE ~ /\ u.type = "CANCEL"
               /\ u.market_order_id \in DOMAIN books'[u.ticker_id].pool
    BY <1>1, <2>2 DEF Published
  <2> QED BY <2>1, <2>2
<1>4. tradedReplacement' = tradedReplacement \cup
        {<<u.ticker_id, i>> : i \in IF u.type = "TRADE" /\ taker.replacing
                                    THEN {taker.marketOrderId} ELSE {}}
  <2>1. CASE u.type = "TRADE" /\ taker.replacing
    BY <1>1, <2>1 DEF Published
  <2>2. CASE ~(u.type = "TRADE" /\ taker.replacing)
    BY <1>1, <2>2 DEF Published
  <2> QED BY <2>1, <2>2
<1> QED BY <1>2, <1>3, <1>4

(* A step that pushes an ADD puts the order into both public books.        *)
LEMMA AddPublished ==
  ASSUME ShadowSupport, Published, NEW t \in Tickers, NEW id, NEW side, NEW price,
         NEW qty, NEW newId, NEW match,
         marketUpdates' = <<Update(t, id, "ADD", side, price, qty, newId, match)>>
  PROVE  PublicStep(t, Assign(shadow_book[t], id, Public(side, price, qty)),
                    Assign(itch_book[t], id, Public(side, price, qty)), {}, {})
<1> DEFINE u == Update(t, id, "ADD", side, price, qty, newId, match)
<1>1. u.type = "ADD" /\ u.ticker_id = t
  BY DEF Update
<1>2. /\ Only(shadow_book, applyToBook(shadow_book, u), t,
              Assign(shadow_book[t], id, Public(side, price, qty)))
      /\ Only(itch_book, Follow(itch_book, u), t,
              Assign(itch_book[t], id, Public(side, price, qty)))
  BY AddEffect DEF ShadowSupport
<1>3. marketUpdates' = <<u>>
  OBVIOUS
<1> HIDE DEF u
<1>4. /\ shadow_book' = applyToBook(shadow_book, u)
      /\ itch_book' = Follow(itch_book, u)
      /\ partlyCanceled' = partlyCanceled \cup {<<t, i>> : i \in {}}
      /\ tradedReplacement' = tradedReplacement \cup {<<t, i>> : i \in {}}
  BY <1>1, <1>3, OnePublished, SMTT(30), SMTT(60)
<1> QED BY <1>2, <1>4 DEF PublicStep, Records

(* A step that pushes a MODIFY puts the replacement in the place of the    *)
(* order.                                                                  *)
LEMMA ModifyPublished ==
  ASSUME ShadowSupport, Published, NEW t \in Tickers, NEW id, NEW side, NEW price,
         NEW qty, NEW newId, NEW match,
         marketUpdates' = <<Update(t, id, "MODIFY", side, price, qty, newId, match)>>
  PROVE  PublicStep(t, Assign(Erase(shadow_book[t], id), newId,
                              Public(side, price, qty)),
                    AfterReplace(itch_book[t], id, newId, price, qty), {}, {})
<1> DEFINE u == Update(t, id, "MODIFY", side, price, qty, newId, match)
<1>1. u.type = "MODIFY" /\ u.ticker_id = t
  BY DEF Update
<1>2. /\ Only(shadow_book, applyToBook(shadow_book, u), t,
              Assign(Erase(shadow_book[t], id), newId, Public(side, price, qty)))
      /\ Only(itch_book, Follow(itch_book, u), t,
              AfterReplace(itch_book[t], id, newId, price, qty))
  BY ModifyEffect DEF ShadowSupport
<1>3. marketUpdates' = <<u>>
  OBVIOUS
<1> HIDE DEF u
<1>4. /\ shadow_book' = applyToBook(shadow_book, u)
      /\ itch_book' = Follow(itch_book, u)
      /\ partlyCanceled' = partlyCanceled \cup {<<t, i>> : i \in {}}
      /\ tradedReplacement' = tradedReplacement \cup {<<t, i>> : i \in {}}
  BY <1>1, <1>3, OnePublished, SMTT(30), SMTT(60)
<1> QED BY <1>2, <1>4 DEF PublicStep, Records

(* A step that pushes a CANCEL erases the order, and the history records   *)
(* whether it still rests.                                                 *)
LEMMA CancelPublished ==
  ASSUME ShadowSupport, Published, NEW t \in Tickers, NEW id, NEW side, NEW price,
         NEW qty, NEW newId, NEW match,
         marketUpdates' = <<Update(t, id, "CANCEL", side, price, qty, newId, match)>>
  PROVE  PublicStep(t, Erase(shadow_book[t], id), Erase(itch_book[t], id),
                    IF id \in DOMAIN books'[t].pool THEN {id} ELSE {}, {})
<1> DEFINE u == Update(t, id, "CANCEL", side, price, qty, newId, match)
<1>1. u.type = "CANCEL" /\ u.ticker_id = t /\ u.market_order_id = id
  BY DEF Update
<1>2. /\ Only(shadow_book, applyToBook(shadow_book, u), t, Erase(shadow_book[t], id))
      /\ Only(itch_book, Follow(itch_book, u), t, Erase(itch_book[t], id))
  BY CancelEffect DEF ShadowSupport
<1>3. marketUpdates' = <<u>>
  OBVIOUS
<1> HIDE DEF u
<1>4. /\ shadow_book' = applyToBook(shadow_book, u)
      /\ itch_book' = Follow(itch_book, u)
      /\ partlyCanceled' = partlyCanceled \cup
           {<<t, i>> : i \in IF id \in DOMAIN books'[t].pool THEN {id} ELSE {}}
      /\ tradedReplacement' = tradedReplacement \cup {<<t, i>> : i \in {}}
  BY <1>1, <1>3, OnePublished, SMTT(30), SMTT(60)
<1> QED BY <1>2, <1>4 DEF PublicStep, Records

(* A step that pushes a TRADE takes its quantity off the order, and the    *)
(* history records a taker that is a replacement.                          *)
LEMMA TradePublished ==
  ASSUME ShadowSupport, Published, NEW t \in Tickers, NEW id, NEW side, NEW price,
         NEW qty, NEW newId, NEW match,
         marketUpdates' = <<Update(t, id, "TRADE", side, price, qty, newId, match)>>
  PROVE  PublicStep(t, AfterTrade(shadow_book[t], id, qty),
                    AfterTrade(itch_book[t], id, qty), {},
                    IF taker.replacing THEN {taker.marketOrderId} ELSE {})
<1> DEFINE u == Update(t, id, "TRADE", side, price, qty, newId, match)
<1>1. u.type = "TRADE" /\ u.ticker_id = t
  BY DEF Update
<1>2. /\ Only(shadow_book, applyToBook(shadow_book, u), t,
              AfterTrade(shadow_book[t], id, qty))
      /\ Only(itch_book, Follow(itch_book, u), t, AfterTrade(itch_book[t], id, qty))
  BY TradeEffect DEF ShadowSupport
<1>3. marketUpdates' = <<u>>
  OBVIOUS
<1> HIDE DEF u
<1>4. /\ shadow_book' = applyToBook(shadow_book, u)
      /\ itch_book' = Follow(itch_book, u)
      /\ partlyCanceled' = partlyCanceled \cup {<<t, i>> : i \in {}}
      /\ tradedReplacement' = tradedReplacement \cup
           {<<t, i>> : i \in IF taker.replacing THEN {taker.marketOrderId} ELSE {}}
  BY <1>1, <1>3, OnePublished, SMTT(30), SMTT(60)
<1> QED BY <1>2, <1>4 DEF PublicStep, Records

(* The ids that a history records for a ticker.                            *)
LEMMA IdsInPairs ==
  ASSUME NEW pairs, pairs \subseteq Tickers \X Nat, NEW t, NEW i
  PROVE  i \in IdsIn(pairs, t) <=> <<t, i>> \in pairs
<1>1. ASSUME NEW e \in pairs PROVE e = <<e[1], e[2]>>
  BY SMTT(30), SMTT(60)
<1> QED BY <1>1 DEF IdsIn

(* Ids recorded for one ticker are not recorded for another.               *)
LEMMA IdsInMore ==
  ASSUME NEW pairs, NEW t, NEW S, NEW more, Records(pairs, more, t, S)
  PROVE  /\ IdsIn(more, t) = IdsIn(pairs, t) \cup S
         /\ \A x : x # t => IdsIn(more, x) = IdsIn(pairs, x)
<1>1. \A i \in S : <<t, i>> \in more /\ <<t, i>>[1] = t /\ <<t, i>>[2] = i
  BY DEF Records
<1>2. ASSUME NEW e \in more, e \notin pairs
      PROVE  \E i \in S : e[1] = t /\ e[2] = i
  <2>1. PICK i \in S : e = <<t, i>>
    BY <1>2 DEF Records
  <2>2. e[1] = t /\ e[2] = i
    BY <2>1
  <2> QED BY <2>2
<1>3. pairs \subseteq more
  BY DEF Records
<1>4. IdsIn(more, t) \subseteq IdsIn(pairs, t) \cup S
  BY <1>2 DEF IdsIn
<1>5. IdsIn(pairs, t) \cup S \subseteq IdsIn(more, t)
  BY <1>1, <1>3 DEF IdsIn
<1>6. ASSUME NEW x, x # t PROVE IdsIn(more, x) = IdsIn(pairs, x)
  BY <1>2, <1>3, <1>6 DEF IdsIn
<1> QED BY <1>4, <1>5, <1>6

-----------------------------------------------------------------------------
(* A step for one ticker.                                                  *)

(* Its engine half: no other book changes, the order in hand before and    *)
(* after is for this ticker, and ids are only given.                       *)
EngineStep(t) ==
  /\ \A x \in Tickers : x # t => books'[x] = books[x]
  /\ books[t].nextMarketOrderId \in Nat /\ books'[t].nextMarketOrderId \in Nat
  /\ books[t].nextMarketOrderId <= books'[t].nextMarketOrderId
  /\ taker = NoTaker \/ taker.ticker = t
  /\ taker' = NoTaker \/ taker'.ticker = t

(* All ids of S were given to orders of t by now.                          *)
GivenBy(S, next) == \A i \in S : i \in Nat /\ i < next

(* The ids spoken of stay given.                                           *)
LEMMA StillGiven ==
  ASSUME IdsGiven, NEW t \in Tickers, NEW sh, NEW b, NEW pc, NEW tr,
         PublicStep(t, sh, b, pc, tr), EngineStep(t),
         GivenBy(pc, books'[t].nextMarketOrderId),
         GivenBy(tr, books'[t].nextMarketOrderId),
         GivenBy(DOMAIN sh, books'[t].nextMarketOrderId)
  PROVE  IdsGiven'
<1> DEFINE N(x) == books[x].nextMarketOrderId
           M(x) == books'[x].nextMarketOrderId
<1>1. ASSUME NEW e, e \in Tickers \X Nat, e[2] < N(e[1])
      PROVE  e[2] < M(e[1])
  <2>1. CASE e[1] = t
    <3>1. e[2] \in Nat /\ N(t) \in Nat /\ M(t) \in Nat /\ N(t) <= M(t) /\ e[2] < N(t)
      BY <1>1, <2>1, SMTT(30), SMTT(60) DEF EngineStep
    <3> QED BY <2>1, <3>1, SMTT(30), SMTT(60)
  <2>2. CASE e[1] # t
    BY <1>1, <2>2, SMTT(30), SMTT(60) DEF EngineStep
  <2> QED BY <2>1, <2>2
<1>2. ASSUME NEW S, NEW e \in {<<t, i>> : i \in S}, GivenBy(S, M(t))
      PROVE  e \in Tickers \X Nat /\ e[2] < M(e[1])
  <2>1. PICK i \in S : e = <<t, i>>
    BY <1>2
  <2>2. i \in Nat /\ i < M(t)
    BY <1>2, <2>1 DEF GivenBy
  <2>3. e[1] = t /\ e[2] = i
    BY <2>1
  <2> QED BY <2>1, <2>2, <2>3
<1>3. ASSUME NEW e \in (partlyCanceled \cup tradedReplacement)'
      PROVE  e \in Tickers \X Nat /\ e[2] < M(e[1])
  <2>1. \/ e \in partlyCanceled \cup tradedReplacement
        \/ e \in {<<t, i>> : i \in pc} \/ e \in {<<t, i>> : i \in tr}
    BY <1>3 DEF PublicStep, Records
  <2>2. CASE e \in partlyCanceled \cup tradedReplacement
    BY <1>1, <2>2 DEF IdsGiven
  <2> QED BY <1>2, <2>1, <2>2
<1>4. ASSUME NEW x \in Tickers, NEW id \in DOMAIN shadow_book'[x]
      PROVE  id \in Nat /\ id < M(x)
  <2>1. CASE x = t
    BY <1>4, <2>1 DEF PublicStep, Only, GivenBy
  <2>2. CASE x # t
    BY <1>4, <2>2 DEF PublicStep, Only, IdsGiven, EngineStep
  <2> QED BY <2>1, <2>2
<1> QED BY <1>3, <1>4 DEF IdsGiven

(* What is shown of the other tickers is not affected, so it is enough to  *)
(* look at the step's own.                                                 *)
LEMMA StepShown ==
  ASSUME ShadowSupport, SubscriberAgreesWithSnapshot,
         NEW t \in Tickers, NEW sh, NEW b, NEW pc, NEW tr,
         PublicStep(t, sh, b, pc, tr), EngineStep(t),
         GivenBy(pc, books'[t].nextMarketOrderId),
         GivenBy(tr, books'[t].nextMarketOrderId),
         GivenBy(DOMAIN sh, books'[t].nextMarketOrderId),
         View(sh, books'[t].pool, Replacing(t)', IdsIn(partlyCanceled, t) \cup pc,
              IdsIn(tradedReplacement, t) \cup tr),
         Agrees(b, sh, partlyCanceled = {}),
         HandShown'
  PROVE  ShadowSupport' /\ SubscriberAgreesWithSnapshot'
<1>1. IdsGiven'
  BY StillGiven DEF ShadowSupport
<1>2. /\ IdsIn(partlyCanceled', t) = IdsIn(partlyCanceled, t) \cup pc
      /\ IdsIn(tradedReplacement', t) = IdsIn(tradedReplacement, t) \cup tr
      /\ \A x : x # t => /\ IdsIn(partlyCanceled', x) = IdsIn(partlyCanceled, x)
                         /\ IdsIn(tradedReplacement', x) = IdsIn(tradedReplacement, x)
  <2>1. /\ Records(partlyCanceled, partlyCanceled', t, pc)
        /\ Records(tradedReplacement, tradedReplacement', t, tr)
    BY DEF PublicStep
  <2>2. /\ IdsIn(partlyCanceled', t) = IdsIn(partlyCanceled, t) \cup pc
        /\ \A x : x # t => IdsIn(partlyCanceled', x) = IdsIn(partlyCanceled, x)
    BY <2>1, IdsInMore, SMTT(30), SMTT(60)
  <2>3. /\ IdsIn(tradedReplacement', t) = IdsIn(tradedReplacement, t) \cup tr
        /\ \A x : x # t => IdsIn(tradedReplacement', x) = IdsIn(tradedReplacement, x)
    BY <2>1, IdsInMore, SMTT(30), SMTT(60)
  <2> QED BY <2>2, <2>3
<1>3. /\ DOMAIN shadow_book' = Tickers /\ DOMAIN itch_book' = Tickers
      /\ shadow_book'[t] = sh /\ itch_book'[t] = b
      /\ \A x \in Tickers : x # t => /\ shadow_book'[x] = shadow_book[x]
                                     /\ itch_book'[x] = itch_book[x]
  BY DEF PublicStep, Only
<1>4. ASSUME NEW x \in Tickers PROVE TickerShown(x)'
  <2>1. CASE x = t
    BY <1>2, <1>3, <2>1 DEF TickerShown
  <2>2. CASE x # t
    <3>1. Replacing(x)' = Replacing(x)
      BY <2>2 DEF Replacing, EngineStep
    <3>2. books'[x] = books[x] /\ TickerShown(x)
      BY <2>2 DEF EngineStep, ShadowSupport
    <3> QED BY <1>2, <1>3, <2>2, <3>1, <3>2 DEF TickerShown
  <2> QED BY <2>1, <2>2
<1>5. partlyCanceled' = {} => partlyCanceled = {}
  BY DEF PublicStep, Records
<1>6. ASSUME NEW x \in Tickers
      PROVE  Agrees(itch_book'[x], shadow_book'[x], partlyCanceled' = {})
  <2>1. CASE x = t
    <3>1. Agrees(b, sh, partlyCanceled' = {})
      BY <1>5 DEF Agrees
    <3> QED BY <1>3, <2>1, <3>1
  <2>2. CASE x # t
    <3>1. Agrees(itch_book[x], shadow_book[x], partlyCanceled = {})
      BY DEF SubscriberAgreesWithSnapshot, Agrees
    <3>2. Agrees(itch_book[x], shadow_book[x], partlyCanceled' = {})
      BY <1>5, <3>1 DEF Agrees
    <3> QED BY <1>3, <2>2, <3>2
  <2> QED BY <2>1, <2>2
<1>7. SubscriberAgreesWithSnapshot'
  BY <1>6 DEF SubscriberAgreesWithSnapshot, Agrees
<1> QED BY <1>1, <1>3, <1>4, <1>7 DEF ShadowSupport

(* What is known of one ticker before a step.                              *)
LEMMA ShownNow ==
  ASSUME IInv, ShadowSupport, SubscriberAgreesWithSnapshot, NEW t \in Tickers
  PROVE  /\ DOMAIN books = Tickers /\ BookTypeOK(books[t]) /\ BookConsistent(books[t])
         /\ books[t].nextMarketOrderId \in Nat
         /\ View(shadow_book[t], books[t].pool, Replacing(t),
                 IdsIn(partlyCanceled, t), IdsIn(tradedReplacement, t))
         /\ Agrees(itch_book[t], shadow_book[t], partlyCanceled = {})
         /\ GivenBy(DOMAIN shadow_book[t], books[t].nextMarketOrderId)
         /\ GivenBy(IdsIn(partlyCanceled, t), books[t].nextMarketOrderId)
         /\ \A i : /\ i \in IdsIn(partlyCanceled, t) <=> <<t, i>> \in partlyCanceled
                   /\ i \in IdsIn(tradedReplacement, t)
                        <=> <<t, i>> \in tradedReplacement
<1>1. /\ DOMAIN books = Tickers /\ BookTypeOK(books[t]) /\ BookConsistent(books[t])
      /\ books[t].nextMarketOrderId \in Nat
  BY DEF IInv, TypeOK, BooksConsistent, BookTypeOK
<1>2. View(shadow_book[t], books[t].pool, Replacing(t), IdsIn(partlyCanceled, t),
           IdsIn(tradedReplacement, t))
  BY DEF ShadowSupport, TickerShown
<1>3. Agrees(itch_book[t], shadow_book[t], partlyCanceled = {})
  BY DEF SubscriberAgreesWithSnapshot, Agrees
<1>4. GivenBy(DOMAIN shadow_book[t], books[t].nextMarketOrderId)
  BY DEF ShadowSupport, IdsGiven, GivenBy
<1>5. partlyCanceled \subseteq Tickers \X Nat /\ tradedReplacement \subseteq Tickers \X Nat
  BY DEF ShadowSupport, IdsGiven
<1>6. \A i : /\ i \in IdsIn(partlyCanceled, t) <=> <<t, i>> \in partlyCanceled
             /\ i \in IdsIn(tradedReplacement, t) <=> <<t, i>> \in tradedReplacement
  BY <1>5, IdsInPairs, SMTT(30), SMTT(60)
<1>7. ASSUME NEW i \in IdsIn(partlyCanceled, t)
      PROVE  i \in Nat /\ i < books[t].nextMarketOrderId
  <2>1. <<t, i>> \in partlyCanceled
    BY <1>6
  <2>2. <<t, i>> \in Tickers \X Nat /\ <<t, i>>[2] < books[<<t, i>>[1]].nextMarketOrderId
    BY <2>1 DEF ShadowSupport, IdsGiven
  <2> QED BY <2>2
<1> QED BY <1>1, <1>2, <1>3, <1>4, <1>6, <1>7 DEF GivenBy

(* Ids given before are given after.                                       *)
LEMMA GivenLater ==
  ASSUME NEW S, NEW m \in Nat, NEW n \in Nat, m <= n, GivenBy(S, m)
  PROVE  GivenBy(S, n)
<1> SUFFICES ASSUME NEW i \in S PROVE i \in Nat /\ i < n
  BY DEF GivenBy
<1>1. i \in Nat /\ i < m
  BY DEF GivenBy
<1> QED BY <1>1, SMTT(30), SMTT(60)

(* A step that pushes no update and leaves the pool alone.                 *)
LEMMA NothingShown ==
  ASSUME IInv, ShadowSupport, SubscriberAgreesWithSnapshot, Published,
         marketUpdates' = <<>>, NEW t \in Tickers, EngineStep(t),
         View(shadow_book[t], books'[t].pool, Replacing(t)', IdsIn(partlyCanceled, t),
              IdsIn(tradedReplacement, t)),
         HandShown'
  PROVE  ShadowSupport' /\ SubscriberAgreesWithSnapshot'
<1>1. PublicStep(t, shadow_book[t], itch_book[t], {}, {})
  BY NothingPublished
<1>2. /\ Agrees(itch_book[t], shadow_book[t], partlyCanceled = {})
      /\ GivenBy(DOMAIN shadow_book[t], books[t].nextMarketOrderId)
  BY ShownNow
<1>3. GivenBy(DOMAIN shadow_book[t], books'[t].nextMarketOrderId)
  BY <1>2, GivenLater DEF EngineStep
<1>4. GivenBy({}, books'[t].nextMarketOrderId)
  BY DEF GivenBy
<1>5. /\ IdsIn(partlyCanceled, t) \cup {} = IdsIn(partlyCanceled, t)
      /\ IdsIn(tradedReplacement, t) \cup {} = IdsIn(tradedReplacement, t)
  OBVIOUS
<1>6. View(shadow_book[t], books'[t].pool, Replacing(t)',
           IdsIn(partlyCanceled, t) \cup {}, IdsIn(tradedReplacement, t) \cup {})
  BY <1>5
<1> QED BY <1>1, <1>2, <1>3, <1>4, <1>6, StepShown

(* The book n is b with left remaining of the order id.                    *)
BookLowered(b, n, id, left) ==
  /\ left = 0 => Less(b.pool, n.pool, id)
  /\ left # 0 => Lowered(b.pool, n.pool, id, left)
  /\ n.nextMarketOrderId = b.nextMarketOrderId

(* What SetRemaining does, as it shows in public.                          *)
LEMMA PoolLowered ==
  ASSUME NEW b, BookTypeOK(b), NEW id \in DOMAIN b.pool, NEW left \in Quantity,
         NEW n, n = SetRemaining(b, id, left)
  PROVE  BookLowered(b, n, id, left)
<1>1. CASE left = 0
  <2>1. Drops(b, n, id)
    BY <1>1, RemoveDrops DEF SetRemaining
  <2> QED BY <1>1, <2>1 DEF Drops, Less, BookLowered
<1>2. CASE left # 0
  <2>1. Marks(b, n, id, left)
    BY <1>2, SetRemainingMarks
  <2>2. n.pool[id].remainingQuantity = left /\ n.pool[id].side = b.pool[id].side
        /\ n.pool[id].price = b.pool[id].price
    BY <2>1, MarkedFields, SMTT(30), SMTT(60)
  <2> QED BY <1>2, <2>1, <2>2 DEF Marks, Lowered, BookLowered
<1> QED BY <1>1, <1>2

-----------------------------------------------------------------------------
(* The handlers.                                                           *)

(* addOrder up to its call of match publishes nothing.                     *)
LEMMA AddOrderShown ==
  ASSUME IInv, ShadowSupport, SubscriberAgreesWithSnapshot, Published,
         NEW c, NEW t \in Tickers, NEW orderType, NEW side, NEW price, NEW qty,
         AddOrder(c, t, orderType, side, price, qty)
  PROVE  ShadowSupport' /\ SubscriberAgreesWithSnapshot'
<1> DEFINE moid == books[t].nextMarketOrderId
<1>1. /\ taker = NoTaker /\ marketUpdates' = <<>>
      /\ books' = [books EXCEPT ![t] = TakeMarketId(books[t])]
      /\ taker'.ticker = t /\ taker'.marketOrderId = moid /\ taker'.replacing = FALSE
  BY DEF AddOrder
<1>2. /\ DOMAIN books = Tickers /\ BookTypeOK(books[t]) /\ BookConsistent(books[t])
      /\ moid \in Nat
      /\ View(shadow_book[t], books[t].pool, Replacing(t), IdsIn(partlyCanceled, t),
              IdsIn(tradedReplacement, t))
      /\ GivenBy(IdsIn(partlyCanceled, t), moid)
      /\ \A i : i \in IdsIn(partlyCanceled, t) <=> <<t, i>> \in partlyCanceled
  BY ShownNow
<1>3. /\ books'[t].pool = books[t].pool /\ books'[t].nextMarketOrderId = moid + 1
      /\ \A x \in Tickers : x # t => books'[x] = books[x]
  <2>1. /\ TakeMarketId(books[t]).pool = books[t].pool
        /\ TakeMarketId(books[t]).nextMarketOrderId = moid + 1
    BY <1>2 DEF TakeMarketId, BookTypeOK
  <2> QED BY <1>1, <1>2, <2>1
<1>4. moid + 1 \in Nat /\ moid <= moid + 1
  BY <1>2, SMTT(30), SMTT(60)
<1>5. EngineStep(t)
  BY <1>1, <1>2, <1>3, <1>4 DEF EngineStep
<1>6. Replacing(t) = {} /\ Replacing(t)' = {}
  BY <1>1 DEF Replacing
<1>7. <<t, moid>> \notin partlyCanceled'
  <2>1. moid \notin IdsIn(partlyCanceled, t)
    <3>1. ~(moid < moid)
      BY <1>2, SMTT(30), SMTT(60)
    <3> QED BY <1>2, <3>1 DEF GivenBy
  <2>2. PublicStep(t, shadow_book[t], itch_book[t], {}, {})
    BY <1>1, NothingPublished
  <2> QED BY <1>2, <2>1, <2>2 DEF PublicStep, Records
<1>8. HandShown'
  BY <1>1, <1>7 DEF HandShown
<1>9. View(shadow_book[t], books'[t].pool, Replacing(t)', IdsIn(partlyCanceled, t),
           IdsIn(tradedReplacement, t))
  BY <1>2, <1>3, <1>6
<1> QED BY <1>1, <1>5, <1>8, <1>9, NothingShown

(* A rejected request publishes nothing.                                   *)
LEMMA RejectedShown ==
  ASSUME IInv, ShadowSupport, SubscriberAgreesWithSnapshot, Published,
         NEW t \in Tickers, UNCHANGED <<books, taker>>, taker = NoTaker,
         marketUpdates' = <<>>
  PROVE  ShadowSupport' /\ SubscriberAgreesWithSnapshot'
<1>1. /\ books[t].nextMarketOrderId \in Nat
      /\ View(shadow_book[t], books[t].pool, Replacing(t), IdsIn(partlyCanceled, t),
              IdsIn(tradedReplacement, t))
  BY ShownNow
<1>2. books[t].nextMarketOrderId <= books[t].nextMarketOrderId
  BY <1>1, SMTT(30), SMTT(60)
<1>3. EngineStep(t)
  BY <1>1, <1>2 DEF EngineStep
<1>4. Replacing(t)' = Replacing(t) /\ HandShown'
  BY DEF Replacing, HandShown
<1>5. View(shadow_book[t], books'[t].pool, Replacing(t)', IdsIn(partlyCanceled, t),
           IdsIn(tradedReplacement, t))
  BY <1>1, <1>4
<1> QED BY <1>3, <1>4, <1>5, NothingShown

(* cancelOrder publishes a CANCEL, for all of the order or for a part.     *)
LEMMA CanceledShown ==
  ASSUME IInv, ShadowSupport, SubscriberAgreesWithSnapshot, Published,
         NEW t \in Tickers, NEW id \in DOMAIN books[t].pool, NEW left \in Quantity,
         NEW side, NEW price, NEW qty, taker = NoTaker, UNCHANGED taker,
         books' = [books EXCEPT ![t] = SetRemaining(books[t], id, left)],
         marketUpdates' = <<Update(t, id, "CANCEL", side, price, qty,
                                   OrderId_INVALID, OrderId_INVALID)>>
  PROVE  ShadowSupport' /\ SubscriberAgreesWithSnapshot'
<1> DEFINE b == books[t]
           n == books'[t]
           sh == Erase(shadow_book[t], id)
           pc == IF id \in DOMAIN n.pool THEN {id} ELSE {}
<1>1. PublicStep(t, sh, Erase(itch_book[t], id), pc, {})
  BY CancelPublished
<1>2. /\ DOMAIN books = Tickers /\ BookTypeOK(b) /\ BookConsistent(b)
      /\ b.nextMarketOrderId \in Nat
      /\ View(shadow_book[t], b.pool, Replacing(t), IdsIn(partlyCanceled, t),
              IdsIn(tradedReplacement, t))
      /\ Agrees(itch_book[t], shadow_book[t], partlyCanceled = {})
      /\ GivenBy(DOMAIN shadow_book[t], b.nextMarketOrderId)
  BY ShownNow
<1>3. n = SetRemaining(b, id, left) /\ \A x \in Tickers : x # t => books'[x] = books[x]
  BY <1>2
<1> HIDE DEF n
<1>4. /\ left = 0 => Less(b.pool, n.pool, id)
      /\ left # 0 => Lowered(b.pool, n.pool, id, left)
      /\ n.nextMarketOrderId = b.nextMarketOrderId
  <2>1. BookLowered(b, n, id, left)
    BY <1>2, <1>3, PoolLowered
  <2> QED BY <2>1 DEF BookLowered
<1>5. b.nextMarketOrderId <= b.nextMarketOrderId
  BY <1>2, SMTT(30), SMTT(60)
<1>6. EngineStep(t)
  BY <1>2, <1>3, <1>4, <1>5 DEF EngineStep, n
<1>7. Replacing(t)' = Replacing(t) /\ HandShown'
  BY DEF Replacing, HandShown
<1>8. View(sh, n.pool, Replacing(t)', IdsIn(partlyCanceled, t) \cup pc,
           IdsIn(tradedReplacement, t) \cup {})
  <2>1. IdsIn(tradedReplacement, t) \cup {} = IdsIn(tradedReplacement, t)
    OBVIOUS
  <2>2. CASE left = 0
    <3>1. pc = {} /\ Less(b.pool, n.pool, id)
      BY <1>4, <2>2 DEF Less
    <3>2. View(sh, n.pool, Replacing(t), IdsIn(partlyCanceled, t),
               IdsIn(tradedReplacement, t))
      BY <1>2, <3>1, ViewCanceled
    <3>3. IdsIn(partlyCanceled, t) \cup pc = IdsIn(partlyCanceled, t)
      BY <3>1
    <3> QED BY <1>7, <2>1, <3>2, <3>3
  <2>3. CASE left # 0
    <3>1. pc = {id} /\ Lowered(b.pool, n.pool, id, left)
      BY <1>4, <2>3 DEF Lowered
    <3>2. View(sh, n.pool, Replacing(t), IdsIn(partlyCanceled, t) \cup {id},
               IdsIn(tradedReplacement, t))
      BY <1>2, <3>1, ViewPartlyCanceled
    <3> QED BY <1>7, <2>1, <3>1, <3>2
  <2> QED BY <2>2, <2>3
<1>9. Agrees(Erase(itch_book[t], id), sh, partlyCanceled = {})
  BY <1>2, ErasesAgree
<1>10. GivenBy(DOMAIN sh, n.nextMarketOrderId)
  BY <1>2, <1>4 DEF GivenBy, Erase, Restrict
<1>11. GivenBy(pc, n.nextMarketOrderId) /\ GivenBy({}, n.nextMarketOrderId)
  <2>1. id \in Nat /\ id < b.nextMarketOrderId
    BY <1>2 DEF BookTypeOK, BookConsistent, IdsBelowNext
  <2> QED BY <1>4, <2>1 DEF GivenBy
<1> HIDE DEF sh, pc
<1> QED BY <1>1, <1>6, <1>7, <1>8, <1>9, <1>10, <1>11, StepShown DEF n

(* The three exits of cancelOrder.                                         *)
LEMMA CancelOrderShown ==
  ASSUME IInv, ShadowSupport, SubscriberAgreesWithSnapshot, Published,
         NEW coid \in DOMAIN id_to_token, NEW qty \in Quantity, CancelOrder(coid, qty)
  PROVE  ShadowSupport' /\ SubscriberAgreesWithSnapshot'
<1> DEFINE c == id_to_token[coid].clientId
           t == id_to_token[coid].tickerId
           b == books[t]
           id == b.orders[<<c, coid>>]
           o == b.pool[id]
           canceled == IF qty = 0 THEN o.remainingQuantity ELSE qty
           left == o.remainingQuantity - canceled
<1>1. taker = NoTaker /\ UNCHANGED taker
  BY DEF CancelOrder
<1>2. \/ marketUpdates' = <<>> /\ UNCHANGED books
      \/ /\ <<c, coid>> \in DOMAIN b.orders
         /\ canceled <= o.remainingQuantity
         /\ books' = [books EXCEPT ![t] = SetRemaining(b, id, left)]
         /\ marketUpdates' = <<Update(t, id, "CANCEL", o.side, o.price, canceled,
                                      OrderId_INVALID, OrderId_INVALID)>>
  BY DEF CancelOrder
<1>3. /\ t \in Tickers
      /\ <<c, coid>> \in DOMAIN b.orders => id \in DOMAIN b.pool /\ o \in MEOrder
  BY NamedOrder
<1> HIDE DEF t, c
<1>4. CASE marketUpdates' = <<>> /\ UNCHANGED books
  BY <1>1, <1>3, <1>4, RejectedShown
<1>5. CASE /\ <<c, coid>> \in DOMAIN b.orders
           /\ canceled <= o.remainingQuantity
           /\ books' = [books EXCEPT ![t] = SetRemaining(b, id, left)]
           /\ marketUpdates' = <<Update(t, id, "CANCEL", o.side, o.price, canceled,
                                        OrderId_INVALID, OrderId_INVALID)>>
  <2>1. id \in DOMAIN b.pool /\ o.remainingQuantity \in Quantity
    BY <1>3, <1>5 DEF MEOrder
  <2> HIDE DEF id, o
  <2>2. canceled \in Quantity
    BY <2>1
  <2> HIDE DEF canceled
  <2>3. left \in Quantity
    BY <1>5, <2>1, <2>2, QuantityMinus
  <2> HIDE DEF left
  <2> QED BY <1>1, <1>3, <1>5, <2>1, <2>3, CanceledShown
<1> QED BY <1>2, <1>4, <1>5

(* replaceOrder publishes the replacement before it is matched.            *)
LEMMA ReplacedShown ==
  ASSUME IInv, ShadowSupport, SubscriberAgreesWithSnapshot, Published,
         NEW t \in Tickers, NEW id \in DOMAIN books[t].pool, NEW newId, NEW side,
         NEW price \in Prices, NEW qty \in Quantity, qty # 0,
         newId = books[t].nextMarketOrderId, side = books[t].pool[id].side,
         taker = NoTaker, taker'.ticker = t, taker'.marketOrderId = newId,
         taker'.side = side, taker'.price = price, taker'.remaining = qty,
         taker'.replacing = TRUE, taker' # NoTaker,
         books' = [books EXCEPT ![t] = TakeMarketId(remove(books[t], id))],
         marketUpdates' = <<Update(t, id, "MODIFY", side, price, qty, newId,
                                   OrderId_INVALID)>>
  PROVE  ShadowSupport' /\ SubscriberAgreesWithSnapshot'
<1> DEFINE b == books[t]
           n == books'[t]
           o == Public(side, price, qty)
           sh == Assign(Erase(shadow_book[t], id), newId, o)
           i == AfterReplace(itch_book[t], id, newId, price, qty)
<1>1. PublicStep(t, sh, i, {}, {})
  BY ModifyPublished
<1>2. /\ DOMAIN books = Tickers /\ BookTypeOK(b) /\ BookConsistent(b) /\ newId \in Nat
      /\ View(shadow_book[t], b.pool, Replacing(t), IdsIn(partlyCanceled, t),
              IdsIn(tradedReplacement, t))
      /\ Agrees(itch_book[t], shadow_book[t], partlyCanceled = {})
      /\ GivenBy(DOMAIN shadow_book[t], newId)
      /\ GivenBy(IdsIn(partlyCanceled, t), newId)
      /\ \A x : x \in IdsIn(partlyCanceled, t) <=> <<t, x>> \in partlyCanceled
  BY ShownNow
<1>3. /\ newId \notin DOMAIN shadow_book[t] /\ newId \notin DOMAIN b.pool
      /\ newId \notin IdsIn(partlyCanceled, t)
  <2>1. ~(newId < newId)
    BY <1>2, SMTT(30), SMTT(60)
  <2> QED BY <1>2, <2>1 DEF GivenBy, BookConsistent, IdsBelowNext
<1>4. Less(b.pool, n.pool, id) /\ n.nextMarketOrderId = newId + 1
  <2> DEFINE r == remove(b, id)
  <2>1. Drops(b, r, id)
    BY <1>2, RemoveDrops
  <2>2. Less(b.pool, r.pool, id)
    <3> HIDE DEF r
    <3> QED BY <2>1 DEF Drops, Less
  <2>3. TakeMarketId(r).pool = r.pool /\ TakeMarketId(r).nextMarketOrderId = newId + 1
    <3>1. r.nextMarketOrderId = newId
      BY DEF remove
    <3>2. "nextMarketOrderId" \in DOMAIN r /\ "pool" \in DOMAIN r
      BY DEF remove
    <3> HIDE DEF r
    <3> QED BY <3>1, <3>2 DEF TakeMarketId
  <2>4. n = TakeMarketId(r)
    BY <1>2
  <2> HIDE DEF r, n, b
  <2> QED BY <2>2, <2>3, <2>4
<1>5. \A x \in Tickers : x # t => books'[x] = books[x]
  BY <1>2
<1> HIDE DEF n
<1>6. newId + 1 \in Nat /\ newId <= newId + 1 /\ newId < newId + 1
  BY <1>2, SMTT(30), SMTT(60)
<1>7. EngineStep(t)
  BY <1>2, <1>4, <1>5, <1>6 DEF EngineStep, n
<1>8. Replacing(t) = {} /\ Replacing(t)' = {newId}
  BY DEF Replacing
<1>9. o \in ShownOrder /\ o.side = side /\ o.price = price /\ o.qty = qty
  <2>1. b.pool[id] \in MEOrder
    BY <1>2 DEF BookTypeOK
  <2>2. side \in Side
    BY <2>1 DEF MEOrder
  <2> QED BY <2>2 DEF ShownOrder, Public
<1>10. Agrees(i, sh, partlyCanceled = {})
  <2>1. id \in DOMAIN shadow_book[t] => shadow_book[t][id].side = side
    BY <1>2 DEF View, Shows
  <2>2. partlyCanceled = {} => id \in DOMAIN shadow_book[t]
    BY <1>2 DEF View
  <2> QED BY <1>2, <1>3, <2>1, <2>2, ReplacesAgree
<1> HIDE DEF o, i
<1>11. View(sh, n.pool, Replacing(t)', IdsIn(partlyCanceled, t) \cup {},
            IdsIn(tradedReplacement, t) \cup {})
  <2>1. /\ IdsIn(partlyCanceled, t) \cup {} = IdsIn(partlyCanceled, t)
        /\ IdsIn(tradedReplacement, t) \cup {} = IdsIn(tradedReplacement, t)
    OBVIOUS
  <2>2. View(shadow_book[t], b.pool, {}, IdsIn(partlyCanceled, t),
             IdsIn(tradedReplacement, t))
    BY <1>2, <1>8
  <2>3. View(sh, n.pool, {newId}, IdsIn(partlyCanceled, t), IdsIn(tradedReplacement, t))
    BY <1>3, <1>4, <1>9, <2>2, ViewReplaced
  <2> QED BY <1>8, <2>1, <2>3
<1>12. sh[newId] = o /\ DOMAIN sh = (DOMAIN shadow_book[t] \ {id}) \cup {newId}
  BY DEF Assign, Erase, Restrict
<1>13. GivenBy(DOMAIN sh, n.nextMarketOrderId) /\ GivenBy({}, n.nextMarketOrderId)
  <2>1. GivenBy(DOMAIN shadow_book[t], newId + 1)
    BY <1>2, <1>6, GivenLater
  <2> QED BY <1>2, <1>4, <1>6, <1>12, <2>1 DEF GivenBy
<1> HIDE DEF sh
<1>14. HandShown'
  <2>1. <<t, newId>> \notin partlyCanceled'
    BY <1>1, <1>2, <1>3 DEF PublicStep, Records
  <2>2. shadow_book'[t] = sh
    BY <1>1 DEF PublicStep, Only
  <2>3. qty > 0 /\ qty >= qty
    BY MaxQtyAssumption, SMTT(30), SMTT(60) DEF Quantity
  <2> QED BY <1>9, <1>12, <2>1, <2>2, <2>3 DEF HandShown, Shows
<1> QED BY <1>1, <1>7, <1>10, <1>11, <1>13, <1>14, StepShown DEF n

(* The exits of replaceOrder.                                              *)
LEMMA ReplaceOrderShown ==
  ASSUME IInv, ShadowSupport, SubscriberAgreesWithSnapshot, Published,
         NEW coid \in DOMAIN id_to_token, NEW orderType, NEW price \in Prices,
         NEW qty \in Quantity, ReplaceOrder(coid, orderType, price, qty)
  PROVE  ShadowSupport' /\ SubscriberAgreesWithSnapshot'
<1> DEFINE c == id_to_token[coid].clientId
           t == id_to_token[coid].tickerId
           b == books[t]
           id == b.orders[<<c, coid>>]
           side == b.pool[id].side
           newId == b.nextMarketOrderId
           accepted ==
             /\ <<c, coid>> \in DOMAIN b.orders /\ qty # 0
             /\ books' = [books EXCEPT ![t] = TakeMarketId(remove(b, id))]
             /\ taker' = [ticker |-> t, clientId |-> c,
                          clientOrderId |-> Len(id_to_token) + 1,
                          marketOrderId |-> newId, orderType |-> orderType,
                          side |-> side, price |-> price, initialQuantity |-> qty,
                          remaining |-> qty, replacing |-> TRUE]
             /\ marketUpdates' = <<Update(t, id, "MODIFY", side, price, qty, newId,
                                          OrderId_INVALID)>>
<1>1. taker = NoTaker
  BY DEF ReplaceOrder
<1>2. (marketUpdates' = <<>> /\ UNCHANGED <<books, taker>>) \/ accepted
  BY DEF ReplaceOrder
<1>3. /\ t \in Tickers
      /\ <<c, coid>> \in DOMAIN b.orders => id \in DOMAIN b.pool
  BY NamedOrder
<1> HIDE DEF t, c
<1>4. CASE marketUpdates' = <<>> /\ UNCHANGED <<books, taker>>
  BY <1>1, <1>3, <1>4, RejectedShown
<1>5. CASE accepted
  <2>1. id \in DOMAIN b.pool
    BY <1>3, <1>5
  <2> HIDE DEF id
  <2>2. /\ taker'.ticker = t /\ taker'.marketOrderId = newId /\ taker'.side = side
        /\ taker'.price = price /\ taker'.remaining = qty /\ taker'.replacing = TRUE
        /\ DOMAIN taker' = {"ticker", "clientId", "clientOrderId", "marketOrderId",
             "orderType", "side", "price", "initialQuantity", "remaining", "replacing"}
    BY <1>5
  <2>3. taker' # NoTaker
    <3>1. "side" \in DOMAIN taker' /\ "side" \notin DOMAIN NoTaker
      BY <2>2 DEF NoTaker
    <3> QED BY <3>1
  <2>4. /\ qty # 0 /\ books' = [books EXCEPT ![t] = TakeMarketId(remove(b, id))]
        /\ marketUpdates' = <<Update(t, id, "MODIFY", side, price, qty, newId,
                                     OrderId_INVALID)>>
    BY <1>5
  <2> HIDE DEF accepted
  <2> QED BY <1>1, <1>3, <2>1, <2>2, <2>3, <2>4, ReplacedShown
<1> QED BY <1>2, <1>4, <1>5

(* Of the orders in m only id may be gone or another in r.                 *)
KeepsOthers(m, r, id) ==
  /\ DOMAIN r \subseteq DOMAIN m
  /\ \A x \in DOMAIN m : x # id => x \in DOMAIN r /\ r[x] = m[x]

(* A trade leaves the other orders alone.                                  *)
LEMMA TradeKeepsOthers ==
  ASSUME NEW m, NEW id, NEW qty
  PROVE  KeepsOthers(m, AfterTrade(m, id, qty), id)
<1>1. CASE id \notin DOMAIN m
  BY <1>1 DEF AfterTrade, KeepsOthers
<1>2. CASE id \in DOMAIN m /\ m[id].qty <= qty
  <2>1. AfterTrade(m, id, qty) = Erase(m, id)
    BY <1>2 DEF AfterTrade
  <2>2. KeepsOthers(m, Erase(m, id), id)
    BY DEF KeepsOthers, Erase, Restrict
  <2> QED BY <2>1, <2>2
<1>3. CASE id \in DOMAIN m /\ ~(m[id].qty <= qty)
  <2>1. AfterTrade(m, id, qty) = [m EXCEPT ![id].qty = @ - qty]
    BY <1>3 DEF AfterTrade
  <2> QED BY <2>1 DEF KeepsOthers
<1> QED BY <1>1, <1>2, <1>3

(* One iteration of match publishes a TRADE of the resting order.          *)
LEMMA TradedShown ==
  ASSUME IInv, ShadowSupport, SubscriberAgreesWithSnapshot, Published,
         NEW t \in Tickers, NEW id \in DOMAIN books[t].pool, NEW fill \in Quantity,
         NEW left \in Quantity, NEW takerLeft \in Quantity,
         NEW side, NEW price, NEW newId, NEW match,
         taker # NoTaker, taker.ticker = t, takerLeft <= taker.remaining,
         books[t].pool[id].remainingQuantity = left + fill,
         books' = [books EXCEPT ![t] = SetRemaining(books[t], id, left)],
         taker' = [taker EXCEPT !.remaining = takerLeft],
         marketUpdates' = <<Update(t, id, "TRADE", side, price, fill, newId, match)>>
  PROVE  ShadowSupport' /\ SubscriberAgreesWithSnapshot'
<1> DEFINE b == books[t]
           n == books'[t]
           moid == taker.marketOrderId
           sh == AfterTrade(shadow_book[t], id, fill)
           i == AfterTrade(itch_book[t], id, fill)
           tr == IF taker.replacing THEN {moid} ELSE {}
<1>1. PublicStep(t, sh, i, {}, tr)
  BY TradePublished
<1>2. /\ DOMAIN books = Tickers /\ BookTypeOK(b) /\ BookConsistent(b)
      /\ b.nextMarketOrderId \in Nat
      /\ View(shadow_book[t], b.pool, Replacing(t), IdsIn(partlyCanceled, t),
              IdsIn(tradedReplacement, t))
      /\ Agrees(itch_book[t], shadow_book[t], partlyCanceled = {})
      /\ GivenBy(DOMAIN shadow_book[t], b.nextMarketOrderId)
  BY ShownNow
<1>3. /\ taker \in Taker /\ moid \in Nat /\ moid < b.nextMarketOrderId /\ id # moid
      /\ taker.remaining \in Quantity
  <2>1. taker \in Taker
    BY TakerType DEF IInv
  <2>2. moid \in Nat /\ taker.remaining \in Quantity
    BY <2>1 DEF Taker
  <2>3. moid < b.nextMarketOrderId /\ id < moid
    BY DEF IInv, TakerIsNew
  <2>4. id # moid
    BY <2>2, <2>3, SMTT(30), SMTT(60)
  <2> QED BY <2>1, <2>2, <2>3, <2>4
<1>4. n = SetRemaining(b, id, left) /\ \A x \in Tickers : x # t => books'[x] = books[x]
  BY <1>2
<1> HIDE DEF n
<1>5. /\ left = 0 => Less(b.pool, n.pool, id)
      /\ left # 0 => Lowered(b.pool, n.pool, id, left)
      /\ n.nextMarketOrderId = b.nextMarketOrderId
  <2>1. BookLowered(b, n, id, left)
    BY <1>2, <1>4, PoolLowered
  <2> QED BY <2>1 DEF BookLowered
<1>6. /\ taker'.ticker = t /\ taker'.marketOrderId = moid /\ taker'.side = taker.side
      /\ taker'.price = taker.price /\ taker'.replacing = taker.replacing
      /\ taker'.remaining = takerLeft /\ taker' # NoTaker
  <2>1. /\ taker'.ticker = t /\ taker'.marketOrderId = moid /\ taker'.side = taker.side
        /\ taker'.price = taker.price /\ taker'.replacing = taker.replacing
        /\ taker'.remaining = takerLeft
    BY <1>3 DEF Taker
  <2>2. "side" \in DOMAIN taker' /\ "side" \notin DOMAIN NoTaker
    BY <1>3 DEF Taker, NoTaker
  <2> QED BY <2>1, <2>2
<1>7. EngineStep(t)
  <2>1. b.nextMarketOrderId <= b.nextMarketOrderId
    BY <1>2, SMTT(30), SMTT(60)
  <2> QED BY <1>2, <1>4, <1>5, <1>6, <2>1 DEF EngineStep, n
<1>8. Replacing(t)' = Replacing(t)
  BY <1>6 DEF Replacing
<1>9. View(sh, n.pool, Replacing(t)', IdsIn(partlyCanceled, t) \cup {},
           IdsIn(tradedReplacement, t) \cup tr)
  <2>1. IdsIn(partlyCanceled, t) \cup {} = IdsIn(partlyCanceled, t)
    OBVIOUS
  <2>2. View(sh, n.pool, Replacing(t), IdsIn(partlyCanceled, t),
             IdsIn(tradedReplacement, t))
    BY <1>2, <1>5, ViewFilled
  <2>3. IdsIn(tradedReplacement, t) \subseteq IdsIn(tradedReplacement, t) \cup tr
    OBVIOUS
  <2> HIDE DEF sh, tr
  <2>4. View(sh, n.pool, Replacing(t), IdsIn(partlyCanceled, t),
             IdsIn(tradedReplacement, t) \cup tr)
    BY <2>2, <2>3, ViewTrades
  <2> QED BY <1>8, <2>1, <2>4
<1>10. Agrees(i, sh, partlyCanceled = {})
  BY <1>2, TradesAgree
<1>11. KeepsOthers(shadow_book[t], sh, id)
  BY TradeKeepsOthers
<1> HIDE DEF sh, i
<1>12. /\ GivenBy(DOMAIN sh, n.nextMarketOrderId) /\ GivenBy({}, n.nextMarketOrderId)
       /\ GivenBy(tr, n.nextMarketOrderId)
  BY <1>2, <1>3, <1>5, <1>11 DEF GivenBy, KeepsOthers
<1>13. HandShown'
  <2>1. /\ <<t, moid>> \notin partlyCanceled
        /\ taker.replacing =>
             /\ moid \in DOMAIN shadow_book[t]
             /\ shadow_book[t][moid].qty > 0
             /\ shadow_book[t][moid].side = taker.side
             /\ shadow_book[t][moid].price = taker.price
             /\ shadow_book[t][moid].qty >= taker.remaining
    BY DEF ShadowSupport, HandShown, Shows
  <2>2. /\ <<t, moid>> \notin partlyCanceled' /\ shadow_book'[t] = sh
        /\ taker.replacing => <<t, moid>> \in tradedReplacement'
    BY <1>1, <2>1 DEF PublicStep, Only, Records
  <2>3. ASSUME taker.replacing
        PROVE  /\ moid \in DOMAIN sh
               /\ sh[moid].qty > 0
               /\ sh[moid].side = taker.side /\ sh[moid].price = taker.price
               /\ sh[moid].qty >= takerLeft
    <3>1. moid \in DOMAIN shadow_book[t] /\ moid \in DOMAIN sh
          /\ sh[moid] = shadow_book[t][moid]
      BY <1>3, <1>11, <2>1, <2>3 DEF KeepsOthers
    <3>2. shadow_book[t][moid] \in ShownOrder
      BY <1>2, <3>1 DEF View
    <3>3. shadow_book[t][moid].qty \in Quantity
      BY <3>2 DEF ShownOrder
    <3>4. shadow_book[t][moid].qty >= takerLeft
      BY <1>3, <2>1, <2>3, <3>3, MaxQtyAssumption, SMTT(30), SMTT(60) DEF Quantity
    <3> QED BY <2>1, <2>3, <3>1, <3>4
  <2> QED BY <1>6, <2>2, <2>3 DEF HandShown, Shows
<1> HIDE DEF tr
<1> QED BY <1>1, <1>7, <1>9, <1>10, <1>12, <1>13, StepShown DEF n

(* The order that match takes is a resting one.                            *)
LEMMA FillShown ==
  ASSUME IInv, ShadowSupport, SubscriberAgreesWithSnapshot, Published,
         NEW p \in Prices, FillAt(p)
  PROVE  ShadowSupport' /\ SubscriberAgreesWithSnapshot'
<1> DEFINE t == taker.ticker
           b == books[t]
           s == Opposite(taker.side)
           id == Head(LevelAt(b, s, p))
           o == b.pool[id]
           q == o.remainingQuantity
           fill == IF taker.remaining <= q THEN taker.remaining ELSE q
<1>1. /\ taker # NoTaker /\ IsBestPrice(b, s, p)
      /\ books' = [books EXCEPT ![t] = SetRemaining(b, id, q - fill)]
      /\ taker' = [taker EXCEPT !.remaining = taker.remaining - fill]
      /\ marketUpdates' = <<Update(t, id, "TRADE", o.side, o.price, fill,
                                   OrderId_INVALID, next_match_id)>>
  BY DEF FillAt, TakerMayTrade, MayTradeAt
<1>2. t \in Tickers /\ taker.remaining \in Quantity
  <2>1. taker \in Taker
    BY <1>1, TakerType DEF IInv
  <2> QED BY <2>1 DEF Taker
<1>3. BookTypeOK(b) /\ BookConsistent(b) /\ s \in Side
  <2>1. s \in Side
    BY DEF Opposite, Side
  <2> QED BY <1>2, <2>1, ShownNow
<1> HIDE DEF s
<1>4. id \in DOMAIN b.pool /\ b.pool[id] \in MEOrder
  BY <1>1, <1>3, HeadFirstInLine
<1>5. q \in Quantity
  BY <1>4 DEF MEOrder
<1> HIDE DEF id, q, o
<1>6. /\ fill \in Quantity /\ q - fill \in Quantity
      /\ taker.remaining - fill \in Quantity /\ taker.remaining - fill <= taker.remaining
      /\ q = (q - fill) + fill
  BY <1>2, <1>5, MaxQtyAssumption, SMTT(30), SMTT(60) DEF Quantity
<1>7. q = books[t].pool[id].remainingQuantity
  BY DEF q, o
<1> HIDE DEF fill
<1> DEFINE left == q - fill
           takerLeft == taker.remaining - fill
<1>8. /\ left \in Quantity /\ takerLeft \in Quantity /\ takerLeft <= taker.remaining
      /\ books[t].pool[id].remainingQuantity = left + fill
      /\ books' = [books EXCEPT ![t] = SetRemaining(books[t], id, left)]
      /\ taker' = [taker EXCEPT !.remaining = takerLeft]
  BY <1>1, <1>6, <1>7
<1> HIDE DEF left, takerLeft
<1>9. taker.ticker = t
  OBVIOUS
<1> HIDE DEF t
<1> QED BY <1>1, <1>2, <1>4, <1>6, <1>8, <1>9, TradedShown

(* What is known of the order in hand.                                     *)
LEMMA HandFacts ==
  ASSUME IInv, ShadowSupport, taker # NoTaker, NEW t, taker.ticker = t
  PROVE  /\ t \in Tickers
         /\ taker.marketOrderId \in Nat
         /\ taker.marketOrderId < books[t].nextMarketOrderId
         /\ taker.marketOrderId \notin DOMAIN books[t].pool
         /\ taker.side \in Side /\ taker.price \in Prices /\ taker.remaining \in Quantity
         /\ <<t, taker.marketOrderId>> \notin partlyCanceled
         /\ Replacing(t) = IF taker.replacing THEN {taker.marketOrderId} ELSE {}
<1>1. taker \in Taker
  BY TakerType DEF IInv
<1>2. /\ t \in Tickers /\ taker.marketOrderId \in Nat /\ taker.side \in Side
      /\ taker.price \in Prices /\ taker.remaining \in Quantity
  BY <1>1 DEF Taker
<1>3. /\ taker.marketOrderId < books[t].nextMarketOrderId
      /\ \A id \in DOMAIN books[t].pool : id < taker.marketOrderId
      /\ <<t, taker.marketOrderId>> \notin partlyCanceled
  BY DEF IInv, TakerIsNew, ShadowSupport, HandShown
<1>4. taker.marketOrderId \notin DOMAIN books[t].pool
  <2>1. ~(taker.marketOrderId < taker.marketOrderId)
    BY <1>2, SMTT(30), SMTT(60)
  <2> QED BY <1>3, <2>1
<1>5. Replacing(t) = IF taker.replacing THEN {taker.marketOrderId} ELSE {}
  BY DEF Replacing
<1> QED BY <1>2, <1>3, <1>4, <1>5

(* A replacement used up on arrival has traded: it stays behind.           *)
LEMMA FilledShown ==
  ASSUME IInv, ShadowSupport, SubscriberAgreesWithSnapshot, Published, Filled,
         NEW t, taker.ticker = t
  PROVE  ShadowSupport' /\ SubscriberAgreesWithSnapshot'
<1> DEFINE moid == taker.marketOrderId
<1>1. /\ taker # NoTaker /\ taker.remaining = 0 /\ taker' = NoTaker
      /\ marketUpdates' = <<>> /\ UNCHANGED books
  BY DEF Filled, MatchReturns
<1>2. /\ t \in Tickers /\ moid \notin DOMAIN books[t].pool
      /\ Replacing(t) = IF taker.replacing THEN {moid} ELSE {}
  BY <1>1, HandFacts
<1>3. /\ books[t].nextMarketOrderId \in Nat
      /\ View(shadow_book[t], books[t].pool, Replacing(t), IdsIn(partlyCanceled, t),
              IdsIn(tradedReplacement, t))
      /\ \A x : x \in IdsIn(tradedReplacement, t) <=> <<t, x>> \in tradedReplacement
  BY <1>2, ShownNow
<1>4. EngineStep(t)
  <2>1. books[t].nextMarketOrderId <= books[t].nextMarketOrderId
    BY <1>3, SMTT(30), SMTT(60)
  <2> QED BY <1>1, <1>3, <2>1 DEF EngineStep
<1>5. View(shadow_book[t], books[t].pool, {}, IdsIn(partlyCanceled, t),
           IdsIn(tradedReplacement, t))
  <2>1. CASE taker.replacing
    <3>1. /\ moid \in DOMAIN shadow_book[t] /\ shadow_book[t][moid].qty > 0
          /\ <<t, moid>> \notin tradedReplacement => shadow_book[t][moid].qty = 0
      BY <1>1, <2>1 DEF ShadowSupport, HandShown, Shows
    <3>2. <<t, moid>> \in tradedReplacement
      BY <3>1, SMTT(30), SMTT(60)
    <3>3. moid \in IdsIn(tradedReplacement, t)
      BY <1>3, <3>2
    <3>4. View(shadow_book[t], books[t].pool, {moid}, IdsIn(partlyCanceled, t),
               IdsIn(tradedReplacement, t))
      BY <1>2, <1>3, <2>1
    <3> QED BY <3>3, <3>4, ViewSettled
  <2>2. CASE ~taker.replacing
    BY <1>2, <1>3, <2>2
  <2> QED BY <2>1, <2>2
<1>6. Replacing(t)' = {} /\ HandShown'
  BY <1>1 DEF Replacing, HandShown
<1>7. View(shadow_book[t], books'[t].pool, Replacing(t)', IdsIn(partlyCanceled, t),
           IdsIn(tradedReplacement, t))
  BY <1>1, <1>5, <1>6
<1> QED BY <1>1, <1>2, <1>4, <1>6, <1>7, NothingShown

(* A killed remainder is taken off the public books if it was put there.   *)
LEMMA KillShown ==
  ASSUME IInv, ShadowSupport, SubscriberAgreesWithSnapshot, Published, Kill,
         NEW t, taker.ticker = t
  PROVE  ShadowSupport' /\ SubscriberAgreesWithSnapshot'
<1> DEFINE id == taker.marketOrderId
           sh == Erase(shadow_book[t], id)
           i == Erase(itch_book[t], id)
<1>1. /\ taker # NoTaker /\ taker' = NoTaker /\ UNCHANGED books
      /\ taker.replacing =>
           marketUpdates' = <<Update(t, id, "CANCEL", taker.side, taker.price,
                                     taker.remaining, OrderId_INVALID, OrderId_INVALID)>>
      /\ ~taker.replacing => marketUpdates' = <<>>
  BY DEF Kill, MatchReturns
<1>2. /\ t \in Tickers /\ id \notin DOMAIN books[t].pool
      /\ Replacing(t) = IF taker.replacing THEN {id} ELSE {}
  BY <1>1, HandFacts
<1>3. /\ books[t].nextMarketOrderId \in Nat
      /\ View(shadow_book[t], books[t].pool, Replacing(t), IdsIn(partlyCanceled, t),
              IdsIn(tradedReplacement, t))
      /\ Agrees(itch_book[t], shadow_book[t], partlyCanceled = {})
      /\ GivenBy(DOMAIN shadow_book[t], books[t].nextMarketOrderId)
  BY <1>2, ShownNow
<1>4. EngineStep(t)
  <2>1. books[t].nextMarketOrderId <= books[t].nextMarketOrderId
    BY <1>3, SMTT(30), SMTT(60)
  <2> QED BY <1>1, <1>3, <2>1 DEF EngineStep
<1>5. Replacing(t)' = {} /\ HandShown'
  BY <1>1 DEF Replacing, HandShown
<1>6. CASE ~taker.replacing
  <2>1. View(shadow_book[t], books'[t].pool, Replacing(t)', IdsIn(partlyCanceled, t),
             IdsIn(tradedReplacement, t))
    BY <1>1, <1>2, <1>3, <1>5, <1>6
  <2> QED BY <1>1, <1>2, <1>4, <1>5, <1>6, <2>1, NothingShown
<1>7. CASE taker.replacing
  <2>1. PublicStep(t, sh, i, {}, {})
    <3>1. PublicStep(t, sh, i, IF id \in DOMAIN books'[t].pool THEN {id} ELSE {}, {})
      BY <1>1, <1>2, <1>7, CancelPublished
    <3>2. id \notin DOMAIN books'[t].pool
      BY <1>1, <1>2
    <3> HIDE DEF sh, i
    <3> QED BY <3>1, <3>2
  <2>2. View(shadow_book[t], books[t].pool, {id}, IdsIn(partlyCanceled, t),
             IdsIn(tradedReplacement, t))
    BY <1>2, <1>3, <1>7
  <2>3. View(sh, books[t].pool, {}, IdsIn(partlyCanceled, t), IdsIn(tradedReplacement, t))
    BY <1>2, <2>2, ViewKilled
  <2>4. /\ IdsIn(partlyCanceled, t) \cup {} = IdsIn(partlyCanceled, t)
        /\ IdsIn(tradedReplacement, t) \cup {} = IdsIn(tradedReplacement, t)
    OBVIOUS
  <2>5. Agrees(i, sh, partlyCanceled = {})
    BY <1>3, ErasesAgree
  <2>6. GivenBy(DOMAIN sh, books'[t].nextMarketOrderId)
    BY <1>1, <1>3 DEF GivenBy, Erase, Restrict
  <2> HIDE DEF sh, i
  <2>7. View(sh, books'[t].pool, Replacing(t)', IdsIn(partlyCanceled, t) \cup {},
             IdsIn(tradedReplacement, t) \cup {})
    BY <1>1, <1>5, <2>3, <2>4
  <2>8. GivenBy({}, books'[t].nextMarketOrderId)
    BY DEF GivenBy
  <2> QED BY <1>2, <1>4, <1>5, <2>1, <2>5, <2>6, <2>7, <2>8, StepShown
<1> QED BY <1>6, <1>7

(* A remainder that comes to rest: a new order is added now, a replacement *)
(* is shown since its MODIFY.                                              *)
LEMMA RestShown ==
  ASSUME IInv, ShadowSupport, SubscriberAgreesWithSnapshot, Published, Rest,
         NEW t, taker.ticker = t
  PROVE  ShadowSupport' /\ SubscriberAgreesWithSnapshot'
<1> DEFINE b == books[t]
           n == books'[t]
           id == taker.marketOrderId
           order == [clientId |-> taker.clientId, clientOrderId |-> taker.clientOrderId,
                     side |-> taker.side, price |-> taker.price,
                     initialQuantity |-> taker.remaining,
                     remainingQuantity |-> taker.remaining]
           o == Public(taker.side, taker.price, taker.remaining)
           sh == Assign(shadow_book[t], id, o)
           i == Assign(itch_book[t], id, o)
<1>1. /\ taker # NoTaker /\ taker' = NoTaker
      /\ books' = [books EXCEPT ![t] = insert(books[t], id, order)]
      /\ taker.replacing => marketUpdates' = <<>>
      /\ ~taker.replacing =>
           marketUpdates' = <<Update(t, id, "ADD", taker.side, taker.price,
                                     taker.remaining, OrderId_INVALID, OrderId_INVALID)>>
  BY DEF Rest, MatchReturns
<1>2. /\ t \in Tickers /\ id \in Nat /\ id < b.nextMarketOrderId /\ id \notin DOMAIN b.pool
      /\ taker.side \in Side /\ taker.price \in Prices /\ taker.remaining \in Quantity
      /\ <<t, id>> \notin partlyCanceled
      /\ Replacing(t) = IF taker.replacing THEN {id} ELSE {}
  BY <1>1, HandFacts
<1>3. /\ DOMAIN books = Tickers /\ b.nextMarketOrderId \in Nat
      /\ View(shadow_book[t], b.pool, Replacing(t), IdsIn(partlyCanceled, t),
              IdsIn(tradedReplacement, t))
      /\ Agrees(itch_book[t], shadow_book[t], partlyCanceled = {})
      /\ GivenBy(DOMAIN shadow_book[t], b.nextMarketOrderId)
      /\ \A x : /\ x \in IdsIn(partlyCanceled, t) <=> <<t, x>> \in partlyCanceled
                /\ x \in IdsIn(tradedReplacement, t) <=> <<t, x>> \in tradedReplacement
  BY <1>2, ShownNow
<1>4. /\ order.side = taker.side /\ order.price = taker.price
      /\ order.remainingQuantity = taker.remaining
  OBVIOUS
<1>5. /\ o \in ShownOrder /\ o.side = taker.side /\ o.price = taker.price
      /\ o.qty = taker.remaining
  BY <1>2 DEF ShownOrder, Public
<1> HIDE DEF order
<1>6. /\ n = insert(b, id, order) /\ \A x \in Tickers : x # t => books'[x] = books[x]
  BY <1>1, <1>2, <1>3
<1> HIDE DEF n
<1>7. More(b.pool, n.pool, id, order) /\ n.nextMarketOrderId = b.nextMarketOrderId
  <2>1. n.pool = Assign(b.pool, id, order) /\ n.nextMarketOrderId = b.nextMarketOrderId
    BY <1>6 DEF insert
  <2> QED BY <1>2, <2>1 DEF More, Assign
<1>8. EngineStep(t)
  <2>1. b.nextMarketOrderId <= b.nextMarketOrderId
    BY <1>3, SMTT(30), SMTT(60)
  <2> QED BY <1>1, <1>3, <1>6, <1>7, <2>1 DEF EngineStep, n
<1>9. Replacing(t)' = {} /\ HandShown'
  BY <1>1 DEF Replacing, HandShown
<1> HIDE DEF o
<1>10. CASE taker.replacing
  <2>1. /\ id \in DOMAIN shadow_book[t]
        /\ Shows(shadow_book[t][id], taker.side, taker.price, taker.remaining,
                 <<t, id>> \notin tradedReplacement)
    BY <1>1, <1>10 DEF ShadowSupport, HandShown
  <2>2. Shows(shadow_book[t][id], order.side, order.price, order.remainingQuantity,
              id \notin IdsIn(tradedReplacement, t))
    BY <1>3, <1>4, <2>1 DEF Shows
  <2>3. View(shadow_book[t], b.pool, {id}, IdsIn(partlyCanceled, t),
             IdsIn(tradedReplacement, t))
    BY <1>2, <1>3, <1>10
  <2>4. View(shadow_book[t], n.pool, {}, IdsIn(partlyCanceled, t),
             IdsIn(tradedReplacement, t))
    BY <1>2, <1>7, <2>1, <2>2, <2>3, ViewReplacementRests
  <2>5. View(shadow_book[t], books'[t].pool, Replacing(t)', IdsIn(partlyCanceled, t),
             IdsIn(tradedReplacement, t))
    BY <1>9, <2>4 DEF n
  <2> QED BY <1>1, <1>2, <1>8, <1>9, <1>10, <2>5, NothingShown
<1>11. CASE ~taker.replacing
  <2>1. PublicStep(t, sh, i, {}, {})
    BY <1>1, <1>2, <1>11, AddPublished DEF o
  <2>2. Shows(o, order.side, order.price, order.remainingQuantity, TRUE)
    <3>1. taker.remaining >= taker.remaining
      BY <1>2, MaxQtyAssumption, SMTT(30), SMTT(60) DEF Quantity
    <3> QED BY <1>4, <1>5, <3>1 DEF Shows
  <2>3. View(shadow_book[t], b.pool, {}, IdsIn(partlyCanceled, t),
             IdsIn(tradedReplacement, t))
    BY <1>2, <1>3, <1>11
  <2>4. View(sh, n.pool, {}, IdsIn(partlyCanceled, t), IdsIn(tradedReplacement, t))
    <3>1. id \notin IdsIn(partlyCanceled, t)
      BY <1>2, <1>3
    <3> QED BY <1>2, <1>5, <1>7, <2>2, <2>3, <3>1, ViewRests
  <2>5. /\ IdsIn(partlyCanceled, t) \cup {} = IdsIn(partlyCanceled, t)
        /\ IdsIn(tradedReplacement, t) \cup {} = IdsIn(tradedReplacement, t)
    OBVIOUS
  <2>6. Agrees(i, sh, partlyCanceled = {})
    BY <1>3, AssignsAgree
  <2>7. GivenBy(DOMAIN sh, n.nextMarketOrderId) /\ GivenBy({}, n.nextMarketOrderId)
    BY <1>2, <1>3, <1>7 DEF GivenBy, Assign
  <2> HIDE DEF sh, i
  <2>8. View(sh, n.pool, Replacing(t)', IdsIn(partlyCanceled, t) \cup {},
             IdsIn(tradedReplacement, t) \cup {})
    BY <1>9, <2>4, <2>5
  <2> QED BY <1>2, <1>8, <1>9, <2>1, <2>6, <2>7, <2>8, StepShown DEF n
<1> QED BY <1>10, <1>11

-----------------------------------------------------------------------------
(* The public books.                                                       *)

(* The inductive invariant.                                                *)
ShadowInv == IInv /\ ShadowSupport /\ SubscriberAgreesWithSnapshot

(* All books start empty.                                                  *)
LEMMA InitShadowInv == FeedInit => ShadowInv
<1> SUFFICES ASSUME FeedInit PROVE ShadowInv
  OBVIOUS
<1>1. IInv
  BY InitIInv DEF FeedInit
<1>2. /\ DOMAIN shadow_book = Tickers /\ DOMAIN itch_book = Tickers
      /\ \A t \in Tickers : /\ shadow_book[t] = EmptyMap /\ itch_book[t] = EmptyMap
                            /\ books[t].pool = EmptyMap
      /\ taker = NoTaker /\ partlyCanceled = {} /\ tradedReplacement = {}
  BY DEF FeedInit, Init, EmptyBook
<1>3. DOMAIN EmptyMap = {}
  BY DEF EmptyMap
<1>4. \A t \in Tickers : TickerShown(t)
  BY <1>2, <1>3 DEF TickerShown, View
<1>5. HandShown /\ IdsGiven
  BY <1>2, <1>3 DEF HandShown, IdsGiven
<1>6. SubscriberAgreesWithSnapshot
  BY <1>2, <1>3 DEF SubscriberAgreesWithSnapshot
<1> QED BY <1>1, <1>2, <1>4, <1>5, <1>6 DEF ShadowInv, ShadowSupport

(* Every step of the engine, with what it publishes, preserves it.         *)
LEMMA NextShadowInv == ShadowInv /\ [FeedNext]_feedVars => ShadowInv'
<1> SUFFICES ASSUME ShadowInv, [FeedNext]_feedVars PROVE ShadowInv'
  OBVIOUS
<1>1. IInv /\ ShadowSupport /\ SubscriberAgreesWithSnapshot
  BY DEF ShadowInv
<1>2. CASE FeedNext
  <2> DEFINE Goal == ShadowSupport' /\ SubscriberAgreesWithSnapshot'
  <2>1. Next /\ Published
    BY <1>2 DEF FeedNext
  <2>2. IInv'
    BY <1>1, <2>1, NextIInv
  <2>3. ASSUME NEW c \in Clients, NEW t \in Tickers, NEW ty \in OrderType,
               NEW s \in Side, NEW p \in Prices, NEW q \in Quantity,
               AddOrder(c, t, ty, s, p, q)
        PROVE  Goal
    BY <1>1, <2>1, <2>3, AddOrderShown
  <2>4. ASSUME NEW coid \in DOMAIN id_to_token, NEW q \in Quantity,
               CancelOrder(coid, q)
        PROVE  Goal
    BY <1>1, <2>1, <2>4, CancelOrderShown
  <2>5. ASSUME NEW coid \in DOMAIN id_to_token, NEW ty \in OrderType,
               NEW p \in Prices, NEW q \in Quantity, ReplaceOrder(coid, ty, p, q)
        PROVE  Goal
    BY <1>1, <2>1, <2>5, ReplaceOrderShown
  <2>6. ASSUME Fill PROVE Goal
    BY <1>1, <2>1, <2>6, FillShown DEF Fill
  <2>7. ASSUME Filled PROVE Goal
    BY <1>1, <2>1, <2>7, FilledShown
  <2>8. ASSUME Rest PROVE Goal
    BY <1>1, <2>1, <2>8, RestShown
  <2>9. ASSUME Kill PROVE Goal
    BY <1>1, <2>1, <2>9, KillShown
  <2> HIDE DEF Goal
  <2>10. Goal
    BY <2>1, <2>3, <2>4, <2>5, <2>6, <2>7, <2>8, <2>9 DEF Next, Request, Handler
  <2> QED BY <2>2, <2>10 DEF Goal, ShadowInv
<1>3. CASE UNCHANGED feedVars
  <2>1. UNCHANGED vars /\ shadow_book' = shadow_book /\ itch_book' = itch_book
        /\ partlyCanceled' = partlyCanceled /\ tradedReplacement' = tradedReplacement
    BY <1>3 DEF feedVars
  <2>2. books' = books /\ taker' = taker
    BY <2>1 DEF vars
  <2>3. IInv'
    BY <1>1, <2>1, NextIInv
  <2>4. ASSUME NEW t \in Tickers PROVE TickerShown(t)'
    <3>1. Replacing(t)' = Replacing(t)
      BY <2>2 DEF Replacing
    <3> QED BY <1>1, <2>1, <2>2, <3>1 DEF TickerShown, ShadowSupport
  <2>5. HandShown' /\ IdsGiven'
    BY <1>1, <2>1, <2>2 DEF HandShown, IdsGiven, ShadowSupport
  <2>6. SubscriberAgreesWithSnapshot'
    BY <1>1, <2>1 DEF SubscriberAgreesWithSnapshot
  <2>7. DOMAIN shadow_book' = Tickers /\ DOMAIN itch_book' = Tickers
    BY <1>1, <2>1 DEF ShadowSupport
  <2> QED BY <2>3, <2>4, <2>5, <2>6, <2>7 DEF ShadowInv, ShadowSupport
<1> QED BY <1>2, <1>3

(* What the shadow book shows is tied to the engine's book in every        *)
(* reachable state.                                                        *)
LEMMA ShadowInvariant == FeedSpec => []ShadowInv
BY InitShadowInv, NextShadowInv, PTL DEF FeedSpec

(* In every state, also in the middle of match, the shadow book and the    *)
(* subscriber's book are related to the engine's book order by order, and  *)
(* show no market order id that the engine has yet to give.                *)
THEOREM ShadowAlwaysTied == FeedSpec => []ShadowSupport
<1>1. ShadowInv => ShadowSupport
  BY DEF ShadowInv
<1> QED BY <1>1, ShadowInvariant, PTL

(* Between requests the shadow book that SnapshotStreamer serves differs   *)
(* from the book in two ways only: an order canceled in part is missing,   *)
(* and a replacement that traded on its arrival is shown with too much     *)
(* quantity, or shown although it is gone.                                 *)
THEOREM SnapshotsExactOtherwise == FeedSpec => []ShadowExactOtherwise
<1>1. ShadowInv => ShadowExactOtherwise
  <2> SUFFICES ASSUME ShadowInv, taker = NoTaker, NEW t \in Tickers
               PROVE  /\ \A id \in DOMAIN books[t].pool :
                           <<t, id>> \notin partlyCanceled =>
                             /\ id \in DOMAIN shadow_book[t]
                             /\ shadow_book[t][id].side = books[t].pool[id].side
                             /\ shadow_book[t][id].price = books[t].pool[id].price
                             /\ shadow_book[t][id].qty
                                  >= books[t].pool[id].remainingQuantity
                             /\ <<t, id>> \notin tradedReplacement =>
                                  shadow_book[t][id] = Resting(t)[id]
                      /\ \A id \in DOMAIN shadow_book[t] :
                           \/ id \in DOMAIN books[t].pool
                           \/ <<t, id>> \in tradedReplacement
    BY DEF ShadowExactOtherwise
  <2>1. /\ View(shadow_book[t], books[t].pool, Replacing(t), IdsIn(partlyCanceled, t),
                IdsIn(tradedReplacement, t))
        /\ \A x : /\ x \in IdsIn(partlyCanceled, t) <=> <<t, x>> \in partlyCanceled
                  /\ x \in IdsIn(tradedReplacement, t)
                       <=> <<t, x>> \in tradedReplacement
    BY ShownNow DEF ShadowInv
  <2>2. Replacing(t) = {}
    BY DEF Replacing
  <2>3. ASSUME NEW id \in DOMAIN books[t].pool, <<t, id>> \notin partlyCanceled
        PROVE  /\ id \in DOMAIN shadow_book[t]
               /\ shadow_book[t][id] \in ShownOrder
               /\ Shows(shadow_book[t][id], books[t].pool[id].side,
                        books[t].pool[id].price, books[t].pool[id].remainingQuantity,
                        <<t, id>> \notin tradedReplacement)
    BY <2>1, <2>3 DEF View, Shows
  <2>4. ASSUME NEW id \in DOMAIN books[t].pool, <<t, id>> \notin partlyCanceled,
               <<t, id>> \notin tradedReplacement
        PROVE  shadow_book[t][id] = Resting(t)[id]
    <3> DEFINE shown == shadow_book[t][id]
               order == books[t].pool[id]
    <3>1. /\ shown \in ShownOrder /\ shown.side = order.side
          /\ shown.price = order.price /\ shown.qty = order.remainingQuantity
      BY <2>3, <2>4 DEF Shows
    <3>2. Resting(t)[id] = [side |-> order.side, price |-> order.price,
                            qty |-> order.remainingQuantity]
      BY DEF Resting
    <3> HIDE DEF shown, order
    <3>3. shown = [side |-> order.side, price |-> order.price,
                   qty |-> order.remainingQuantity]
      BY <3>1, SMTT(30), SMTT(60) DEF ShownOrder
    <3> QED BY <3>2, <3>3 DEF shown
  <2>5. \A id \in DOMAIN shadow_book[t] :
          id \in DOMAIN books[t].pool \/ <<t, id>> \in tradedReplacement
    BY <2>1, <2>2 DEF View
  <2> QED BY <2>3, <2>4, <2>5 DEF Shows
<1> QED BY <1>1, ShadowInvariant, PTL

(* A subscriber that missed nothing of the feed never contradicts the      *)
(* snapshot, and has the same orders until one is canceled in part.        *)
THEOREM SubscribersAgree == FeedSpec => []SubscriberAgreesWithSnapshot
<1>1. ShadowInv => SubscriberAgreesWithSnapshot
  BY DEF ShadowInv
<1> QED BY <1>1, ShadowInvariant, PTL

(* The error that applyToBook logs for a TRADE of an unknown order can     *)
(* only be about an order canceled in part.                                *)
THEOREM UnknownTradesExplained == FeedSpec => TradeUnknownOnlyAfterPartCancel
<1>1. ASSUME ShadowInv, FeedNext, NEW u \in Range(marketUpdates'),
             u.type = "TRADE", u.market_order_id \notin DOMAIN shadow_book[u.ticker_id]
      PROVE  <<u.ticker_id, u.market_order_id>> \in partlyCanceled
  <2>1. IInv /\ IInv' /\ TradesBestFirst
    BY <1>1, NextIInv, NextBestFirst DEF ShadowInv, FeedNext
  <2>2. marketUpdates' \in Seq(MEMarketUpdate)
    BY <2>1 DEF IInv, TypeOK
  <2>3. PICK i \in 1 .. Len(marketUpdates') : u = marketUpdates'[i]
    <3>1. DOMAIN marketUpdates' = 1 .. Len(marketUpdates')
      BY <2>2, SMTT(30), SMTT(60)
    <3> QED BY <1>1, <3>1 DEF Range
  <2>4. u.ticker_id \in Tickers
    <3>1. u \in MEMarketUpdate
      BY <2>2, <2>3, SequenceParts
    <3> QED BY <3>1 DEF MEMarketUpdate
  <2>5. u.market_order_id \in DOMAIN books[u.ticker_id].pool
    BY <1>1, <2>1, <2>3 DEF TradesBestFirst
  <2>6. PICK t \in Tickers : t = u.ticker_id
    BY <2>4
  <2>7. /\ View(shadow_book[t], books[t].pool, Replacing(t), IdsIn(partlyCanceled, t),
                IdsIn(tradedReplacement, t))
        /\ \A x : x \in IdsIn(partlyCanceled, t) <=> <<t, x>> \in partlyCanceled
    BY <1>1, ShownNow DEF ShadowInv
  <2> QED BY <1>1, <2>5, <2>6, <2>7 DEF View
<1>2. ShadowInv /\ FeedNext =>
        \A u \in Range(marketUpdates') :
          /\ u.type = "TRADE"
          /\ u.market_order_id \notin DOMAIN shadow_book[u.ticker_id]
          => <<u.ticker_id, u.market_order_id>> \in partlyCanceled
  BY <1>1
<1> QED BY <1>2, ShadowInvariant, PTL DEF FeedSpec, TradeUnknownOnlyAfterPartCancel
=============================================================================
