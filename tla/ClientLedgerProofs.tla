------------------------- MODULE ClientLedgerProofs -------------------------
(***************************************************************************)
(* What the clients can add up from their responses is what the engine     *)
(* holds, for every set of clients, tickers and prices and every bound on  *)
(* quantities and ids.                                                     *)
(*                                                                         *)
(* The argument: a client order id names one order for ever (it is fresh   *)
(* when it is registered, and an order stays under the client and ticker   *)
(* of its registration), so that a message changes the account of one      *)
(* order only, by what the engine changed of that order in the same step.  *)
(***************************************************************************)
EXTENDS ClientLedger, MatchingEngineProofs

(* Leaves are for Zenon unless they name another prover.                   *)
USE ZenonT(60)

-----------------------------------------------------------------------------
(* The effect of the messages.                                             *)

NewEntry(qty) == [qty |-> qty, executed |-> 0, onArrival |-> 0, canceled |-> 0]

(* n is the ledger l with the entry e under coid.                          *)
Changed(l, n, coid, e) ==
  /\ DOMAIN n = DOMAIN l
  /\ n[coid] = e
  /\ \A x \in DOMAIN l : x # coid => n[x] = l[x]

(* ACCEPTED and MODIFIED open an account.                                  *)
LEMMA OpensAccount ==
  ASSUME NEW l, NEW r, r.status \in {"ACCEPTED", "MODIFIED"}
  PROVE  AccountAll(l, <<r>>) = Assign(l, r.client_order_id, NewEntry(r.qty))
BY SMTT(30), SMTT(60) DEF AccountAll, Account, NewEntry

(* EXECUTED adds to what was executed, and to what was on arrival if it is *)
(* about the order in hand.                                                *)
LEMMA ExecutesOnAccount ==
  ASSUME NEW l, NEW r, r.status = "EXECUTED", r.client_order_id \in DOMAIN l,
         \A x \in DOMAIN l : l[x] \in LedgerEntry
  PROVE  LET e == l[r.client_order_id]
         IN  Changed(l, Account(l, r), r.client_order_id,
                     [qty |-> e.qty, executed |-> e.executed + r.executed_qty,
                      onArrival |-> IF r.client_order_id = taker.clientOrderId
                                    THEN e.onArrival + r.executed_qty
                                    ELSE e.onArrival,
                      canceled |-> e.canceled])
<1> DEFINE coid == r.client_order_id
           n == Account(l, r)
<1>1. n = [l EXCEPT ![coid].executed = @ + r.executed_qty,
                    ![coid].onArrival = IF coid = taker.clientOrderId
                                        THEN @ + r.executed_qty ELSE @]
  BY DEF Account
<1>2. l[coid] \in LedgerEntry
  OBVIOUS
<1> HIDE DEF n, coid
<1>3. n[coid] = [qty |-> l[coid].qty,
                 executed |-> l[coid].executed + r.executed_qty,
                 onArrival |-> IF coid = taker.clientOrderId
                               THEN l[coid].onArrival + r.executed_qty
                               ELSE l[coid].onArrival,
                 canceled |-> l[coid].canceled]
  BY <1>1, <1>2 DEF LedgerEntry, coid
<1>4. DOMAIN n = DOMAIN l /\ \A x \in DOMAIN l : x # coid => n[x] = l[x]
  BY <1>1, SMTT(30), SMTT(60)
<1> QED BY <1>3, <1>4, SMTT(30), SMTT(60) DEF Changed, n, coid

(* CANCELED adds to what was canceled.                                     *)
LEMMA CancelsOnAccount ==
  ASSUME NEW l, NEW r, r.status = "CANCELED", r.client_order_id \in DOMAIN l,
         \A x \in DOMAIN l : l[x] \in LedgerEntry
  PROVE  LET e == l[r.client_order_id]
         IN  Changed(l, AccountAll(l, <<r>>), r.client_order_id,
                     [qty |-> e.qty, executed |-> e.executed,
                      onArrival |-> e.onArrival,
                      canceled |-> e.canceled + r.leaves_qty])
<1> DEFINE coid == r.client_order_id
           n == AccountAll(l, <<r>>)
<1>1. n = [l EXCEPT ![coid].canceled = @ + r.leaves_qty]
  BY SMTT(30), SMTT(60) DEF AccountAll, Account
<1>2. l[coid] \in LedgerEntry
  OBVIOUS
<1> HIDE DEF n, coid
<1>3. n[coid] = [qty |-> l[coid].qty, executed |-> l[coid].executed,
                 onArrival |-> l[coid].onArrival,
                 canceled |-> l[coid].canceled + r.leaves_qty]
  BY <1>1, <1>2 DEF LedgerEntry, coid
<1>4. DOMAIN n = DOMAIN l /\ \A x \in DOMAIN l : x # coid => n[x] = l[x]
  BY <1>1
<1> QED BY <1>3, <1>4, SMTT(30), SMTT(60) DEF Changed, n, coid

(* A rejection, or no response, changes no account.                        *)
LEMMA RejectionOnAccount ==
  ASSUME NEW l, NEW r, r.status = "CANCEL_REJECTED"
  PROVE  AccountAll(l, <<r>>) = l /\ AccountAll(l, <<>>) = l
<1>1. Account(l, r) = l
  BY SMTT(30), SMTT(60) DEF Account
<1>2. AccountAll(l, <<r>>) = Account(l, r)
  BY SMTT(30), SMTT(60) DEF AccountAll
<1>3. AccountAll(l, <<>>) = l
  BY SMTT(30), SMTT(60) DEF AccountAll
<1> QED BY <1>1, <1>2, <1>3, Zenon

-----------------------------------------------------------------------------
(* A client order id names one order.                                      *)

(* The book of a ticker, and the account of an order in it.                *)
LEMMA RestingFacts ==
  ASSUME IInv, LedgerOK, NEW t \in Tickers, NEW id \in DOMAIN books[t].pool
  PROVE  LET o == books[t].pool[id]
         IN  /\ BookTypeOK(books[t]) /\ BookConsistent(books[t])
             /\ o \in MEOrder
             /\ o.remainingQuantity \in Quantity /\ o.clientOrderId \in Nat
             /\ RestingOnLedger(ledger, id_to_token, t, o)
             /\ o.clientOrderId \in DOMAIN ledger
             /\ o.clientOrderId \in DOMAIN id_to_token
<1>1. BookTypeOK(books[t]) /\ BookConsistent(books[t])
  BY DEF IInv, TypeOK, BooksConsistent
<1>2. books[t].pool[id] \in MEOrder
  BY <1>1 DEF BookTypeOK
<1>3. RestingOnLedger(ledger, id_to_token, t, books[t].pool[id])
  BY DEF LedgerOK
<1>4. /\ books[t].pool[id].clientOrderId \in DOMAIN ledger
      /\ books[t].pool[id].clientOrderId \in DOMAIN id_to_token
  BY <1>3 DEF RestingOnLedger, Registered
<1>5. /\ books[t].pool[id].remainingQuantity \in Quantity
      /\ books[t].pool[id].clientOrderId \in Nat
  BY <1>2 DEF MEOrder
<1> QED BY <1>1, <1>2, <1>3, <1>4, <1>5

(* Two resting orders with the same client order id are one order.         *)
LEMMA RestingIdsDiffer ==
  ASSUME IInv, LedgerOK,
         NEW t \in Tickers, NEW id \in DOMAIN books[t].pool,
         NEW u \in Tickers, NEW x \in DOMAIN books[u].pool,
         books[u].pool[x].clientOrderId = books[t].pool[id].clientOrderId
  PROVE  u = t /\ x = id
<1> DEFINE o == books[t].pool[id]
           p == books[u].pool[x]
<1>1. /\ BookConsistent(books[t])
      /\ RestingOnLedger(ledger, id_to_token, t, o)
      /\ RestingOnLedger(ledger, id_to_token, u, p)
  BY RestingFacts
<1>2. id_to_token[o.clientOrderId] = [clientId |-> o.clientId, tickerId |-> t]
      /\ id_to_token[p.clientOrderId] = [clientId |-> p.clientId, tickerId |-> u]
  BY <1>1 DEF RestingOnLedger, Registered
<1>3. [clientId |-> o.clientId, tickerId |-> t]
        = [clientId |-> p.clientId, tickerId |-> u]
  BY <1>2, SMTT(30), SMTT(60)
<1>4. t = u /\ o.clientId = p.clientId
  <2> HIDE DEF o, p
  <2> QED BY <1>3, SMTT(30), SMTT(60)
<1>5. KeyOf(o) = KeyOf(p)
  BY <1>4, SMTT(30), SMTT(60) DEF KeyOf
<1>6. books[t].orders[KeyOf(o)] = id /\ books[t].orders[KeyOf(p)] = x
  BY <1>1, <1>4, Zenon DEF BookConsistent, IndexFindsOrders
<1> QED BY <1>4, <1>5, <1>6

(* No resting order has the client order id of the order in hand.          *)
LEMMA TakerIdDiffers ==
  ASSUME IInv, LedgerOK, taker # NoTaker,
         NEW t \in Tickers, NEW id \in DOMAIN books[t].pool
  PROVE  books[t].pool[id].clientOrderId # taker.clientOrderId
<1> DEFINE o == books[t].pool[id]
<1> SUFFICES ASSUME o.clientOrderId = taker.clientOrderId PROVE FALSE
  OBVIOUS
<1>1. /\ BookConsistent(books[t]) /\ o.clientOrderId \in Nat
      /\ RestingOnLedger(ledger, id_to_token, t, o)
  BY RestingFacts, SMTT(30), SMTT(60)
<1>2. InHandOnLedger(ledger, id_to_token, taker)
  BY DEF LedgerOK
<1>3. [clientId |-> o.clientId, tickerId |-> t]
        = [clientId |-> taker.clientId, tickerId |-> taker.ticker]
  BY <1>1, <1>2, SMTT(30), SMTT(60) DEF RestingOnLedger, InHandOnLedger, Registered
<1>4. t = taker.ticker
  <2> HIDE DEF o
  <2> QED BY <1>3, SMTT(30), SMTT(60)
<1>5. KeyOf(o) \in DOMAIN books[t].orders /\ KeyOf(o)[2] = o.clientOrderId
  BY <1>1 DEF BookConsistent, IndexFindsOrders, KeyOf
<1>6. KeyOf(o)[2] < taker.clientOrderId
  BY <1>4, <1>5, SMTT(30), SMTT(60) DEF IInv, TakerIsNew
<1> QED BY <1>1, <1>5, <1>6, SMTT(30), SMTT(60)

(* An account that a step leaves alone still fits its order.               *)
LEMMA KeepsAccount ==
  ASSUME NEW l, NEW n, NEW tokens, NEW more, NEW t, NEW o,
         RestingOnLedger(l, tokens, t, o),
         o.clientOrderId \in DOMAIN n, n[o.clientOrderId] = l[o.clientOrderId],
         o.clientOrderId \in DOMAIN more,
         more[o.clientOrderId] = tokens[o.clientOrderId]
  PROVE  RestingOnLedger(n, more, t, o)
BY DEF RestingOnLedger, Registered, OpenIn

(* A request registers the next id, which has no account yet.              *)
LEMMA RegistersFresh ==
  ASSUME IInv, LedgerOK, NEW c \in Clients, NEW t \in Tickers, Register(c, t)
  PROVE  LET coid == Len(id_to_token) + 1
         IN  /\ coid \in Nat /\ coid \notin DOMAIN ledger
             /\ Registered(id_to_token', coid, c, t)
             /\ \A x \in DOMAIN id_to_token :
                  /\ x \in DOMAIN id_to_token'
                  /\ id_to_token'[x] = id_to_token[x]
<1> DEFINE token == [clientId |-> c, tickerId |-> t]
           T == [clientId : Clients, tickerId : Tickers]
<1>1. id_to_token \in Seq(T) /\ token \in T
  BY DEF IInv, TypeOK
<1>2. id_to_token' = Append(id_to_token, token)
  BY DEF Register
<1>3. DOMAIN ledger \subseteq DOMAIN id_to_token
  BY DEF LedgerOK
<1> HIDE DEF token, T
<1>4. /\ Len(id_to_token) \in Nat /\ DOMAIN id_to_token = 1 .. Len(id_to_token)
      /\ DOMAIN id_to_token' = 1 .. Len(id_to_token) + 1
      /\ id_to_token'[Len(id_to_token) + 1] = token
      /\ \A x \in 1 .. Len(id_to_token) : id_to_token'[x] = id_to_token[x]
  BY <1>1, <1>2, SMTT(30), SMTT(60)
<1>5. Len(id_to_token) + 1 \notin DOMAIN id_to_token
  BY <1>4, SMTT(30), SMTT(60)
<1>6. \A x \in 1 .. Len(id_to_token) : x \in 1 .. Len(id_to_token) + 1
  BY <1>4, SMTT(30), SMTT(60)
<1>7. Len(id_to_token) + 1 \in DOMAIN id_to_token'
  BY <1>4, SMTT(30), SMTT(60)
<1> QED BY <1>3, <1>4, <1>5, <1>6, <1>7, SMTT(30), SMTT(60) DEF Registered, token

-----------------------------------------------------------------------------
(* Requests.                                                               *)

(* A new order: its account opens with the whole order, which is in hand.  *)
(* This is the first part of addOrder, and the end of replaceOrder once    *)
(* the old order is gone.                                                  *)
LEMMA ArrivalLedgerOK ==
  ASSUME IInv, LedgerOK, NEW c \in Clients, NEW t \in Tickers, NEW qty \in Quantity,
         Register(c, t), taker = NoTaker,
         taker' # NoTaker,
         taker'.ticker = t, taker'.clientId = c, taker'.remaining = qty,
         taker'.initialQuantity = qty, taker'.clientOrderId = Len(id_to_token) + 1,
         ledger' = Assign(ledger, Len(id_to_token) + 1, NewEntry(qty)),
         replaced \subseteq replaced',
         \A u \in Tickers : \A x \in DOMAIN books'[u].pool :
           x \in DOMAIN books[u].pool /\ books'[u].pool[x] = books[u].pool[x],
         \A u \in Tickers : \A x \in DOMAIN books[u].pool :
           x \in DOMAIN books'[u].pool \/ books[u].pool[x].clientOrderId \in replaced'
  PROVE  LedgerOK'
<1> DEFINE coid == Len(id_to_token) + 1
<1>1. /\ coid \notin DOMAIN ledger
      /\ Registered(id_to_token', coid, c, t)
      /\ \A x \in DOMAIN id_to_token :
           x \in DOMAIN id_to_token' /\ id_to_token'[x] = id_to_token[x]
  BY RegistersFresh, SMTT(30), SMTT(60)
<1>2. DOMAIN ledger \subseteq DOMAIN id_to_token
      /\ \A x \in DOMAIN ledger : ledger[x] \in LedgerEntry
  BY DEF LedgerOK
<1> HIDE DEF coid
<1>3. /\ DOMAIN ledger' = DOMAIN ledger \cup {coid}
      /\ ledger'[coid] = NewEntry(qty)
      /\ \A x \in DOMAIN ledger : ledger'[x] = ledger[x]
  BY <1>1 DEF Assign, coid
<1>4. qty \in Nat
  BY MaxQtyAssumption, SMTT(30), SMTT(60) DEF Quantity
<1>5. /\ NewEntry(qty) \in LedgerEntry
      /\ NewEntry(qty).qty = qty /\ NewEntry(qty).executed = 0
      /\ NewEntry(qty).onArrival = 0 /\ NewEntry(qty).canceled = 0
  BY <1>4 DEF NewEntry, LedgerEntry
<1>6. DOMAIN ledger' \subseteq DOMAIN id_to_token'
  BY <1>1, <1>2, <1>3 DEF Registered
<1>7. \A x \in DOMAIN ledger' : ledger'[x] \in LedgerEntry
  BY <1>2, <1>3, <1>5
<1>8. ASSUME NEW u \in Tickers, NEW x \in DOMAIN books'[u].pool
      PROVE  RestingOnLedger(ledger', id_to_token', u, books'[u].pool[x])
  <2>1. x \in DOMAIN books[u].pool /\ books'[u].pool[x] = books[u].pool[x]
    OBVIOUS
  <2>2. /\ RestingOnLedger(ledger, id_to_token, u, books[u].pool[x])
        /\ books[u].pool[x].clientOrderId \in DOMAIN ledger
        /\ books[u].pool[x].clientOrderId \in DOMAIN id_to_token
    BY <2>1, RestingFacts
  <2> QED BY <1>1, <1>3, <2>1, <2>2, KeepsAccount, SMTT(30), SMTT(60)
<1>9. InHandOnLedger(ledger', id_to_token', taker')
  <2>1. OpenIn(ledger', coid) = qty
    BY <1>3, <1>4, <1>5, SMTT(30), SMTT(60) DEF OpenIn
  <2>2. taker'.clientOrderId = coid
    BY DEF coid
  <2> QED BY <1>1, <1>3, <1>5, <2>1, <2>2 DEF InHandOnLedger
<1>10. ASSUME NEW x \in DOMAIN ledger' \ replaced'
       PROVE  IsLive(x)' \/ Open(x)' = 0
  <2>1. CASE x = coid
    BY <2>1 DEF IsLive, coid
  <2>2. CASE x # coid
    <3>1. x \in DOMAIN ledger \ replaced
      BY <1>3, <2>2
    <3>2. CASE Open(x) = 0
      BY <1>3, <3>1, <3>2 DEF Open, OpenIn
    <3>3. CASE IsLive(x)
      <4>1. PICK u \in Tickers : \E id \in DOMAIN books[u].pool :
                                   books[u].pool[id].clientOrderId = x
        BY <3>3 DEF IsLive, IsResting
      <4>2. PICK id \in DOMAIN books[u].pool : books[u].pool[id].clientOrderId = x
        BY <4>1
      <4>3. id \in DOMAIN books'[u].pool
        BY <4>2
      <4>4. books'[u].pool[id].clientOrderId = x
        BY <4>2, <4>3, SMTT(30), SMTT(60)
      <4> QED BY <4>3, <4>4 DEF IsLive, IsResting
    <3> QED BY <3>1, <3>2, <3>3 DEF LedgerOK
  <2> QED BY <2>1, <2>2
<1> QED BY <1>6, <1>7, <1>8, <1>9, <1>10, SMTT(30), SMTT(60) DEF LedgerOK

(* A response that is no execution is not checked against the ledger.      *)
LEMMA NotExecuted ==
  ASSUME NEW r, responses' = <<r>> \/ responses' = <<>>, r.status # "EXECUTED"
  PROVE  LeavesAgree'
<1>1. \A x \in Range(responses') : x.status # "EXECUTED"
  BY SMTT(30), SMTT(60) DEF Range
<1> QED BY <1>1 DEF LeavesAgree

(* addOrder, up to its call of match.                                      *)
LEMMA AddOrderLedger ==
  ASSUME IInv, LedgerOK, NEW c \in Clients, NEW t \in Tickers,
         NEW orderType \in OrderType, NEW side \in Side, NEW price \in Prices,
         NEW qty \in Quantity, AddOrder(c, t, orderType, side, price, qty),
         ledger' = AccountAll(ledger, responses'), replaced \subseteq replaced'
  PROVE  LedgerOK' /\ LeavesAgree'
<1> DEFINE coid == Len(id_to_token) + 1
           moid == books[t].nextMarketOrderId
           r == Response(c, t, coid, moid, qty, "ACCEPTED", 0, qty, OrderId_INVALID)
<1>1. /\ taker = NoTaker /\ Register(c, t)
      /\ books' = [books EXCEPT ![t] = TakeMarketId(books[t])]
      /\ taker' = [ticker |-> t, clientId |-> c, clientOrderId |-> coid,
                   marketOrderId |-> moid, orderType |-> orderType,
                   side |-> side, price |-> price, initialQuantity |-> qty,
                   remaining |-> qty, replacing |-> FALSE]
      /\ responses' = <<r>>
  BY DEF AddOrder
<1>2. DOMAIN books = Tickers /\ BookTypeOK(books[t])
  BY SMTT(30), SMTT(60) DEF IInv, TypeOK
<1>3. \A u \in Tickers : books'[u].pool = books[u].pool
  BY <1>1, <1>2, SMTT(30), SMTT(60) DEF TakeMarketId, BookTypeOK
<1> HIDE DEF coid, moid
<1>4. /\ taker'.ticker = t /\ taker'.clientId = c /\ taker'.remaining = qty
      /\ taker'.initialQuantity = qty /\ taker'.clientOrderId = coid
  BY <1>1, SMTT(30), SMTT(60)
<1>5. taker' # NoTaker
  <2>1. "side" \in DOMAIN taker' /\ "side" \notin DOMAIN NoTaker
    BY <1>1 DEF NoTaker
  <2> QED BY <2>1
<1>6. r.status = "ACCEPTED" /\ r.client_order_id = coid /\ r.qty = qty
  BY DEF Response
<1> HIDE DEF r
<1>7. ledger' = Assign(ledger, coid, NewEntry(qty))
  BY <1>1, <1>6, OpensAccount, SMTT(30), SMTT(60)
<1>8. LedgerOK'
  BY <1>1, <1>3, <1>4, <1>5, <1>7, ArrivalLedgerOK DEF coid
<1> QED BY <1>1, <1>6, <1>8, NotExecuted, SMTT(30), SMTT(60)

(* The type of what remains of an order.                                   *)
LEMMA RemainingType ==
  ASSUME NEW o \in MEOrder
  PROVE  o.remainingQuantity \in Quantity
BY DEF MEOrder

(* A step that only hands out an id leaves every account as it is.         *)
LEMMA LedgerKept ==
  ASSUME LedgerOK, UNCHANGED <<books, taker, ledger>>, replaced \subseteq replaced',
         \A x \in DOMAIN id_to_token :
           x \in DOMAIN id_to_token' /\ id_to_token'[x] = id_to_token[x]
  PROVE  LedgerOK'
<1>1. /\ DOMAIN ledger' \subseteq DOMAIN id_to_token'
      /\ \A x \in DOMAIN ledger' : ledger'[x] \in LedgerEntry
  BY DEF LedgerOK
<1>2. \A u \in Tickers : \A x \in DOMAIN books'[u].pool :
        RestingOnLedger(ledger', id_to_token', u, books'[u].pool[x])
  <2> TAKE u \in Tickers
  <2> TAKE x \in DOMAIN books'[u].pool
  <2>1. RestingOnLedger(ledger, id_to_token, u, books[u].pool[x])
    BY Zenon DEF LedgerOK
  <2> QED BY <2>1, Zenon DEF RestingOnLedger, Registered
<1>3. taker' # NoTaker => InHandOnLedger(ledger', id_to_token', taker')
  BY DEF LedgerOK, InHandOnLedger, Registered
<1>4. \A x \in DOMAIN ledger' \ replaced' : IsLive(x)' \/ Open(x)' = 0
  BY DEF LedgerOK, IsLive, Open
<1> QED BY <1>1, <1>2, <1>3, <1>4, SMTT(30), SMTT(60) DEF LedgerOK

(* The book n holds what b does, but for the order id, of which left       *)
(* remains.                                                                *)
LeftOf(b, n, id, left) ==
  /\ DOMAIN n.pool = IF left = 0 THEN DOMAIN b.pool \ {id} ELSE DOMAIN b.pool
  /\ \A x \in DOMAIN n.pool : x # id => n.pool[x] = b.pool[x]
  /\ left # 0 =>
       /\ n.pool[id].clientOrderId = b.pool[id].clientOrderId
       /\ n.pool[id].clientId = b.pool[id].clientId
       /\ n.pool[id].initialQuantity = b.pool[id].initialQuantity
       /\ n.pool[id].remainingQuantity = left

(* What SetRemaining leaves of a book's orders.                            *)
LEMMA PoolAfterSetRemaining ==
  ASSUME NEW b, BookTypeOK(b), NEW id \in DOMAIN b.pool, NEW left \in Quantity
  PROVE  LeftOf(b, SetRemaining(b, id, left), id, left)
<1> DEFINE n == SetRemaining(b, id, left)
<1>1. CASE left = 0
  <2>1. Drops(b, n, id)
    BY <1>1, RemoveDrops DEF SetRemaining
  <2> HIDE DEF n
  <2> QED BY <1>1, <2>1 DEF Drops, LeftOf, n
<1>2. CASE left # 0
  <2>1. /\ DOMAIN n.pool = DOMAIN b.pool
        /\ n.pool[id] = [b.pool[id] EXCEPT !.remainingQuantity = left]
        /\ \A x \in DOMAIN b.pool : x # id => n.pool[x] = b.pool[x]
    BY <1>2, SetRemainingMarks, SMTT(30), SMTT(60) DEF Marks
  <2>2. b.pool[id] \in MEOrder
    BY DEF BookTypeOK
  <2> HIDE DEF n
  <2>3. /\ n.pool[id].clientOrderId = b.pool[id].clientOrderId
        /\ n.pool[id].clientId = b.pool[id].clientId
        /\ n.pool[id].initialQuantity = b.pool[id].initialQuantity
        /\ n.pool[id].remainingQuantity = left
    BY <2>1, <2>2 DEF MEOrder
  <2> QED BY <1>2, <2>1, <2>3, SMTT(30), SMTT(60) DEF LeftOf, n
<1> QED BY <1>1, <1>2

(* The account of coid goes down to left.                                  *)
AccountLowered(l, n, coid, left) ==
  /\ DOMAIN n = DOMAIN l
  /\ n[coid].qty = l[coid].qty
  /\ n[coid].onArrival = l[coid].onArrival
  /\ OpenIn(n, coid) = left

(* The accounts of the resting orders other than coid are the same.        *)
OtherAccountsKept(l, n, coid) ==
  \A t \in Tickers : \A id \in DOMAIN books[t].pool :
    LET other == books[t].pool[id].clientOrderId
    IN  other # coid => n[other] = l[other]

(* A step that lowers one resting order, and its account by as much, with  *)
(* the accounts of the other resting orders left alone.                    *)
LEMMA LowersResting ==
  ASSUME IInv, LedgerOK, NEW t \in Tickers, NEW id \in DOMAIN books[t].pool,
         NEW left \in Quantity, NEW coid, coid = books[t].pool[id].clientOrderId,
         books' = [books EXCEPT ![t] = SetRemaining(books[t], id, left)],
         UNCHANGED id_to_token, AccountLowered(ledger, ledger', coid, left),
         OtherAccountsKept(ledger, ledger', coid)
  PROVE  /\ \A u \in Tickers : \A x \in DOMAIN books'[u].pool :
              RestingOnLedger(ledger', id_to_token', u, books'[u].pool[x])
         /\ \A c \in DOMAIN ledger : c # coid /\ IsResting(books, c) => IsResting(books', c)
         /\ left # 0 => IsResting(books', coid)
<1> DEFINE b == books[t]
           n == SetRemaining(b, id, left)
           o == b.pool[id]
<1>1. /\ BookTypeOK(b) /\ RestingOnLedger(ledger, id_to_token, t, o)
      /\ o.clientOrderId \in DOMAIN ledger /\ o.clientOrderId \in DOMAIN id_to_token
  BY RestingFacts
<1>2. LeftOf(b, n, id, left)
  BY <1>1, PoolAfterSetRemaining
<1>3. books'[t] = n /\ \A u \in Tickers : u # t => books'[u] = books[u]
  BY DEF IInv, TypeOK
<1> HIDE DEF n, o, b
<1>4. ASSUME NEW u \in Tickers, NEW x \in DOMAIN books'[u].pool, ~(u = t /\ x = id)
      PROVE  /\ x \in DOMAIN books[u].pool /\ books'[u].pool[x] = books[u].pool[x]
             /\ RestingOnLedger(ledger', id_to_token', u, books'[u].pool[x])
  <2>1. x \in DOMAIN books[u].pool /\ books'[u].pool[x] = books[u].pool[x]
    BY <1>2, <1>3, <1>4, SMTT(30), SMTT(60) DEF LeftOf, b
  <2>2. /\ RestingOnLedger(ledger, id_to_token, u, books[u].pool[x])
        /\ books[u].pool[x].clientOrderId \in DOMAIN ledger
        /\ books[u].pool[x].clientOrderId \in DOMAIN id_to_token
    BY <2>1, RestingFacts
  <2>3. books[u].pool[x].clientOrderId # coid
    BY <1>4, <2>1, RestingIdsDiffer, SMTT(30), SMTT(60)
  <2>4. /\ books[u].pool[x].clientOrderId \in DOMAIN ledger'
        /\ ledger'[books[u].pool[x].clientOrderId]
             = ledger[books[u].pool[x].clientOrderId]
    BY <2>1, <2>2, <2>3 DEF AccountLowered, OtherAccountsKept
  <2>5. RestingOnLedger(ledger', id_to_token', u, books[u].pool[x])
    BY <2>2, <2>4, KeepsAccount, SMTT(30), SMTT(60)
  <2> QED BY <2>1, <2>5
<1>5. ASSUME id \in DOMAIN n.pool
      PROVE  RestingOnLedger(ledger', id_to_token', t, n.pool[id])
  <2>1. left # 0
    BY <1>2, <1>5 DEF LeftOf
  <2> QED BY <1>1, <1>2, <2>1 DEF RestingOnLedger, Registered, AccountLowered, LeftOf,
             o, b
<1>6. \A u \in Tickers : \A x \in DOMAIN books'[u].pool :
        RestingOnLedger(ledger', id_to_token', u, books'[u].pool[x])
  BY <1>3, <1>4, <1>5, SMTT(30), SMTT(60)
<1>7. ASSUME NEW c \in DOMAIN ledger, c # coid, IsResting(books, c)
      PROVE  IsResting(books', c)
  <2>1. PICK u \in Tickers : \E x \in DOMAIN books[u].pool :
                               books[u].pool[x].clientOrderId = c
    BY <1>7 DEF IsResting
  <2>2. PICK x \in DOMAIN books[u].pool : books[u].pool[x].clientOrderId = c
    BY <2>1, SMTT(30), SMTT(60)
  <2>3. ~(u = t /\ x = id)
    BY <1>7, <2>2, SMTT(30), SMTT(60)
  <2>4. x \in DOMAIN books'[u].pool
    BY <1>2, <1>3, <2>3, SMTT(30), SMTT(60) DEF LeftOf, b
  <2>5. books'[u].pool[x].clientOrderId = c
    BY <1>4, <2>2, <2>3, <2>4, SMTT(30), SMTT(60)
  <2> QED BY <2>4, <2>5, SMTT(30), SMTT(60) DEF IsResting
<1>8. left # 0 => IsResting(books', coid)
  <2> HAVE left # 0
  <2>1. id \in DOMAIN books'[t].pool /\ books'[t].pool[id].clientOrderId = coid
    BY <1>2, <1>3, SMTT(30), SMTT(60) DEF LeftOf, b
  <2> QED BY <2>1, SMTT(30), SMTT(60) DEF IsResting
<1> QED BY <1>6, <1>7, <1>8

(* cancelOrder.                                                            *)
LEMMA CancelOrderLedger ==
  ASSUME IInv, LedgerOK, NEW coid \in DOMAIN id_to_token, NEW qty \in Quantity,
         CancelOrder(coid, qty),
         ledger' = AccountAll(ledger, responses'), replaced \subseteq replaced'
  PROVE  LedgerOK' /\ LeavesAgree'
<1> DEFINE c == id_to_token[coid].clientId
           t == id_to_token[coid].tickerId
           b == books[t]
           id == b.orders[<<c, coid>>]
           o == b.pool[id]
           canceled == IF qty = 0 THEN o.remainingQuantity ELSE qty
           left == o.remainingQuantity - canceled
           r == Response(c, t, coid, id, o.initialQuantity, "CANCELED", 0,
                         canceled, OrderId_INVALID)
           n1 == Unknown(c, t, coid)
           n2 == Response(c, t, coid, id, o.initialQuantity, "CANCEL_REJECTED", 0,
                          o.remainingQuantity, OrderId_INVALID)
<1>1. taker = NoTaker /\ UNCHANGED <<id_to_token, taker>>
  BY DEF CancelOrder
<1>2. \/ (responses' = <<n1>> \/ responses' = <<n2>>) /\ UNCHANGED books
      \/ /\ <<c, coid>> \in DOMAIN b.orders
         /\ canceled <= o.remainingQuantity
         /\ books' = [books EXCEPT ![t] = SetRemaining(b, id, left)]
         /\ responses' = <<r>>
  BY DEF CancelOrder
<1>3. /\ t \in Tickers /\ BookTypeOK(b) /\ BookConsistent(b)
      /\ <<c, coid>> \in DOMAIN b.orders =>
           id \in DOMAIN b.pool /\ o \in MEOrder /\ o.clientOrderId = coid
  BY NamedOrder
<1>4. n1.status = "CANCEL_REJECTED" /\ n2.status = "CANCEL_REJECTED"
  BY SMTT(30), SMTT(60) DEF Unknown, Response
<1>5. /\ r.status = "CANCELED" /\ r.client_order_id = coid
      /\ r.qty = o.initialQuantity /\ r.leaves_qty = canceled
  BY DEF Response
<1> HIDE DEF n1, n2, r, t, c
<1>6. CASE (responses' = <<n1>> \/ responses' = <<n2>>) /\ UNCHANGED books
  <2>1. UNCHANGED ledger
    BY <1>4, <1>6, RejectionOnAccount, SMTT(30), SMTT(60)
  <2>2. LedgerOK'
    BY <1>1, <1>6, <2>1, LedgerKept, SMTT(30), SMTT(60)
  <2> QED BY <1>4, <1>6, <2>2, NotExecuted, SMTT(30), SMTT(60)
<1>7. CASE /\ <<c, coid>> \in DOMAIN b.orders
           /\ canceled <= o.remainingQuantity
           /\ books' = [books EXCEPT ![t] = SetRemaining(b, id, left)]
           /\ responses' = <<r>>
  <2>1. id \in DOMAIN b.pool /\ o \in MEOrder /\ o.clientOrderId = coid
    BY <1>3, <1>7
  <2>2. o.remainingQuantity \in Quantity
    BY <2>1, RemainingType, Zenon
  <2>3. /\ RestingOnLedger(ledger, id_to_token, t, o)
        /\ coid \in DOMAIN ledger
    BY <1>3, <2>1, RestingFacts, Zenon
  <2> HIDE DEF id, o, b
  <2>4. canceled \in Quantity
    BY <2>2, SMTT(30), SMTT(60)
  <2> HIDE DEF canceled
  <2>5. left \in Quantity /\ canceled \in Nat
    BY <1>7, <2>2, <2>4, QuantityMinus, MaxQtyAssumption, SMTT(30), SMTT(60) DEF Quantity
  <2>6. \A x \in DOMAIN ledger : ledger[x] \in LedgerEntry
    BY DEF LedgerOK
  <2> DEFINE e == [qty |-> ledger[coid].qty, executed |-> ledger[coid].executed,
                   onArrival |-> ledger[coid].onArrival,
                   canceled |-> ledger[coid].canceled + canceled]
  <2>7. Changed(ledger, ledger', coid, e)
    BY <1>5, <1>7, <2>3, <2>6, CancelsOnAccount
  <2>8. /\ e.qty = ledger[coid].qty /\ e.onArrival = ledger[coid].onArrival
        /\ e.executed = ledger[coid].executed
        /\ e.canceled = ledger[coid].canceled + canceled
    OBVIOUS
  <2>9. /\ ledger[coid].qty \in Nat /\ ledger[coid].executed \in Nat
        /\ ledger[coid].onArrival \in Nat /\ ledger[coid].canceled \in Nat
    BY <2>3, <2>6 DEF LedgerEntry
  <2>10. e \in LedgerEntry
    BY <2>5, <2>9, SMTT(30), SMTT(60) DEF LedgerEntry
  <2> HIDE DEF e
  <2>11. OpenIn(ledger', coid) = left
    <3>1. OpenIn(ledger, coid) = o.remainingQuantity
      BY <2>1, <2>3 DEF RestingOnLedger
    <3>2. \A w, x, y, z, v \in Nat : w - x - y = z => w - x - (y + v) = z - v
      BY SMTT(30), SMTT(60)
    <3>3. o.remainingQuantity \in Nat
      BY <2>2, MaxQtyAssumption, SMTT(30), SMTT(60) DEF Quantity
    <3> QED BY <2>5, <2>7, <2>8, <2>9, <3>1, <3>2, <3>3, SMTT(30), SMTT(60) DEF OpenIn, Changed
  <2>12. AccountLowered(ledger, ledger', coid, left)
    BY <2>7, <2>8, <2>11 DEF AccountLowered, Changed
  <2>13. OtherAccountsKept(ledger, ledger', coid)
    BY <2>7, RestingFacts DEF OtherAccountsKept, Changed
  <2> HIDE DEF left
  <2>14. /\ \A u \in Tickers : \A x \in DOMAIN books'[u].pool :
              RestingOnLedger(ledger', id_to_token', u, books'[u].pool[x])
         /\ \A x \in DOMAIN ledger : x # coid /\ IsResting(books, x)
                                     => IsResting(books', x)
         /\ left # 0 => IsResting(books', coid)
    BY <1>1, <1>3, <1>7, <2>1, <2>5, <2>12, <2>13, LowersResting DEF b, o
  <2>15. /\ DOMAIN ledger' = DOMAIN ledger /\ ledger'[coid] = e
         /\ \A x \in DOMAIN ledger : x # coid => ledger'[x] = ledger[x]
    BY <2>7 DEF Changed
  <2>16. /\ DOMAIN ledger' \subseteq DOMAIN id_to_token'
         /\ \A x \in DOMAIN ledger' : ledger'[x] \in LedgerEntry
    BY <1>1, <2>6, <2>10, <2>15 DEF LedgerOK
  <2>17. ASSUME NEW x \in DOMAIN ledger' \ replaced'
         PROVE  IsLive(x)' \/ Open(x)' = 0
    <3>1. CASE x = coid
      BY <2>11, <2>14, <3>1, SMTT(30), SMTT(60) DEF IsLive, Open
    <3>2. CASE x # coid
      <4>1. x \in DOMAIN ledger \ replaced /\ ledger'[x] = ledger[x]
        BY <2>15, <3>2, SMTT(30), SMTT(60)
      <4>2. IsResting(books, x) \/ Open(x) = 0
        BY <1>1, <4>1, SMTT(30), SMTT(60) DEF LedgerOK, IsLive
      <4> QED BY <2>14, <3>2, <4>1, <4>2, SMTT(30), SMTT(60) DEF IsLive, Open, OpenIn
    <3> QED BY <3>1, <3>2, SMTT(30), SMTT(60)
  <2>18. LedgerOK'
    BY <1>1, <2>14, <2>16, <2>17, SMTT(30), SMTT(60) DEF LedgerOK
  <2> QED BY <1>5, <1>7, <2>18, NotExecuted, SMTT(30), SMTT(60)
<1> QED BY <1>2, <1>6, <1>7

(* replaceOrder, up to its call of match.                                  *)
LEMMA ReplaceOrderLedger ==
  ASSUME IInv, LedgerOK, NEW coid \in DOMAIN id_to_token,
         NEW orderType \in OrderType, NEW price \in Prices, NEW qty \in Quantity,
         ReplaceOrder(coid, orderType, price, qty),
         ledger' = AccountAll(ledger, responses'),
         replaced' = replaced \cup ReplacedBy(marketUpdates')
  PROVE  LedgerOK' /\ LeavesAgree'
<1> DEFINE c == id_to_token[coid].clientId
           t == id_to_token[coid].tickerId
           b == books[t]
           oldId == b.orders[<<c, coid>>]
           side == b.pool[oldId].side
           newCoid == Len(id_to_token) + 1
           newId == b.nextMarketOrderId
           u1 == Update(t, oldId, "MODIFY", side, price, qty, newId, OrderId_INVALID)
           r == Response(c, t, newCoid, newId, qty, "MODIFIED", 0, qty,
                         OrderId_INVALID)
           n1 == Unknown(c, t, coid)
           n == TakeMarketId(remove(b, oldId))
<1>1. taker = NoTaker /\ Register(c, t)
  BY DEF ReplaceOrder
<1>2. \/ responses' = <<n1>> /\ UNCHANGED <<books, taker>>
      \/ /\ <<c, coid>> \in DOMAIN b.orders
         /\ books' = [books EXCEPT ![t] = n]
         /\ taker' = [ticker |-> t, clientId |-> c, clientOrderId |-> newCoid,
                      marketOrderId |-> newId, orderType |-> orderType,
                      side |-> side, price |-> price, initialQuantity |-> qty,
                      remaining |-> qty, replacing |-> TRUE]
         /\ responses' = <<r>>
         /\ marketUpdates' = <<u1>>
  BY DEF ReplaceOrder
<1>3. /\ c \in Clients /\ t \in Tickers /\ DOMAIN books = Tickers
      /\ BookTypeOK(b) /\ BookConsistent(b)
      /\ <<c, coid>> \in DOMAIN b.orders =>
           /\ oldId \in DOMAIN b.pool
           /\ b.pool[oldId].clientOrderId = coid
  BY NamedOrder
<1>4. n1.status = "CANCEL_REJECTED"
  BY SMTT(30), SMTT(60) DEF Unknown, Response
<1>5. r.status = "MODIFIED" /\ r.client_order_id = newCoid /\ r.qty = qty
  BY SMTT(30), SMTT(60) DEF Response
<1>6. u1.type = "MODIFY" /\ u1.ticker_id = t /\ u1.market_order_id = oldId
  BY DEF Update
<1> HIDE DEF n1, r, u1, t, c, newCoid, newId, side
<1>7. CASE responses' = <<n1>> /\ UNCHANGED <<books, taker>>
  <2>1. UNCHANGED ledger
    BY <1>4, <1>7, RejectionOnAccount, SMTT(30), SMTT(60)
  <2>2. \A x \in DOMAIN id_to_token :
          x \in DOMAIN id_to_token' /\ id_to_token'[x] = id_to_token[x]
    BY <1>1, <1>3, RegistersFresh, SMTT(30), SMTT(60)
  <2>3. LedgerOK'
    BY <1>7, <2>1, <2>2, LedgerKept, SMTT(30), SMTT(60)
  <2> QED BY <1>4, <1>7, <2>3, NotExecuted, SMTT(30), SMTT(60)
<1>8. CASE /\ <<c, coid>> \in DOMAIN b.orders
           /\ books' = [books EXCEPT ![t] = n]
           /\ taker' = [ticker |-> t, clientId |-> c, clientOrderId |-> newCoid,
                        marketOrderId |-> newId, orderType |-> orderType,
                        side |-> side, price |-> price, initialQuantity |-> qty,
                        remaining |-> qty, replacing |-> TRUE]
           /\ responses' = <<r>>
           /\ marketUpdates' = <<u1>>
  <2>1. oldId \in DOMAIN b.pool /\ b.pool[oldId].clientOrderId = coid
    BY <1>3, <1>8, Zenon
  <2> HIDE DEF oldId
  <2>2. /\ DOMAIN n.pool = DOMAIN b.pool \ {oldId}
        /\ \A x \in DOMAIN n.pool : n.pool[x] = b.pool[x]
    <3> DEFINE less == remove(b, oldId)
    <3>1. Drops(b, less, oldId) /\ BookTypeOK(less) /\ n = TakeMarketId(less)
      BY <1>3, <2>1, RemoveDrops, RemoveType, SMTT(30), SMTT(60)
    <3> HIDE DEF n, less, b
    <3>2. n.pool = less.pool
      BY <3>1, SMTT(30), SMTT(60) DEF TakeMarketId, BookTypeOK
    <3> QED BY <3>1, <3>2, SMTT(30), SMTT(60) DEF Drops
  <2> HIDE DEF n
  <2>3. books'[t] = n /\ \A u \in Tickers : u # t => books'[u] = books[u]
    BY <1>3, <1>8, SMTT(30), SMTT(60)
  <2>4. coid \in replaced'
    <3>1. u1 \in Range(marketUpdates')
      BY <1>8, SMTT(30), SMTT(60) DEF Range
    <3>2. books[u1.ticker_id].pool[u1.market_order_id].clientOrderId
            \in ReplacedBy(marketUpdates')
      BY <1>6, <3>1 DEF ReplacedBy
    <3> QED BY <1>6, <2>1, <3>2, SMTT(30), SMTT(60)
  <2>5. \A u \in Tickers : \A x \in DOMAIN books'[u].pool :
          x \in DOMAIN books[u].pool /\ books'[u].pool[x] = books[u].pool[x]
    BY <2>2, <2>3, SMTT(30), SMTT(60)
  <2>6. \A u \in Tickers : \A x \in DOMAIN books[u].pool :
          x \in DOMAIN books'[u].pool \/ books[u].pool[x].clientOrderId \in replaced'
    BY <2>1, <2>2, <2>3, <2>4, SMTT(30), SMTT(60)
  <2>7. /\ taker'.ticker = t /\ taker'.clientId = c /\ taker'.remaining = qty
        /\ taker'.initialQuantity = qty /\ taker'.clientOrderId = newCoid
    BY <1>8, SMTT(30), SMTT(60)
  <2>8. taker' # NoTaker
    <3>1. "side" \in DOMAIN taker' /\ "side" \notin DOMAIN NoTaker
      BY <1>8, SMTT(30), SMTT(60) DEF NoTaker
    <3> QED BY <3>1, SMTT(30), SMTT(60)
  <2>9. ledger' = Assign(ledger, newCoid, NewEntry(qty))
    BY <1>5, <1>8, OpensAccount, SMTT(30), SMTT(60)
  <2>10. LedgerOK'
    <3> HIDE DEF b
    <3>1. replaced \subseteq replaced'
      OBVIOUS
    <3> QED BY <1>1, <1>3, <2>5, <2>6, <2>7, <2>8, <2>9, <3>1, ArrivalLedgerOK, Zenon
            DEF newCoid
  <2> QED BY <1>5, <1>8, <2>10, NotExecuted, SMTT(30), SMTT(60)
<1> QED BY <1>2, <1>7, <1>8, SMTT(30), SMTT(60)

-----------------------------------------------------------------------------
(* match and what follows it.                                              *)

(* The order in hand and its account.                                      *)
LEMMA InHandFacts ==
  ASSUME IInv, LedgerOK, taker # NoTaker
  PROVE  LET k == taker.clientOrderId
         IN  /\ taker \in Taker /\ taker.ticker \in Tickers /\ DOMAIN books = Tickers
             /\ BookTypeOK(books[taker.ticker]) /\ BookConsistent(books[taker.ticker])
             /\ taker.side \in Side /\ taker.remaining \in Quantity
             /\ InHandOnLedger(ledger, id_to_token, taker)
             /\ k \in DOMAIN ledger /\ OpenIn(ledger, k) = taker.remaining
             /\ \A x \in DOMAIN ledger : ledger[x] \in LedgerEntry
<1>1. TypeOK /\ BooksConsistent
  BY DEF IInv
<1>2. taker \in Taker
  BY <1>1, SMTT(30), SMTT(60) DEF TypeOK
<1>3. taker.ticker \in Tickers /\ taker.side \in Side /\ taker.remaining \in Quantity
  BY <1>2, SMTT(30), SMTT(60) DEF Taker
<1>4. /\ DOMAIN books = Tickers
      /\ BookTypeOK(books[taker.ticker]) /\ BookConsistent(books[taker.ticker])
  BY <1>1, <1>3, SMTT(30), SMTT(60) DEF TypeOK, BooksConsistent
<1>5. /\ InHandOnLedger(ledger, id_to_token, taker)
      /\ \A x \in DOMAIN ledger : ledger[x] \in LedgerEntry
  BY SMTT(30), SMTT(60) DEF LedgerOK
<1>6. /\ taker.clientOrderId \in DOMAIN ledger
      /\ OpenIn(ledger, taker.clientOrderId) = taker.remaining
  BY <1>5, SMTT(30), SMTT(60) DEF InHandOnLedger
<1> QED BY <1>2, <1>3, <1>4, <1>5, <1>6, SMTT(30), SMTT(60)

(* The account m of a resting order and the account k of the order in hand *)
(* after a fill of q between them.                                         *)
FillOnAccounts(l, n, m, k, q) ==
  /\ DOMAIN n = DOMAIN l
  /\ n[m] = [qty |-> l[m].qty, executed |-> l[m].executed + q,
             onArrival |-> l[m].onArrival, canceled |-> l[m].canceled]
  /\ n[k] = [qty |-> l[k].qty, executed |-> l[k].executed + q,
             onArrival |-> l[k].onArrival + q, canceled |-> l[k].canceled]
  /\ \A x \in DOMAIN l : x # m /\ x # k => n[x] = l[x]

(* The accounts of the two sides of a fill.                                *)
LEMMA FillAccounts ==
  ASSUME NEW l, NEW n, NEW r1, NEW r2, NEW q \in Nat,
         \A x \in DOMAIN l : l[x] \in LedgerEntry,
         r1.status = "EXECUTED", r1.executed_qty = q, r1.client_order_id \in DOMAIN l,
         r2.status = "EXECUTED", r2.executed_qty = q, r2.client_order_id \in DOMAIN l,
         r1.client_order_id # r2.client_order_id,
         r2.client_order_id = taker.clientOrderId,
         n = AccountAll(l, <<r1, r2>>)
  PROVE  FillOnAccounts(l, n, r1.client_order_id, r2.client_order_id, q)
<1> DEFINE m == r1.client_order_id
           k == r2.client_order_id
           l1 == Account(l, r1)
           em == [qty |-> l[m].qty, executed |-> l[m].executed + q,
                  onArrival |-> l[m].onArrival, canceled |-> l[m].canceled]
<1>1. Changed(l, l1, m, em)
  BY ExecutesOnAccount, SMTT(30), SMTT(60)
<1>2. em \in LedgerEntry
  BY SMTT(30), SMTT(60) DEF LedgerEntry
<1> HIDE DEF em
<1>3. /\ DOMAIN l1 = DOMAIN l /\ l1[k] = l[k]
      /\ \A x \in DOMAIN l1 : l1[x] \in LedgerEntry
  BY <1>1, <1>2 DEF Changed
<1>4. n = Account(l1, r2)
  BY SMTT(30), SMTT(60) DEF AccountAll
<1> HIDE DEF l1
<1>5. Changed(l1, n, k, [qty |-> l1[k].qty, executed |-> l1[k].executed + q,
                         onArrival |-> l1[k].onArrival + q,
                         canceled |-> l1[k].canceled])
  BY <1>3, <1>4, ExecutesOnAccount
<1>6. n[m] = em /\ n[k] = [qty |-> l[k].qty, executed |-> l[k].executed + q,
                           onArrival |-> l[k].onArrival + q,
                           canceled |-> l[k].canceled]
  BY <1>1, <1>3, <1>5 DEF Changed
<1>7. DOMAIN n = DOMAIN l /\ \A x \in DOMAIN l : x # m /\ x # k => n[x] = l[x]
  BY <1>1, <1>3, <1>5 DEF Changed
<1> QED BY <1>6, <1>7, SMTT(30), SMTT(60) DEF em, FillOnAccounts

(* What is open goes down by what is executed.                             *)
LEMMA OpenGoesDown ==
  ASSUME NEW l, NEW n, NEW x, NEW q \in Nat, l[x] \in LedgerEntry,
         n[x].qty = l[x].qty, n[x].executed = l[x].executed + q,
         n[x].canceled = l[x].canceled
  PROVE  OpenIn(n, x) = OpenIn(l, x) - q
<1>1. l[x].qty \in Nat /\ l[x].executed \in Nat /\ l[x].canceled \in Nat
  BY DEF LedgerEntry
<1>2. \A a, e, c, d \in Nat : a - (e + d) - c = (a - e - c) - d
  BY SMTT(30), SMTT(60)
<1> QED BY <1>1, <1>2, SMTT(30), SMTT(60) DEF OpenIn

(* One iteration of the loop of match.                                     *)
LEMMA FillLedger ==
  ASSUME IInv, LedgerOK, NEW p \in Prices, FillAt(p),
         ledger' = AccountAll(ledger, responses'), replaced \subseteq replaced'
  PROVE  LedgerOK' /\ LeavesAgree'
<1> DEFINE t == taker.ticker
           b == books[t]
           s == Opposite(taker.side)
           id == Head(LevelAt(b, s, p))
           o == b.pool[id]
           q == o.remainingQuantity
           fill == IF taker.remaining <= q THEN taker.remaining ELSE q
           m == o.clientOrderId
           k == taker.clientOrderId
           r1 == Response(o.clientId, t, m, id, o.initialQuantity, "EXECUTED", fill,
                          q - fill, next_match_id)
           r2 == Response(taker.clientId, t, k, taker.marketOrderId,
                          taker.initialQuantity, "EXECUTED", fill,
                          taker.remaining - fill, next_match_id)
<1>1. /\ taker # NoTaker /\ IsBestPrice(b, s, p)
      /\ books' = [books EXCEPT ![t] = SetRemaining(b, id, q - fill)]
      /\ taker' = [taker EXCEPT !.remaining = taker.remaining - fill]
      /\ responses' = <<r1, r2>> /\ UNCHANGED id_to_token
  BY DEF FillAt, TakerMayTrade, MayTradeAt
<1>2. /\ taker \in Taker /\ t \in Tickers /\ DOMAIN books = Tickers
      /\ BookTypeOK(b) /\ BookConsistent(b)
      /\ taker.side \in Side /\ taker.remaining \in Quantity
      /\ InHandOnLedger(ledger, id_to_token, taker)
      /\ k \in DOMAIN ledger /\ OpenIn(ledger, k) = taker.remaining
      /\ \A x \in DOMAIN ledger : ledger[x] \in LedgerEntry
  BY <1>1, InHandFacts
<1>3. /\ r1.status = "EXECUTED" /\ r1.executed_qty = fill /\ r1.client_order_id = m
      /\ r1.leaves_qty = q - fill /\ r1.qty = o.initialQuantity
  BY DEF Response
<1>4. /\ r2.status = "EXECUTED" /\ r2.executed_qty = fill /\ r2.client_order_id = k
      /\ r2.leaves_qty = taker.remaining - fill /\ r2.qty = taker.initialQuantity
  BY DEF Response
<1>5. s \in Side
  BY DEF Opposite, Side
<1> HIDE DEF r1, r2, s, t
<1>6. id \in DOMAIN b.pool
  BY <1>1, <1>2, <1>5, HeadFirstInLine
<1> HIDE DEF id
<1>7. /\ o \in MEOrder /\ q \in Quantity /\ m \in DOMAIN ledger
      /\ RestingOnLedger(ledger, id_to_token, t, o)
  BY <1>2, <1>6, RestingFacts, SMTT(30), SMTT(60)
<1>8. m # k
  BY <1>1, <1>2, <1>6, TakerIdDiffers, SMTT(30), SMTT(60)
<1>9. \A u \in Tickers : \A x \in DOMAIN books[u].pool :
        books[u].pool[x].clientOrderId # k
  BY <1>1, TakerIdDiffers, SMTT(30), SMTT(60)
<1>10. OpenIn(ledger, m) = q /\ o.initialQuantity = ledger[m].qty - ledger[m].onArrival
  BY <1>7, SMTT(30), SMTT(60) DEF RestingOnLedger
<1>11. o.clientOrderId = m /\ b = books[t]
  OBVIOUS
<1> HIDE DEF b, o, m, q
<1>12. /\ fill \in Quantity /\ q - fill \in Quantity
       /\ taker.remaining - fill \in Quantity
  BY <1>2, <1>7, FillQuantity, SMTT(30), SMTT(60)
<1>13. q \in Nat /\ fill \in Nat /\ taker.remaining \in Nat
  BY <1>2, <1>7, <1>12, MaxQtyAssumption, SMTT(30), SMTT(60) DEF Quantity
<1> HIDE DEF fill
<1>14. /\ DOMAIN ledger' = DOMAIN ledger
       /\ ledger'[m] = [qty |-> ledger[m].qty, executed |-> ledger[m].executed + fill,
                        onArrival |-> ledger[m].onArrival,
                        canceled |-> ledger[m].canceled]
       /\ ledger'[k] = [qty |-> ledger[k].qty, executed |-> ledger[k].executed + fill,
                        onArrival |-> ledger[k].onArrival + fill,
                        canceled |-> ledger[k].canceled]
       /\ \A x \in DOMAIN ledger : x # m /\ x # k => ledger'[x] = ledger[x]
  <2>1. ledger' = AccountAll(ledger, <<r1, r2>>)
    BY <1>1, SMTT(30), SMTT(60)
  <2>2. /\ r1.client_order_id \in DOMAIN ledger /\ r2.client_order_id \in DOMAIN ledger
        /\ r1.client_order_id # r2.client_order_id
        /\ r2.client_order_id = taker.clientOrderId
    BY <1>2, <1>3, <1>4, <1>7, <1>8, SMTT(30), SMTT(60)
  <2>3. FillOnAccounts(ledger, ledger', r1.client_order_id, r2.client_order_id, fill)
    BY <1>2, <1>3, <1>4, <1>13, <2>1, <2>2, FillAccounts, Zenon
  <2> QED BY <1>3, <1>4, <2>3, SMTT(30), SMTT(60) DEF FillOnAccounts
<1> HIDE DEF k
<1>15. /\ ledger'[m].qty = ledger[m].qty /\ ledger'[m].onArrival = ledger[m].onArrival
       /\ ledger'[m].executed = ledger[m].executed + fill
       /\ ledger'[m].canceled = ledger[m].canceled
       /\ ledger'[k].qty = ledger[k].qty /\ ledger'[k].canceled = ledger[k].canceled
       /\ ledger'[k].executed = ledger[k].executed + fill
       /\ ledger'[k].onArrival = ledger[k].onArrival + fill
  BY <1>14, SMTT(30), SMTT(60)
<1>16. OpenIn(ledger', m) = q - fill /\ OpenIn(ledger', k) = taker.remaining - fill
  <2>1. ledger[m] \in LedgerEntry /\ ledger[k] \in LedgerEntry
    BY <1>2, <1>7, SMTT(30), SMTT(60)
  <2>2. OpenIn(ledger', m) = OpenIn(ledger, m) - fill
    BY <1>13, <1>15, <2>1, OpenGoesDown, SMTT(30), SMTT(60)
  <2>3. OpenIn(ledger', k) = OpenIn(ledger, k) - fill
    BY <1>13, <1>15, <2>1, OpenGoesDown, SMTT(30), SMTT(60)
  <2> QED BY <1>2, <1>10, <2>2, <2>3, SMTT(30), SMTT(60)
<1>17. /\ \A u \in Tickers : \A x \in DOMAIN books'[u].pool :
            RestingOnLedger(ledger', id_to_token', u, books'[u].pool[x])
       /\ \A x \in DOMAIN ledger : x # m /\ IsResting(books, x) => IsResting(books', x)
       /\ q - fill # 0 => IsResting(books', m)
  <2>1. AccountLowered(ledger, ledger', m, q - fill)
    BY <1>14, <1>16, <1>15, SMTT(30), SMTT(60) DEF AccountLowered
  <2>2. OtherAccountsKept(ledger, ledger', m)
    <3>1. ASSUME NEW u \in Tickers, NEW x \in DOMAIN books[u].pool,
                 books[u].pool[x].clientOrderId # m
          PROVE  ledger'[books[u].pool[x].clientOrderId]
                   = ledger[books[u].pool[x].clientOrderId]
      <4>1. books[u].pool[x].clientOrderId \in DOMAIN ledger
        BY RestingFacts, Zenon
      <4>2. books[u].pool[x].clientOrderId # k
        BY <1>9, Zenon
      <4> QED BY <1>14, <3>1, <4>1, <4>2, Zenon
    <3> QED BY <3>1, Zenon DEF OtherAccountsKept
  <2>3. id \in DOMAIN books[t].pool /\ m = books[t].pool[id].clientOrderId
        /\ books' = [books EXCEPT ![t] = SetRemaining(books[t], id, q - fill)]
    BY <1>1, <1>6, <1>11, SMTT(30), SMTT(60) DEF o
  <2> DEFINE left == q - fill
  <2>4. left \in Quantity
    BY <1>12, SMTT(30), SMTT(60)
  <2> HIDE DEF left
  <2>5. /\ \A u \in Tickers : \A x \in DOMAIN books'[u].pool :
             RestingOnLedger(ledger', id_to_token', u, books'[u].pool[x])
        /\ \A x \in DOMAIN ledger : x # m /\ IsResting(books, x) => IsResting(books', x)
        /\ left # 0 => IsResting(books', m)
    <3>1. AccountLowered(ledger, ledger', m, left)
      BY <2>1 DEF left
    <3>2. books' = [books EXCEPT ![t] = SetRemaining(books[t], id, left)]
      BY <2>3 DEF left
    <3>3. /\ t \in Tickers /\ UNCHANGED id_to_token
          /\ id \in DOMAIN books[t].pool /\ m = books[t].pool[id].clientOrderId
      BY <1>1, <1>2, <2>3
    <3> QED BY <2>2, <2>4, <3>1, <3>2, <3>3, LowersResting
  <2> QED BY <2>5, SMTT(30), SMTT(60) DEF left
<1>18. \A x \in DOMAIN ledger' : ledger'[x] \in LedgerEntry
  <2>1. ledger'[m] \in LedgerEntry /\ ledger'[k] \in LedgerEntry
    BY <1>2, <1>7, <1>13, <1>14, SMTT(30), SMTT(60) DEF LedgerEntry
  <2> QED BY <1>2, <1>14, <2>1
<1>19. /\ taker'.clientOrderId = k /\ taker'.clientId = taker.clientId
       /\ taker'.ticker = t /\ taker'.initialQuantity = taker.initialQuantity
       /\ taker'.remaining = taker.remaining - fill
       /\ taker' \in Taker
  BY <1>1, <1>2, <1>12 DEF Taker, k, t
<1>20. taker' # NoTaker
  <2>1. "side" \in DOMAIN taker' /\ "side" \notin DOMAIN NoTaker
    BY <1>19 DEF Taker, NoTaker
  <2> QED BY <2>1
<1>21. InHandOnLedger(ledger', id_to_token', taker')
  BY <1>1, <1>2, <1>14, <1>16, <1>15, <1>19, SMTT(30), SMTT(60) DEF InHandOnLedger, Registered, k, t
<1>22. ASSUME NEW x \in DOMAIN ledger' \ replaced'
       PROVE  IsLive(x)' \/ Open(x)' = 0
  <2>1. CASE x = k
    BY <1>19, <1>20, <2>1, SMTT(30), SMTT(60) DEF IsLive
  <2>2. CASE x = m
    BY <1>16, <1>17, <2>2, SMTT(30), SMTT(60) DEF IsLive, Open
  <2>3. CASE x # k /\ x # m
    <3>1. x \in DOMAIN ledger \ replaced /\ ledger'[x] = ledger[x]
      BY <1>14, <2>3, SMTT(30), SMTT(60)
    <3>2. IsResting(books, x) \/ Open(x) = 0
      BY <2>3, <3>1, SMTT(30), SMTT(60) DEF LedgerOK, IsLive, k
    <3> QED BY <1>17, <2>3, <3>1, <3>2, SMTT(30), SMTT(60) DEF IsLive, Open, OpenIn
  <2> QED BY <2>1, <2>2, <2>3, SMTT(30), SMTT(60)
<1>23. LedgerOK'
  <2>1. DOMAIN ledger' \subseteq DOMAIN id_to_token'
    BY <1>1, <1>14, SMTT(30), SMTT(60) DEF LedgerOK
  <2> QED BY <1>17, <1>18, <1>21, <1>22, <2>1, SMTT(30), SMTT(60) DEF LedgerOK
<1>24. \A r \in Range(responses') : r = r1 \/ r = r2
  BY <1>1, SMTT(30), SMTT(60) DEF Range
<1>25. LeavesAgree'
  BY <1>3, <1>4, <1>16, <1>24, SMTT(30), SMTT(60) DEF LeavesAgree, Open
<1> QED BY <1>23, <1>25

(* The order in hand leaves it with nothing open: Filled and Kill.         *)
LEMMA HandEmptied ==
  ASSUME IInv, LedgerOK, taker # NoTaker, taker' = NoTaker,
         UNCHANGED <<books, id_to_token>>, replaced \subseteq replaced',
         DOMAIN ledger' = DOMAIN ledger,
         \A x \in DOMAIN ledger : x # taker.clientOrderId => ledger'[x] = ledger[x],
         ledger'[taker.clientOrderId] \in LedgerEntry,
         OpenIn(ledger', taker.clientOrderId) = 0
  PROVE  LedgerOK'
<1>1. /\ DOMAIN ledger' \subseteq DOMAIN id_to_token'
      /\ \A x \in DOMAIN ledger' : ledger'[x] \in LedgerEntry
  BY DEF LedgerOK
<1>2. ASSUME NEW u \in Tickers, NEW x \in DOMAIN books'[u].pool
      PROVE  RestingOnLedger(ledger', id_to_token', u, books'[u].pool[x])
  <2>1. x \in DOMAIN books[u].pool /\ books'[u].pool[x] = books[u].pool[x]
    OBVIOUS
  <2>2. /\ RestingOnLedger(ledger, id_to_token, u, books[u].pool[x])
        /\ books[u].pool[x].clientOrderId \in DOMAIN ledger
        /\ books[u].pool[x].clientOrderId \in DOMAIN id_to_token
        /\ books[u].pool[x].clientOrderId # taker.clientOrderId
    BY <2>1, RestingFacts, TakerIdDiffers, SMTT(30), SMTT(60)
  <2>3. RestingOnLedger(ledger', id_to_token', u, books[u].pool[x])
    BY <2>2, KeepsAccount, SMTT(30), SMTT(60)
  <2> QED BY <2>1, <2>3, SMTT(30), SMTT(60)
<1>3. ASSUME NEW x \in DOMAIN ledger' \ replaced'
      PROVE  IsLive(x)' \/ Open(x)' = 0
  <2>1. CASE x = taker.clientOrderId
    BY <2>1 DEF Open
  <2>2. CASE x # taker.clientOrderId
    <3>1. x \in DOMAIN ledger \ replaced /\ ledger'[x] = ledger[x]
      BY <2>2
    <3>2. IsResting(books, x) \/ Open(x) = 0
      BY <2>2, <3>1 DEF LedgerOK, IsLive
    <3> QED BY <3>1, <3>2 DEF IsLive, Open, OpenIn
  <2> QED BY <2>1, <2>2
<1> QED BY <1>1, <1>2, <1>3, SMTT(30), SMTT(60) DEF LedgerOK

(* match used the order up.                                                *)
LEMMA FilledLedger ==
  ASSUME IInv, LedgerOK, Filled,
         ledger' = AccountAll(ledger, responses'), replaced \subseteq replaced'
  PROVE  LedgerOK' /\ LeavesAgree'
<1>1. /\ taker # NoTaker /\ taker' = NoTaker /\ taker.remaining = 0
      /\ responses' = <<>> /\ UNCHANGED <<books, id_to_token>>
  BY DEF Filled, MatchReturns
<1>2. UNCHANGED ledger
  BY <1>1, RejectionOnAccount, SMTT(30), SMTT(60) DEF AccountAll
<1>3. /\ taker.clientOrderId \in DOMAIN ledger
      /\ OpenIn(ledger, taker.clientOrderId) = 0
      /\ ledger[taker.clientOrderId] \in LedgerEntry
  BY <1>1, InHandFacts
<1>4. LedgerOK'
  BY <1>1, <1>2, <1>3, HandEmptied, SMTT(30), SMTT(60)
<1>5. Range(responses') = {}
  BY <1>1, SMTT(30), SMTT(60) DEF Range
<1> QED BY <1>4, <1>5 DEF LeavesAgree

(* The remainder of a FillAndKill order is canceled.                       *)
LEMMA KillLedger ==
  ASSUME IInv, LedgerOK, Kill,
         ledger' = AccountAll(ledger, responses'), replaced \subseteq replaced'
  PROVE  LedgerOK' /\ LeavesAgree'
<1> DEFINE k == taker.clientOrderId
           q == taker.remaining
           r == Response(taker.clientId, taker.ticker, k, taker.marketOrderId,
                         taker.initialQuantity, "CANCELED", 0, q, OrderId_INVALID)
           e == [qty |-> ledger[k].qty, executed |-> ledger[k].executed,
                 onArrival |-> ledger[k].onArrival,
                 canceled |-> ledger[k].canceled + q]
<1>1. /\ taker # NoTaker /\ taker' = NoTaker /\ responses' = <<r>>
      /\ UNCHANGED <<books, id_to_token>>
  BY SMTT(30), SMTT(60) DEF Kill, MatchReturns
<1>2. /\ q \in Quantity /\ k \in DOMAIN ledger /\ OpenIn(ledger, k) = q
      /\ InHandOnLedger(ledger, id_to_token, taker)
      /\ \A x \in DOMAIN ledger : ledger[x] \in LedgerEntry
  BY <1>1, InHandFacts, SMTT(30), SMTT(60)
<1>3. /\ r.status = "CANCELED" /\ r.client_order_id = k
      /\ r.leaves_qty = q /\ r.qty = taker.initialQuantity
  BY SMTT(30), SMTT(60) DEF Response
<1>4. q \in Nat
  BY <1>2, MaxQtyAssumption, SMTT(30), SMTT(60) DEF Quantity
<1> HIDE DEF r, q
<1>5. Changed(ledger, ledger', k, e)
  BY <1>1, <1>2, <1>3, CancelsOnAccount, SMTT(30), SMTT(60)
<1>6. /\ ledger[k].qty \in Nat /\ ledger[k].executed \in Nat
      /\ ledger[k].canceled \in Nat /\ ledger[k].onArrival \in Nat
  BY <1>2, SMTT(30), SMTT(60) DEF LedgerEntry
<1>7. e \in LedgerEntry /\ e.qty = ledger[k].qty /\ e.executed = ledger[k].executed
      /\ e.canceled = ledger[k].canceled + q
  <2>1. ledger[k].canceled + q \in Nat
    BY <1>4, <1>6, SMTT(30), SMTT(60)
  <2>2. /\ e.qty = ledger[k].qty /\ e.executed = ledger[k].executed
        /\ e.canceled = ledger[k].canceled + q
    BY SMTT(30), SMTT(60)
  <2> QED BY <1>6, <2>1, <2>2 DEF LedgerEntry
<1> HIDE DEF e
<1>8. ledger'[k] = e /\ DOMAIN ledger' = DOMAIN ledger
      /\ \A x \in DOMAIN ledger : x # k => ledger'[x] = ledger[x]
  BY <1>5, SMTT(30), SMTT(60) DEF Changed
<1>9. OpenIn(ledger', k) = 0
  <2>1. \A a, x, c, d \in Nat : a - x - c = d => a - x - (c + d) = 0
    BY SMTT(30), SMTT(60)
  <2> QED BY <1>2, <1>4, <1>6, <1>7, <1>8, <2>1, SMTT(30), SMTT(60) DEF OpenIn
<1>10. LedgerOK'
  BY <1>1, <1>7, <1>8, <1>9, HandEmptied
<1> QED BY <1>1, <1>3, <1>10, NotExecuted, SMTT(30), SMTT(60)

(* The remainder of a GoodTillCancel order rests, and its account with it. *)
LEMMA RestLedger ==
  ASSUME IInv, LedgerOK, Rest,
         ledger' = AccountAll(ledger, responses'), replaced \subseteq replaced'
  PROVE  LedgerOK' /\ LeavesAgree'
<1> DEFINE t == taker.ticker
           k == taker.clientOrderId
           id == taker.marketOrderId
           q == taker.remaining
           o == [clientId |-> taker.clientId, clientOrderId |-> k,
                 side |-> taker.side, price |-> taker.price,
                 initialQuantity |-> q, remainingQuantity |-> q]
           n == insert(books[t], id, o)
<1>1. /\ taker # NoTaker /\ taker' = NoTaker /\ responses' = <<>>
      /\ books' = [books EXCEPT ![t] = n] /\ UNCHANGED id_to_token
  BY DEF Rest, MatchReturns
<1>2. UNCHANGED ledger
  BY <1>1, SMTT(30), SMTT(60) DEF AccountAll
<1>3. /\ t \in Tickers /\ DOMAIN books = Tickers
      /\ InHandOnLedger(ledger, id_to_token, taker)
      /\ k \in DOMAIN ledger
      /\ \A x \in DOMAIN ledger : ledger[x] \in LedgerEntry
  BY <1>1, InHandFacts
<1>4. id \notin DOMAIN books[t].pool
  <2>1. \A x \in DOMAIN books[t].pool : x < id
    BY <1>1, SMTT(30), SMTT(60) DEF IInv, TakerIsNew
  <2>2. taker \in Taker
    BY <1>1, InHandFacts, SMTT(30), SMTT(60)
  <2>3. id \in Nat
    BY <2>2, SMTT(30), SMTT(60) DEF Taker
  <2> QED BY <2>1, <2>3, SMTT(30), SMTT(60)
<1>5. /\ DOMAIN n.pool = DOMAIN books[t].pool \cup {id} /\ n.pool[id] = o
      /\ \A x \in DOMAIN books[t].pool : n.pool[x] = books[t].pool[x]
  <2>1. n.pool = Assign(books[t].pool, id, o)
    BY SMTT(30), SMTT(60) DEF insert
  <2> HIDE DEF n, o
  <2> QED BY <1>4, <2>1, SMTT(30), SMTT(60) DEF Assign
<1>6. /\ o.clientOrderId = k /\ o.clientId = taker.clientId
      /\ o.remainingQuantity = q /\ o.initialQuantity = q
  OBVIOUS
<1> HIDE DEF n, o
<1>7. books'[t] = n /\ \A u \in Tickers : u # t => books'[u] = books[u]
  BY <1>1, <1>3, SMTT(30), SMTT(60)
<1>8. RestingOnLedger(ledger', id_to_token', t, o)
  <2>1. /\ Registered(id_to_token, k, taker.clientId, t) /\ k \in DOMAIN ledger
        /\ OpenIn(ledger, k) = q
        /\ ledger[k].onArrival = ledger[k].executed /\ ledger[k].canceled = 0
    BY <1>3, SMTT(30), SMTT(60) DEF InHandOnLedger
  <2>2. ledger[k].qty \in Nat /\ ledger[k].executed \in Nat
    BY <1>3, SMTT(30), SMTT(60) DEF LedgerEntry
  <2>3. q = ledger[k].qty - ledger[k].onArrival
    BY <2>1, <2>2, SMTT(30), SMTT(60) DEF OpenIn
  <2> QED BY <1>1, <1>2, <1>6, <2>1, <2>3, SMTT(30), SMTT(60) DEF RestingOnLedger, Registered
<1>9. ASSUME NEW u \in Tickers, NEW x \in DOMAIN books'[u].pool
      PROVE  RestingOnLedger(ledger', id_to_token', u, books'[u].pool[x])
  <2>1. CASE u = t /\ x = id
    BY <1>5, <1>7, <1>8, <2>1, SMTT(30), SMTT(60)
  <2>2. CASE ~(u = t /\ x = id)
    <3>1. x \in DOMAIN books[u].pool /\ books'[u].pool[x] = books[u].pool[x]
      BY <1>5, <1>7, <2>2, SMTT(30), SMTT(60)
    <3>2. RestingOnLedger(ledger, id_to_token, u, books[u].pool[x])
      BY <3>1, RestingFacts, SMTT(30), SMTT(60)
    <3> QED BY <1>1, <1>2, <3>1, <3>2, SMTT(30), SMTT(60)
  <2> QED BY <2>1, <2>2, SMTT(30), SMTT(60)
<1>10. ASSUME NEW x \in DOMAIN ledger' \ replaced'
       PROVE  IsLive(x)' \/ Open(x)' = 0
  <2>1. CASE x = k
    <3>1. id \in DOMAIN books'[t].pool /\ books'[t].pool[id].clientOrderId = k
      BY <1>5, <1>6, <1>7, SMTT(30), SMTT(60)
    <3>2. IsResting(books', x)
      BY <1>3, <2>1, <3>1, SMTT(30), SMTT(60) DEF IsResting
    <3> QED BY <3>2, SMTT(30), SMTT(60) DEF IsLive
  <2>2. CASE x # k
    <3>1. x \in DOMAIN ledger \ replaced
      BY <1>2, SMTT(30), SMTT(60)
    <3>2. CASE Open(x) = 0
      BY <1>2, <3>2, SMTT(30), SMTT(60) DEF Open
    <3>3. CASE IsResting(books, x)
      <4>1. PICK u \in Tickers : \E y \in DOMAIN books[u].pool :
                                   books[u].pool[y].clientOrderId = x
        BY <3>3, SMTT(30), SMTT(60) DEF IsResting
      <4>2. PICK y \in DOMAIN books[u].pool : books[u].pool[y].clientOrderId = x
        BY <4>1, SMTT(30), SMTT(60)
      <4>3. y \in DOMAIN books'[u].pool /\ books'[u].pool[y] = books[u].pool[y]
        BY <1>5, <1>7, SMTT(30), SMTT(60)
      <4>4. IsResting(books', x)
        BY <4>2, <4>3, SMTT(30), SMTT(60) DEF IsResting
      <4> QED BY <4>4, SMTT(30), SMTT(60) DEF IsLive
    <3> QED BY <2>2, <3>1, <3>2, <3>3, Zenon DEF LedgerOK, IsLive
  <2> QED BY <2>1, <2>2, SMTT(30), SMTT(60)
<1>11. LedgerOK'
  <2>1. DOMAIN ledger' \subseteq DOMAIN id_to_token'
    BY <1>1, <1>2, SMTT(30), SMTT(60) DEF LedgerOK
  <2>2. \A x \in DOMAIN ledger' : ledger'[x] \in LedgerEntry
    BY <1>2, <1>3, SMTT(30), SMTT(60)
  <2> QED BY <1>1, <1>9, <1>10, <2>1, <2>2, Zenon DEF LedgerOK
<1>12. Range(responses') = {}
  BY <1>1, SMTT(30), SMTT(60) DEF Range
<1> QED BY <1>11, <1>12 DEF LeavesAgree

-----------------------------------------------------------------------------
(* The ledger is right.                                                    *)

(* The ledger invariant holds at the start.                                *)
LEMMA InitLedgerInv == LedgerInit => LedgerInv
<1> SUFFICES ASSUME LedgerInit PROVE LedgerInv
  OBVIOUS
<1>1. /\ Init /\ ledger = EmptyMap /\ replaced = {}
      /\ taker = NoTaker /\ responses = <<>>
      /\ \A t \in Tickers : books[t].pool = EmptyMap
  BY DEF LedgerInit, Init, EmptyBook
<1>2. IInv
  BY <1>1, InitIInv, SMTT(30), SMTT(60)
<1>3. DOMAIN EmptyMap = {} /\ Range(responses) = {}
  BY <1>1, SMTT(30), SMTT(60) DEF EmptyMap, Range
<1>4. LedgerOK
  BY <1>1, <1>3 DEF LedgerOK
<1>5. LeavesAgree
  BY <1>3 DEF LeavesAgree
<1> QED BY <1>2, <1>4, <1>5, SMTT(30), SMTT(60) DEF LedgerInv

(* And every step preserves it.                                            *)
LEMMA NextLedgerInv == LedgerInv /\ [LedgerNext]_ledgerVars => LedgerInv'
<1> SUFFICES ASSUME LedgerInv, [LedgerNext]_ledgerVars PROVE LedgerInv'
  OBVIOUS
<1>1. IInv /\ LedgerOK
  BY DEF LedgerInv
<1>2. CASE UNCHANGED ledgerVars
  <2>1. UNCHANGED vars /\ UNCHANGED <<books, taker, ledger, id_to_token>>
        /\ UNCHANGED <<responses, replaced>>
    BY <1>2 DEF ledgerVars, vars
  <2>2. IInv'
    BY <1>1, <2>1, NextIInv
  <2>3. LedgerOK'
    BY <1>1, <2>1, LedgerKept
  <2>4. LeavesAgree'
    BY <2>1 DEF LedgerInv, LeavesAgree, Open
  <2> QED BY <2>2, <2>3, <2>4 DEF LedgerInv
<1>3. CASE LedgerNext
  <2>1. /\ Next /\ ledger' = AccountAll(ledger, responses')
        /\ replaced' = replaced \cup ReplacedBy(marketUpdates')
    BY <1>3 DEF LedgerNext
  <2>2. replaced \subseteq replaced'
    BY <2>1, SMTT(30), SMTT(60)
  <2>3. IInv'
    BY <1>1, <2>1, NextIInv, SMTT(30), SMTT(60)
  <2> DEFINE Goal == LedgerOK' /\ LeavesAgree'
  <2>4. ASSUME NEW c \in Clients, NEW t \in Tickers, NEW ty \in OrderType,
               NEW s \in Side, NEW p \in Prices, NEW q \in Quantity,
               AddOrder(c, t, ty, s, p, q)
        PROVE  Goal
    BY <1>1, <2>1, <2>2, <2>4, AddOrderLedger, SMTT(30), SMTT(60)
  <2>5. ASSUME NEW coid \in DOMAIN id_to_token, NEW q \in Quantity,
               CancelOrder(coid, q)
        PROVE  Goal
    BY <1>1, <2>1, <2>2, <2>5, CancelOrderLedger, SMTT(30), SMTT(60)
  <2>6. ASSUME NEW coid \in DOMAIN id_to_token, NEW ty \in OrderType,
               NEW p \in Prices, NEW q \in Quantity, ReplaceOrder(coid, ty, p, q)
        PROVE  Goal
    BY <1>1, <2>1, <2>6, ReplaceOrderLedger, SMTT(30), SMTT(60)
  <2>7. ASSUME NEW p \in Prices, FillAt(p) PROVE Goal
    BY <1>1, <2>1, <2>2, <2>7, FillLedger, SMTT(30), SMTT(60)
  <2>8. ASSUME Filled PROVE Goal
    BY <1>1, <2>1, <2>2, <2>8, FilledLedger, SMTT(30), SMTT(60)
  <2>9. ASSUME Rest PROVE Goal
    BY <1>1, <2>1, <2>2, <2>9, RestLedger, SMTT(30), SMTT(60)
  <2>10. ASSUME Kill PROVE Goal
    BY <1>1, <2>1, <2>2, <2>10, KillLedger
  <2> HIDE DEF Goal
  <2>11. Goal
    BY <2>1, <2>4, <2>5, <2>6, <2>7, <2>8, <2>9, <2>10, SMTT(30), SMTT(60)
       DEF Next, Request, Handler, Fill
  <2> QED BY <2>3, <2>11 DEF LedgerInv, Goal
<1> QED BY <1>2, <1>3

(* In every reachable state the books, the order in hand and the messages  *)
(* of the last step agree with what clients were told: the inductive       *)
(* invariant behind the theorems on the private responses.                 *)
THEOREM LedgerInvariant == LedgerSpec => []LedgerInv
<1> QED BY InitLedgerInv, NextLedgerInv, PTL DEF LedgerSpec

(* No share appears or disappears: for every order, what the responses     *)
(* leave open is what the engine holds of it, in a book or in hand, and an *)
(* order that is in neither was reported executed, canceled or replaced.   *)
THEOREM ResponsesAddUp == LedgerSpec => []ResponsesAccountForBook
<1>1. LedgerInv => ResponsesAccountForBook
  <2> SUFFICES ASSUME LedgerInv PROVE ResponsesAccountForBook
    OBVIOUS
  <2>1. IInv /\ LedgerOK
    BY DEF LedgerInv
  <2>2. ASSUME NEW w \in LiveOrders
        PROVE  w[1] \in DOMAIN ledger /\ Open(w[1]) = w[2]
    <3>1. CASE taker # NoTaker /\ w = <<taker.clientOrderId, taker.remaining>>
      BY <2>1, <3>1, SMTT(30), SMTT(60) DEF LedgerOK, InHandOnLedger, Open
    <3>2. CASE \E o \in UNION {Range(books[t].pool) : t \in Tickers} :
                 w = <<o.clientOrderId, o.remainingQuantity>>
      <4>1. PICK t \in Tickers : \E o \in Range(books[t].pool) :
                                   w = <<o.clientOrderId, o.remainingQuantity>>
        BY <3>2, SMTT(30), SMTT(60)
      <4>2. PICK id \in DOMAIN books[t].pool :
              w = <<books[t].pool[id].clientOrderId,
                    books[t].pool[id].remainingQuantity>>
        BY <4>1, SMTT(30), SMTT(60) DEF Range
      <4>3. RestingOnLedger(ledger, id_to_token, t, books[t].pool[id])
        BY <2>1, SMTT(30), SMTT(60) DEF LedgerOK
      <4> QED BY <4>2, <4>3, Zenon DEF RestingOnLedger, Open
    <3> QED BY <3>1, <3>2, SMTT(30), SMTT(60) DEF LiveOrders
  <2>3. ASSUME NEW coid \in DOMAIN ledger \ replaced, IsLive(coid)
        PROVE  \E w \in LiveOrders : w[1] = coid
    <3>1. CASE taker # NoTaker /\ taker.clientOrderId = coid
      <4>1. <<taker.clientOrderId, taker.remaining>> \in LiveOrders
        BY <3>1, SMTT(30), SMTT(60) DEF LiveOrders
      <4> QED BY <3>1, <4>1, SMTT(30), SMTT(60)
    <3>2. CASE IsResting(books, coid)
      <4>1. PICK t \in Tickers : \E id \in DOMAIN books[t].pool :
                                   books[t].pool[id].clientOrderId = coid
        BY <3>2, SMTT(30), SMTT(60) DEF IsResting
      <4>2. PICK id \in DOMAIN books[t].pool : books[t].pool[id].clientOrderId = coid
        BY <4>1, SMTT(30), SMTT(60)
      <4> DEFINE o == books[t].pool[id]
      <4>3. o \in UNION {Range(books[u].pool) : u \in Tickers}
        BY SMTT(30), SMTT(60) DEF Range
      <4>4. <<o.clientOrderId, o.remainingQuantity>> \in LiveOrders
        <5> HIDE DEF o
        <5> QED BY <4>3 DEF LiveOrders
      <4> QED BY <4>2, <4>4, SMTT(30), SMTT(60)
    <3> QED BY <2>3, <3>1, <3>2, SMTT(30), SMTT(60) DEF IsLive
  <2>4. ASSUME NEW coid \in DOMAIN ledger \ replaced, \A w \in LiveOrders : w[1] # coid
        PROVE  Open(coid) = 0
    BY <2>1, <2>3, <2>4 DEF LedgerOK
  <2> QED BY <2>2, <2>4, SMTT(30), SMTT(60) DEF ResponsesAccountForBook
<1> QED BY <1>1, LedgerInvariant, PTL

(* leaves_qty_ of every execution is what the client's own sum of its      *)
(* responses leaves open.                                                  *)
THEOREM LeavesAlwaysAgree == LedgerSpec => []LeavesAgree
<1>1. LedgerInv => LeavesAgree
  BY DEF LedgerInv
<1> QED BY <1>1, LedgerInvariant, PTL
=============================================================================
