---------------------------- MODULE ClientLedger ----------------------------
(***************************************************************************)
(* What the private responses tell the clients.  The matching engine with  *)
(* a history variable: for every order, the totals a client obtains by     *)
(* adding up the OUCH messages encodeOuch makes of the engine's responses. *)
(* The messages reach a client in the order the engine pushed them, so the *)
(* history is advanced in the step that pushes them.                       *)
(***************************************************************************)
EXTENDS MatchingEngine

VARIABLES
  ledger,    \* client order id -> [qty, executed, onArrival, canceled]
  replaced   \* client order ids whose replacement was confirmed

ledgerVars == <<vars, ledger, replaced>>

(* One message, as encodeOuch encodes it: ACCEPTED and MODIFIED carry the  *)
(* order's shares, EXECUTED the shares executed, and CANCELED takes        *)
(* decrement_shares from leaves_qty_.  onArrival is what was executed      *)
(* before the order rested, while it was matched.                          *)
Account(l, r) ==
  CASE r.status \in {"ACCEPTED", "MODIFIED"} ->
         Assign(l, r.client_order_id,
                [qty |-> r.qty, executed |-> 0, onArrival |-> 0, canceled |-> 0])
    [] r.status = "EXECUTED" ->
         [l EXCEPT ![r.client_order_id].executed = @ + r.executed_qty,
                   ![r.client_order_id].onArrival =
                     IF r.client_order_id = taker.clientOrderId
                     THEN @ + r.executed_qty ELSE @]
    [] r.status = "CANCELED" ->
         [l EXCEPT ![r.client_order_id].canceled = @ + r.leaves_qty]
    [] OTHER -> l

(* A step of the engine pushes no more than the two responses of a fill.   *)
AccountAll(l, rs) ==
  CASE Len(rs) = 0 -> l
    [] Len(rs) = 1 -> Account(l, rs[1])
    [] Len(rs) = 2 -> Account(Account(l, rs[1]), rs[2])

(* The ids of the orders that MODIFY updates replace.                      *)
ReplacedBy(updates) ==
  {books[u.ticker_id].pool[u.market_order_id].clientOrderId :
     u \in {v \in Range(updates) : v.type = "MODIFY"}}

LedgerInit ==
  /\ Init
  /\ ledger = EmptyMap
  /\ replaced = {}

LedgerNext ==
  /\ Next
  /\ ledger' = AccountAll(ledger, responses')
  /\ replaced' = replaced \cup ReplacedBy(marketUpdates')

LedgerSpec == LedgerInit /\ [][LedgerNext]_ledgerVars

-----------------------------------------------------------------------------
(* What a client believes is still open of an order.                       *)
OpenIn(l, coid) == l[coid].qty - l[coid].executed - l[coid].canceled

Open(coid) == OpenIn(ledger, coid)

(* Orders in a book or in hand, with what really remains of them.          *)
LiveOrders ==
  {<<o.clientOrderId, o.remainingQuantity>> :
     o \in UNION {Range(books[t].pool) : t \in Tickers}}
  \cup (IF taker = NoTaker THEN {}
        ELSE {<<taker.clientOrderId, taker.remaining>>})

(* No share appears or disappears: what the responses leave open of an     *)
(* order is what the engine still holds of it.  An order that is neither   *)
(* in a book nor in hand has been reported executed or canceled in full,   *)
(* unless the client has been told that it was replaced.                   *)
ResponsesAccountForBook ==
  /\ \A o \in LiveOrders : o[1] \in DOMAIN ledger /\ Open(o[1]) = o[2]
  /\ \A coid \in DOMAIN ledger \ replaced :
       (\A o \in LiveOrders : o[1] # coid) => Open(coid) = 0

(* leaves_qty_ of an execution is what the client's own sum gives.         *)
LeavesAgree ==
  \A r \in Range(responses) :
    r.status = "EXECUTED" => r.leaves_qty = Open(r.client_order_id)

(* qty_ of a response to an order is the quantity the order was entered    *)
(* with: "Required to echo the TOTAL original shares" (comment in types.h).*)
EchoesOriginal ==
  \A r \in Range(responses) :
    r.status \in {"EXECUTED", "CANCELED"} => r.qty = ledger[r.client_order_id].qty

-----------------------------------------------------------------------------
(* The inductive invariant behind the first two.                           *)

LedgerEntry == [qty : Nat, executed : Nat, onArrival : Nat, canceled : Nat]

(* An order is under the id, the client and the ticker it was registered   *)
(* with, so no two orders share an id, in one book or in two.              *)
Registered(tokens, coid, c, t) ==
  /\ coid \in DOMAIN tokens
  /\ tokens[coid] = [clientId |-> c, tickerId |-> t]

(* The ledger l of an order o in the book of t: initialQuantity is what    *)
(* was left of it when it came to rest.                                    *)
RestingOnLedger(l, tokens, t, o) ==
  /\ Registered(tokens, o.clientOrderId, o.clientId, t)
  /\ o.clientOrderId \in DOMAIN l
  /\ OpenIn(l, o.clientOrderId) = o.remainingQuantity
  /\ o.initialQuantity = l[o.clientOrderId].qty - l[o.clientOrderId].onArrival

(* And of the order in hand k: all it traded, it traded on its arrival.    *)
InHandOnLedger(l, tokens, k) ==
  /\ Registered(tokens, k.clientOrderId, k.clientId, k.ticker)
  /\ k.clientOrderId \in DOMAIN l
  /\ OpenIn(l, k.clientOrderId) = k.remaining
  /\ l[k.clientOrderId].qty = k.initialQuantity
  /\ l[k.clientOrderId].onArrival = l[k.clientOrderId].executed
  /\ l[k.clientOrderId].canceled = 0

IsResting(bs, coid) ==
  \E t \in Tickers : \E id \in DOMAIN bs[t].pool : bs[t].pool[id].clientOrderId = coid

IsLive(coid) ==
  \/ taker # NoTaker /\ taker.clientOrderId = coid
  \/ IsResting(books, coid)

LedgerOK ==
  /\ DOMAIN ledger \subseteq DOMAIN id_to_token
  /\ \A coid \in DOMAIN ledger : ledger[coid] \in LedgerEntry
  /\ \A t \in Tickers : \A id \in DOMAIN books[t].pool :
       RestingOnLedger(ledger, id_to_token, t, books[t].pool[id])
  /\ taker # NoTaker => InHandOnLedger(ledger, id_to_token, taker)
  /\ \A coid \in DOMAIN ledger \ replaced : IsLive(coid) \/ Open(coid) = 0

LedgerInv == IInv /\ LedgerOK /\ LeavesAgree
=============================================================================
