--------------------------- MODULE PriceTimeBook ---------------------------
(***************************************************************************)
(* What an order book promises, whatever it is built from.  The README     *)
(* says of the two implementations that "both maintain identical           *)
(* semantics: price-time priority, FIFO within a level, partial fills, GTC *)
(* and FAK orders, cancel/replace"; this module states those semantics.    *)
(*                                                                         *)
(* The orders of a ticker are numbered as they arrive.  An order that      *)
(* arrives is in hand: it trades with the resting orders it crosses, each  *)
(* time with the first in line, and when it crosses none its remainder     *)
(* rests or is killed.  There are no levels, lists, caches or indexes.     *)
(***************************************************************************)
EXTENDS Naturals, Maps

CONSTANTS Clients, Tickers, Prices, MaxQty

VARIABLES
  resting,   \* ticker -> arrival number -> order
  hand,      \* the order being matched, or NoOrder
  arrivals   \* ticker -> the number of the next arrival

bookVars == <<resting, hand, arrivals>>

NoOrder == [ticker |-> "none"]

(* An order in hand, and the part of it that is kept when it rests.        *)
Order ==
  [ticker : Tickers, id : Nat, client : Clients, side : {"BUY", "SELL"},
   price : Prices, left : 0 .. MaxQty, kill : BOOLEAN]

AtRest(o) ==
  [client |-> o.client, side |-> o.side, price |-> o.price, left |-> o.left]

Init ==
  /\ resting = [t \in Tickers |-> EmptyMap]
  /\ hand = NoOrder
  /\ arrivals = [t \in Tickers |-> 1]

-----------------------------------------------------------------------------
Better(side, p, q) == IF side = "BUY" THEN p > q ELSE p < q

(* Of the orders on its side, none has a better price, and none of the     *)
(* same price came earlier.                                                *)
FirstInLine(t, id) ==
  \A other \in DOMAIN resting[t] :
    resting[t][other].side = resting[t][id].side =>
      /\ ~Better(resting[t][id].side, resting[t][other].price,
                 resting[t][id].price)
      /\ resting[t][other].price = resting[t][id].price => id <= other

(* The order in hand may trade with this one.                              *)
CrossesHand(id) ==
  LET o == resting[hand.ticker][id]
  IN  /\ hand.left > 0
      /\ o.side # hand.side
      /\ ~Better(o.side, hand.price, o.price)

(* What is left of a resting order; an order with nothing left is gone.    *)
Leave(t, id, qty) ==
  resting' = [resting EXCEPT ![t] =
                IF qty = 0 THEN Erase(@, id)
                ELSE Assign(@, id, [@[id] EXCEPT !.left = qty])]

-----------------------------------------------------------------------------
(* The order that comes in hand takes the next number of its ticker.       *)
Arrive ==
  /\ hand' \in Order
  /\ hand'.id = arrivals[hand'.ticker]
  /\ arrivals' = [arrivals EXCEPT ![hand'.ticker] = @ + 1]

Enter ==
  /\ Arrive
  /\ UNCHANGED resting

(* A replacement is a new arrival: it keeps client and side, not its place.*)
Replace(t, id) ==
  /\ Arrive
  /\ hand'.ticker = t
  /\ hand'.client = resting[t][id].client
  /\ hand'.side = resting[t][id].side
  /\ hand'.left > 0
  /\ resting' = [resting EXCEPT ![t] = Erase(@, id)]

Cancel(t, id, q) ==
  /\ q <= resting[t][id].left
  /\ Leave(t, id, resting[t][id].left - q)
  /\ UNCHANGED <<hand, arrivals>>

Trade(id) ==
  LET fill == IF hand.left <= resting[hand.ticker][id].left
              THEN hand.left ELSE resting[hand.ticker][id].left
  IN  /\ CrossesHand(id)
      /\ FirstInLine(hand.ticker, id)
      /\ Leave(hand.ticker, id, resting[hand.ticker][id].left - fill)
      /\ hand' = [hand EXCEPT !.left = @ - fill]
      /\ UNCHANGED arrivals

(* Only an order that crosses nothing comes to rest or is killed.          *)
Settle ==
  /\ \A id \in DOMAIN resting[hand.ticker] : ~CrossesHand(id)
  /\ resting' = IF hand.left = 0 \/ hand.kill THEN resting
                ELSE [resting EXCEPT ![hand.ticker] =
                        Assign(@, hand.id, AtRest(hand))]
  /\ hand' = NoOrder
  /\ UNCHANGED arrivals

Match ==
  /\ hand # NoOrder
  /\ (\E id \in DOMAIN resting[hand.ticker] : Trade(id)) \/ Settle

Request ==
  /\ hand = NoOrder
  /\ \/ Enter
     \/ \E t \in Tickers : \E id \in DOMAIN resting[t] :
          \/ \E q \in 1 .. MaxQty : Cancel(t, id, q)
          \/ Replace(t, id)

Next == Request \/ Match

(* What the book may do, and what it must: an order in hand is dealt with. *)
Safety == Init /\ [][Next]_bookVars
Liveness == WF_bookVars(Match)

Spec == Safety /\ Liveness
=============================================================================
