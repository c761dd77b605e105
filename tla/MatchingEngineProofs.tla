------------------------ MODULE MatchingEngineProofs ------------------------
(***************************************************************************)
(* The engine's safety properties for every set of clients, tickers and    *)
(* prices, every bound on quantities and every number of order ids.        *)
(*                                                                         *)
(* BooksConsistent and BooksUncrossed are not inductive by themselves: a   *)
(* remainder that comes to rest keeps its level in order of arrival and    *)
(* its index entry its own only because the order in hand is newer than    *)
(* all resting ones (TakerIsNew), which in turn rests on the ids known to  *)
(* the gateway (IndexedIdsKnown).  IInv joins them.                        *)
(*                                                                         *)
(* The first part is about one book: what insert, remove and SetRemaining  *)
(* preserve of its typing, of the agreement of pool, levels and index, and *)
(* of its bids being below its asks.  The second is about the engine.      *)
(*                                                                         *)
(* The third shows that the engine implements PriceTimeBook.  IInv is what *)
(* its steps need: levels, pool and index agree, so that the head of the   *)
(* best level is the abstract book's first in line, the loop of match ends *)
(* only when no resting order crosses, and an order that the index finds   *)
(* is the one that is canceled or replaced.                                *)
(***************************************************************************)
EXTENDS MapBookRefinement, WellFoundedInduction, TLAPS

(* Leaves are for Zenon unless they name another prover.                   *)
USE ZenonT(60)

-----------------------------------------------------------------------------
(* Lists.                                                                  *)

(* What is known of a sequence and its elements.                           *)
LEMMA SequenceParts ==
  ASSUME NEW S, NEW s \in Seq(S)
  PROVE  /\ Len(s) \in Nat /\ DOMAIN s = 1 .. Len(s)
         /\ \A i \in 1 .. Len(s) : s[i] \in S
BY SMTT(30), SMTT(60)

(* Only the sequence without elements has length 0.                        *)
LEMMA NoElements ==
  ASSUME NEW S
  PROVE  <<>> \in Seq(S) /\ \A s \in Seq(S) : s = <<>> <=> Len(s) = 0
BY SMTT(30), SMTT(60)

(* Two sequences, one after the other.                                     *)
LEMMA ConcatParts ==
  ASSUME NEW S, NEW s \in Seq(S), NEW r \in Seq(S)
  PROVE  /\ s \o r \in Seq(S) /\ Len(s \o r) = Len(s) + Len(r)
         /\ \A i \in 1 .. Len(s) + Len(r) :
              (s \o r)[i] = IF i <= Len(s) THEN s[i] ELSE r[i - Len(s)]
BY SMTT(30), SMTT(60)

(* Removing position i keeps the other elements in order.                  *)
LEMMA WithoutProperties ==
  ASSUME NEW S, NEW s \in Seq(S), NEW i \in 1 .. Len(s)
  PROVE  /\ Without(s, i) \in Seq(S)
         /\ Len(Without(s, i)) = Len(s) - 1
         /\ \A j \in 1 .. (Len(s) - 1) :
              Without(s, i)[j] = IF j < i THEN s[j] ELSE s[j + 1]
<1> DEFINE front == SubSeq(s, 1, i - 1)
           back  == SubSeq(s, i + 1, Len(s))
<1>1. /\ front \in Seq(S)
      /\ Len(front) = i - 1
      /\ \A j \in 1 .. (i - 1) : front[j] = s[j]
  BY SMTT(30), SMTT(60)
<1>2. /\ back \in Seq(S)
      /\ Len(back) = Len(s) - i
      /\ \A j \in 1 .. (Len(s) - i) : back[j] = s[i + j]
  BY SMTT(30), SMTT(60)
<1>3. Without(s, i) = front \o back
  BY DEF Without
<1> HIDE DEF front, back
<1>4. /\ front \o back \in Seq(S)
      /\ Len(front \o back) = Len(front) + Len(back)
      /\ \A j \in 1 .. Len(front) + Len(back) :
           (front \o back)[j] = IF j <= Len(front) THEN front[j]
                                ELSE back[j - Len(front)]
  BY <1>1, <1>2, ConcatParts
<1>5. Len(front) + Len(back) = Len(s) - 1
  BY <1>1, <1>2, SMTT(30), SMTT(60)
<1>6. ASSUME NEW j \in 1 .. (Len(s) - 1)
      PROVE  Without(s, i)[j] = IF j < i THEN s[j] ELSE s[j + 1]
  <2>1. CASE j < i
    BY <2>1, <1>1, <1>3, <1>4, <1>5, SMTT(30), SMTT(60)
  <2>2. CASE j >= i
    <3>1. j - Len(front) \in 1 .. (Len(s) - i)
      BY <2>2, <1>1, SMTT(30), SMTT(60)
    <3>2. back[j - Len(front)] = s[i + (j - Len(front))]
      BY <3>1, <1>2
    <3>3. i + (j - Len(front)) = j + 1
      BY <1>1, SMTT(30), SMTT(60)
    <3> QED BY <2>2, <3>2, <3>3, <1>1, <1>3, <1>4, <1>5, SMTT(30), SMTT(60)
  <2> QED BY <2>1, <2>2, SMTT(30), SMTT(60)
<1> QED BY <1>3, <1>4, <1>5, <1>6

(* Unlinking the element at position i of a list without repetitions.      *)
LEMMA UnlinkProperties ==
  ASSUME NEW list \in Seq(Nat), NEW i \in 1 .. Len(list),
         \A j, k \in 1 .. Len(list) : j < k => list[j] < list[k]
  PROVE  /\ Unlink(list, list[i]) \in Seq(Nat)
         /\ Len(Unlink(list, list[i])) = Len(list) - 1
         /\ \A j \in 1 .. (Len(list) - 1) :
              Unlink(list, list[i])[j] = IF j < i THEN list[j] ELSE list[j + 1]
<1>1. DOMAIN list = 1 .. Len(list) /\ \A j \in 1 .. Len(list) : list[j] \in Nat
  BY SequenceParts
<1>2. \A j \in 1 .. Len(list) : list[j] = list[i] => j = i
  BY <1>1, SMTT(30), SMTT(60)
<1>3. PositionOf(list, list[i]) = i
  BY <1>1, <1>2 DEF PositionOf
<1>4. Unlink(list, list[i]) = Without(list, i)
  BY <1>3 DEF Unlink
<1> QED BY <1>4, WithoutProperties, SMTT(30), SMTT(60)

(* Replacing one level leaves the others alone.                            *)
LEMMA LevelUpdate ==
  ASSUME NEW level \in [Side -> [Prices -> Seq(Nat)]],
         NEW s \in Side, NEW p \in Prices, NEW list \in Seq(Nat)
  PROVE  LET new == [level EXCEPT ![s][p] = list]
         IN  /\ new \in [Side -> [Prices -> Seq(Nat)]]
             /\ new[s][p] = list
             /\ \A s2 \in Side, p2 \in Prices :
                  s2 # s \/ p2 # p => new[s2][p2] = level[s2][p2]
OBVIOUS

-----------------------------------------------------------------------------
(* The empty book.                                                         *)
LEMMA EmptyBookOK ==
  BookTypeOK(EmptyBook) /\ BookConsistent(EmptyBook) /\ Uncrossed(EmptyBook)
<1>1. BookTypeOK(EmptyBook)
  BY SMTT(30), SMTT(60) DEF BookTypeOK, EmptyBook, EmptyMap, OrderKey, MEOrder
<1>2. DOMAIN EmptyBook.pool = {} /\ DOMAIN EmptyBook.orders = {}
  BY DEF EmptyBook, EmptyMap
<1>3. \A s \in Side, p \in Prices : Len(LevelAt(EmptyBook, s, p)) = 0
  BY DEF EmptyBook, LevelAt
<1>4. BookConsistent(EmptyBook)
  BY <1>2, <1>3, SMTT(30), SMTT(60) DEF BookConsistent, ListedIsAllocated, AllocatedIsListed,
     LevelInArrivalOrder, IndexFindsOrders, RestingQuantity, IdsBelowNext
<1>5. Uncrossed(EmptyBook)
  BY <1>2 DEF Uncrossed
<1> QED BY <1>1, <1>4, <1>5

(* A record with these fields, each of its type, is a book.                *)
LEMMA BookTypeIntro ==
  ASSUME NEW n,
         n = [pool |-> n.pool, level |-> n.level, orders |-> n.orders,
              nextMarketOrderId |-> n.nextMarketOrderId],
         n.pool \in [DOMAIN n.pool -> MEOrder], DOMAIN n.pool \subseteq Nat,
         n.level \in [Side -> [Prices -> Seq(Nat)]],
         n.orders \in [DOMAIN n.orders -> Nat], DOMAIN n.orders \subseteq OrderKey,
         n.nextMarketOrderId \in Nat
  PROVE  BookTypeOK(n)
BY DEF BookTypeOK

(* The levels of a well-typed book are lists of ids.                       *)
LEMMA LevelType ==
  ASSUME NEW b, BookTypeOK(b), NEW s \in Side, NEW p \in Prices
  PROVE  LevelAt(b, s, p) \in Seq(Nat)
BY DEF BookTypeOK, LevelAt

-----------------------------------------------------------------------------
(* insert.                                                                 *)

(* n is b with one more order, at the tail of its level.                   *)
Adds(b, n, id, order) ==
  /\ DOMAIN n.pool = DOMAIN b.pool \cup {id}
  /\ n.pool[id] = order
  /\ \A x \in DOMAIN b.pool : n.pool[x] = b.pool[x]
  /\ DOMAIN n.orders = DOMAIN b.orders \cup {KeyOf(order)}
  /\ n.orders[KeyOf(order)] = id
  /\ \A k \in DOMAIN b.orders : n.orders[k] = b.orders[k]
  /\ n.nextMarketOrderId = b.nextMarketOrderId
  /\ LevelAt(n, order.side, order.price)
       = Append(LevelAt(b, order.side, order.price), id)
  /\ \A s \in Side, p \in Prices :
       s # order.side \/ p # order.price => LevelAt(n, s, p) = LevelAt(b, s, p)

(* insert adds exactly the order it is given, at the tail of its level.    *)
LEMMA InsertAdds ==
  ASSUME NEW b, BookTypeOK(b), NEW id \in Nat, NEW order \in MEOrder,
         id \notin DOMAIN b.pool, KeyOf(order) \notin DOMAIN b.orders
  PROVE  Adds(b, insert(b, id, order), id, order)
<1>1. order.side \in Side /\ order.price \in Prices
  BY DEF MEOrder
<1>2. b.level \in [Side -> [Prices -> Seq(Nat)]]
  BY DEF BookTypeOK
<1> QED BY <1>1, <1>2 DEF Adds, insert, Assign, LevelAt

(* insert yields a book.                                                   *)
LEMMA InsertType ==
  ASSUME NEW b, BookTypeOK(b), NEW id \in Nat, NEW order \in MEOrder
  PROVE  BookTypeOK(insert(b, id, order))
<1> DEFINE n == insert(b, id, order)
<1>1. /\ order.side \in Side /\ order.price \in Prices
      /\ KeyOf(order) \in OrderKey
  BY DEF MEOrder, KeyOf, OrderKey
<1>2. /\ b.level \in [Side -> [Prices -> Seq(Nat)]]
      /\ b.pool \in [DOMAIN b.pool -> MEOrder]
      /\ b.orders \in [DOMAIN b.orders -> Nat]
      /\ b.nextMarketOrderId \in Nat
      /\ DOMAIN b.pool \subseteq Nat
      /\ DOMAIN b.orders \subseteq OrderKey
  BY DEF BookTypeOK
<1>3. Append(b.level[order.side][order.price], id) \in Seq(Nat)
  BY <1>1, <1>2, SMTT(30), SMTT(60)
<1>4. n.level \in [Side -> [Prices -> Seq(Nat)]]
  BY <1>1, <1>2, <1>3, LevelUpdate, SMTT(30), SMTT(60) DEF insert
<1>5. n.pool \in [DOMAIN n.pool -> MEOrder] /\ DOMAIN n.pool \subseteq Nat
  BY <1>2 DEF insert, Assign
<1>6. n.orders \in [DOMAIN n.orders -> Nat] /\ DOMAIN n.orders \subseteq OrderKey
  BY <1>1, <1>2 DEF insert, Assign
<1>7. n = [pool |-> n.pool, level |-> n.level, orders |-> n.orders,
           nextMarketOrderId |-> n.nextMarketOrderId]
      /\ n.nextMarketOrderId \in Nat
  BY <1>2 DEF insert
<1> QED BY <1>4, <1>5, <1>6, <1>7, BookTypeIntro

(* Adding an order that is newer than all others, under an unused key,     *)
(* with something left, keeps the book consistent.                         *)
LEMMA AddsConsistent ==
  ASSUME NEW b, BookTypeOK(b), BookConsistent(b), NEW n,
         NEW id \in Nat, NEW order \in MEOrder, Adds(b, n, id, order),
         \A x \in DOMAIN b.pool : x < id,
         id < b.nextMarketOrderId,
         KeyOf(order) \notin DOMAIN b.orders,
         order.remainingQuantity > 0,
         order.remainingQuantity <= order.initialQuantity
  PROVE  BookConsistent(n)
<1>0. PICK s \in Side, p \in Prices : s = order.side /\ p = order.price
  BY DEF MEOrder
<1> DEFINE old == LevelAt(b, s, p)
<1>1. old \in Seq(Nat)
  BY LevelType
<1> HIDE DEF old
<1>2. /\ LevelAt(n, s, p) = Append(old, id)
      /\ \A s2 \in Side, p2 \in Prices :
           s2 # s \/ p2 # p => LevelAt(n, s2, p2) = LevelAt(b, s2, p2)
  BY <1>0 DEF Adds, old
<1>3. id \notin DOMAIN b.pool /\ DOMAIN b.pool \subseteq Nat
  BY SMTT(30), SMTT(60) DEF BookTypeOK
<1>4. /\ Len(LevelAt(n, s, p)) = Len(old) + 1
      /\ \A i \in 1 .. Len(old) : LevelAt(n, s, p)[i] = old[i]
      /\ LevelAt(n, s, p)[Len(old) + 1] = id
      /\ Len(old) \in Nat
  BY <1>1, <1>2, SMTT(30), SMTT(60)
<1>5. /\ DOMAIN n.pool = DOMAIN b.pool \cup {id}
      /\ n.pool[id].side = s /\ n.pool[id].price = p
      /\ \A x \in DOMAIN b.pool : n.pool[x] = b.pool[x]
  BY <1>0 DEF Adds
<1>6. ListedIsAllocated(n)
  <2>1. \A s2 \in Side, p2 \in Prices : \A i \in 1 .. Len(LevelAt(b, s2, p2)) :
          /\ LevelAt(b, s2, p2)[i] \in DOMAIN n.pool
          /\ n.pool[LevelAt(b, s2, p2)[i]].side = s2
          /\ n.pool[LevelAt(b, s2, p2)[i]].price = p2
    BY <1>5, SMTT(30), SMTT(60) DEF BookConsistent, ListedIsAllocated
  <2>2. ASSUME NEW i \in 1 .. Len(LevelAt(n, s, p))
        PROVE  /\ LevelAt(n, s, p)[i] \in DOMAIN n.pool
               /\ n.pool[LevelAt(n, s, p)[i]].side = s
               /\ n.pool[LevelAt(n, s, p)[i]].price = p
    <3>1. CASE i = Len(old) + 1
      BY <3>1, <1>4, <1>5
    <3>2. CASE i # Len(old) + 1
      <4>1. i \in 1 .. Len(old)
        BY <3>2, <1>4, SMTT(30), SMTT(60)
      <4> QED BY <4>1, <2>1, <1>4, SMTT(30), SMTT(60) DEF old
    <3> QED BY <3>1, <3>2
  <2>3. ASSUME NEW s2 \in Side, NEW p2 \in Prices,
               NEW i \in 1 .. Len(LevelAt(n, s2, p2))
        PROVE  /\ LevelAt(n, s2, p2)[i] \in DOMAIN n.pool
               /\ n.pool[LevelAt(n, s2, p2)[i]].side = s2
               /\ n.pool[LevelAt(n, s2, p2)[i]].price = p2
    <3>1. CASE s2 = s /\ p2 = p
      BY <3>1, <2>2
    <3>2. CASE s2 # s \/ p2 # p
      BY <3>2, <2>1, <1>2, SMTT(30), SMTT(60)
    <3> QED BY <3>1, <3>2
  <2> QED BY <2>3 DEF ListedIsAllocated
<1>7. AllocatedIsListed(n)
  <2> SUFFICES ASSUME NEW x \in DOMAIN n.pool
               PROVE  \E i \in 1 .. Len(LevelAt(n, n.pool[x].side, n.pool[x].price)) :
                        LevelAt(n, n.pool[x].side, n.pool[x].price)[i] = x
    BY DEF AllocatedIsListed
  <2>1. CASE x = id
    BY <2>1, <1>4, <1>5, SMTT(30), SMTT(60)
  <2>2. CASE x \in DOMAIN b.pool
    <3>1. PICK sx \in Side, px \in Prices :
            /\ sx = b.pool[x].side /\ px = b.pool[x].price
            /\ sx = n.pool[x].side /\ px = n.pool[x].price
      BY <2>2, <1>5 DEF BookTypeOK, MEOrder
    <3>2. PICK i \in 1 .. Len(LevelAt(b, sx, px)) : LevelAt(b, sx, px)[i] = x
      BY <2>2, <3>1 DEF BookConsistent, AllocatedIsListed
    <3>3. i \in 1 .. Len(LevelAt(n, sx, px)) /\ LevelAt(n, sx, px)[i] = x
      <4>1. CASE sx = s /\ px = p
        BY <4>1, <3>2, <1>4, SMTT(30), SMTT(60) DEF old
      <4>2. CASE sx # s \/ px # p
        BY <4>2, <3>2, <1>2
      <4> QED BY <4>1, <4>2
    <3> QED BY <3>1, <3>3
  <2> QED BY <2>1, <2>2, <1>5
<1>8. LevelInArrivalOrder(n)
  <2>1. \A i \in 1 .. Len(old) : old[i] \in DOMAIN b.pool
    BY DEF BookConsistent, ListedIsAllocated, old
  <2>2. ASSUME NEW i \in 1 .. Len(LevelAt(n, s, p)),
               NEW j \in 1 .. Len(LevelAt(n, s, p)), i < j
        PROVE  LevelAt(n, s, p)[i] < LevelAt(n, s, p)[j]
    <3>1. i \in 1 .. Len(old) /\ (j \in 1 .. Len(old) \/ j = Len(old) + 1)
      BY <2>2, <1>4, SMTT(30), SMTT(60)
    <3>2. CASE j = Len(old) + 1
      BY <3>1, <3>2, <2>1, <1>4
    <3>3. CASE j \in 1 .. Len(old)
      <4>1. old[i] < old[j]
        BY <2>2, <3>1, <3>3 DEF BookConsistent, LevelInArrivalOrder, old
      <4> QED BY <4>1, <3>1, <3>3, <1>4
    <3> QED BY <3>1, <3>2, <3>3
  <2>3. ASSUME NEW s2 \in Side, NEW p2 \in Prices, s2 # s \/ p2 # p
        PROVE  \A i, j \in 1 .. Len(LevelAt(n, s2, p2)) :
                 i < j => LevelAt(n, s2, p2)[i] < LevelAt(n, s2, p2)[j]
    BY <2>3, <1>2 DEF BookConsistent, LevelInArrivalOrder
  <2>4. ASSUME NEW s2 \in Side, NEW p2 \in Prices
        PROVE  \A i, j \in 1 .. Len(LevelAt(n, s2, p2)) :
                 i < j => LevelAt(n, s2, p2)[i] < LevelAt(n, s2, p2)[j]
    BY <2>2, <2>3
  <2> QED BY <2>4 DEF LevelInArrivalOrder
<1>9. IndexFindsOrders(n)
  <2>1. \A x \in DOMAIN b.pool : KeyOf(b.pool[x]) # KeyOf(order)
    BY DEF BookConsistent, IndexFindsOrders
  <2>2. ASSUME NEW x \in DOMAIN n.pool
        PROVE  KeyOf(n.pool[x]) \in DOMAIN n.orders /\ n.orders[KeyOf(n.pool[x])] = x
    BY <2>1, SMTT(30), SMTT(60) DEF Adds, BookConsistent, IndexFindsOrders
  <2>3. ASSUME NEW k \in DOMAIN n.orders
        PROVE  n.orders[k] \in DOMAIN n.pool /\ KeyOf(n.pool[n.orders[k]]) = k
    BY SMTT(30), SMTT(60) DEF Adds, BookConsistent, IndexFindsOrders
  <2> QED BY <2>2, <2>3 DEF IndexFindsOrders
<1>10. RestingQuantity(n)
  BY DEF Adds, BookConsistent, RestingQuantity
<1>11. IdsBelowNext(n)
  BY DEF Adds, BookConsistent, IdsBelowNext
<1> QED BY <1>6, <1>7, <1>8, <1>9, <1>10, <1>11 DEF BookConsistent

(* Adding an order that crosses no order of the other side keeps the book  *)
(* uncrossed.                                                              *)
LEMMA AddsUncrossed ==
  ASSUME NEW b, BookTypeOK(b), Uncrossed(b), NEW n,
         NEW id \in Nat, NEW order \in MEOrder, Adds(b, n, id, order),
         \A x \in DOMAIN b.pool :
           b.pool[x].side = Opposite(order.side)
             => ~ Crosses(order.side, order.price, b.pool[x].price)
  PROVE  Uncrossed(n)
<1>1. order.price \in Nat /\ \A x \in DOMAIN b.pool : b.pool[x].price \in Nat
  BY PricesAssumption DEF BookTypeOK, MEOrder
<1> QED BY <1>1, SMTT(30), SMTT(60) DEF Adds, Uncrossed, Opposite, Crosses

-----------------------------------------------------------------------------
(* remove.                                                                 *)

(* n is b without one order.                                               *)
Drops(b, n, id) ==
  LET order == b.pool[id]
  IN  /\ DOMAIN n.pool = DOMAIN b.pool \ {id}
      /\ \A x \in DOMAIN n.pool : n.pool[x] = b.pool[x]
      /\ DOMAIN n.orders = DOMAIN b.orders \ {KeyOf(order)}
      /\ \A k \in DOMAIN n.orders : n.orders[k] = b.orders[k]
      /\ n.nextMarketOrderId = b.nextMarketOrderId
      /\ LevelAt(n, order.side, order.price)
           = Unlink(LevelAt(b, order.side, order.price), id)
      /\ \A s \in Side, p \in Prices :
           s # order.side \/ p # order.price => LevelAt(n, s, p) = LevelAt(b, s, p)

(* remove drops exactly the order it is given, from pool, level and index. *)
LEMMA RemoveDrops ==
  ASSUME NEW b, BookTypeOK(b), NEW id \in DOMAIN b.pool
  PROVE  Drops(b, remove(b, id), id)
<1>1. b.pool[id].side \in Side /\ b.pool[id].price \in Prices
  BY DEF BookTypeOK, MEOrder
<1>2. b.level \in [Side -> [Prices -> Seq(Nat)]]
  BY DEF BookTypeOK
<1> QED BY <1>1, <1>2 DEF Drops, remove, Erase, Restrict, LevelAt

(* The list `new' is `old' without the id at this place.                   *)
GapCloses(old, new, id, at) ==
  /\ old[at] = id
  /\ new \in Seq(Nat)
  /\ Len(new) = Len(old) - 1
  /\ \A j \in 1 .. (Len(old) - 1) :
       new[j] = IF j < at THEN old[j] ELSE old[j + 1]

(* In a consistent book the order to remove has a place in its level, and  *)
(* unlinking it closes the gap.                                            *)
LEMMA UnlinkFromLevel ==
  ASSUME NEW b, BookTypeOK(b), BookConsistent(b), NEW id \in DOMAIN b.pool,
         NEW s \in Side, NEW p \in Prices,
         s = b.pool[id].side, p = b.pool[id].price
  PROVE  \E at \in 1 .. Len(LevelAt(b, s, p)) :
           GapCloses(LevelAt(b, s, p), Unlink(LevelAt(b, s, p), id), id, at)
<1>1. PICK at \in 1 .. Len(LevelAt(b, s, p)) : LevelAt(b, s, p)[at] = id
  BY DEF BookConsistent, AllocatedIsListed
<1> DEFINE old == LevelAt(b, s, p)
<1>2. old \in Seq(Nat)
  BY LevelType
<1>3. \A j, k \in 1 .. Len(old) : j < k => old[j] < old[k]
  BY SMTT(30), SMTT(60) DEF BookConsistent, LevelInArrivalOrder
<1> HIDE DEF old
<1>4. at \in 1 .. Len(old) /\ old[at] = id
  BY <1>1 DEF old
<1>5. /\ Unlink(old, old[at]) \in Seq(Nat)
      /\ Len(Unlink(old, old[at])) = Len(old) - 1
      /\ \A j \in 1 .. (Len(old) - 1) :
           Unlink(old, old[at])[j] = IF j < at THEN old[j] ELSE old[j + 1]
  BY <1>2, <1>3, <1>4, UnlinkProperties
<1>6. GapCloses(old, Unlink(old, old[at]), old[at], at)
  BY <1>5 DEF GapCloses
<1>7. GapCloses(old, Unlink(old, id), id, at)
  BY <1>4, <1>6
<1> QED BY <1>4, <1>7 DEF old

(* remove yields a book.                                                   *)
LEMMA RemoveType ==
  ASSUME NEW b, BookTypeOK(b), BookConsistent(b), NEW id \in DOMAIN b.pool
  PROVE  BookTypeOK(remove(b, id))
<1> DEFINE n == remove(b, id)
<1>1. PICK s \in Side, p \in Prices : s = b.pool[id].side /\ p = b.pool[id].price
  BY DEF BookTypeOK, MEOrder
<1>2. /\ b.level \in [Side -> [Prices -> Seq(Nat)]]
      /\ b.pool \in [DOMAIN b.pool -> MEOrder]
      /\ b.orders \in [DOMAIN b.orders -> Nat]
      /\ b.nextMarketOrderId \in Nat
      /\ DOMAIN b.pool \subseteq Nat
      /\ DOMAIN b.orders \subseteq OrderKey
  BY DEF BookTypeOK
<1>3. Unlink(LevelAt(b, s, p), id) \in Seq(Nat)
  BY <1>1, UnlinkFromLevel DEF GapCloses
<1>4. n.level = [b.level EXCEPT ![s][p] = Unlink(LevelAt(b, s, p), id)]
  BY <1>1, <1>2 DEF remove, LevelAt
<1>5. n.level \in [Side -> [Prices -> Seq(Nat)]]
  BY <1>2, <1>3, <1>4, LevelUpdate, SMTT(30), SMTT(60)
<1>6. n.pool \in [DOMAIN n.pool -> MEOrder] /\ DOMAIN n.pool \subseteq Nat
  BY <1>2 DEF remove, Erase, Restrict
<1>7. n.orders \in [DOMAIN n.orders -> Nat] /\ DOMAIN n.orders \subseteq OrderKey
  BY <1>2 DEF remove, Erase, Restrict
<1>8. n = [pool |-> n.pool, level |-> n.level, orders |-> n.orders,
           nextMarketOrderId |-> n.nextMarketOrderId]
      /\ n.nextMarketOrderId \in Nat
  BY <1>2 DEF remove
<1> QED BY <1>5, <1>6, <1>7, <1>8, BookTypeIntro

(* Removing an order keeps the book consistent.                            *)
LEMMA DropsConsistent ==
  ASSUME NEW b, BookTypeOK(b), BookConsistent(b), NEW id \in DOMAIN b.pool,
         NEW n, Drops(b, n, id)
  PROVE  BookConsistent(n)
<1>0. PICK s \in Side, p \in Prices : s = b.pool[id].side /\ p = b.pool[id].price
  BY DEF BookTypeOK, MEOrder
<1> DEFINE old == LevelAt(b, s, p)
           new == LevelAt(n, s, p)
<1>1. old \in Seq(Nat)
  BY LevelType
<1>2. PICK at \in 1 .. Len(old) :
        /\ old[at] = id
        /\ Len(new) = Len(old) - 1
        /\ \A j \in 1 .. (Len(old) - 1) :
             new[j] = IF j < at THEN old[j] ELSE old[j + 1]
  <2>1. new = Unlink(old, id)
    BY <1>0 DEF Drops
  <2>2. PICK at \in 1 .. Len(LevelAt(b, s, p)) :
          GapCloses(LevelAt(b, s, p), Unlink(LevelAt(b, s, p), id), id, at)
    BY <1>0, UnlinkFromLevel
  <2> QED BY <2>1, <2>2 DEF GapCloses
<1>3. \A s2 \in Side, p2 \in Prices :
        s2 # s \/ p2 # p => LevelAt(n, s2, p2) = LevelAt(b, s2, p2)
  BY <1>0 DEF Drops
<1>4. /\ DOMAIN n.pool = DOMAIN b.pool \ {id}
      /\ \A x \in DOMAIN n.pool : n.pool[x] = b.pool[x]
  BY DEF Drops
<1>5. /\ Len(old) \in Nat /\ \A j \in 1 .. Len(old) : old[j] \in Nat
      /\ \A i, j \in 1 .. Len(old) : i < j => old[i] < old[j]
  BY <1>1, SequenceParts, SMTT(30), SMTT(60) DEF BookConsistent, LevelInArrivalOrder
<1>6. \A j \in 1 .. Len(old) :
        /\ old[j] \in DOMAIN b.pool
        /\ b.pool[old[j]].side = s /\ b.pool[old[j]].price = p
  BY SMTT(30), SMTT(60) DEF BookConsistent, ListedIsAllocated
<1> HIDE DEF old, new
<1>7. ASSUME NEW j \in 1 .. Len(new)
      PROVE  \E i \in 1 .. Len(old) : /\ new[j] = old[i]
                                      /\ old[i] # id
                                      /\ i = IF j < at THEN j ELSE j + 1
  <2>1. CASE j < at
    BY <2>1, <1>2, <1>5, SMTT(30), SMTT(60)
  <2>2. CASE j >= at
    BY <2>2, <1>2, <1>5, SMTT(30), SMTT(60)
  <2> QED BY <2>1, <2>2, <1>2, <1>5, SMTT(30), SMTT(60)
<1>8. ListedIsAllocated(n)
  <2>1. ASSUME NEW j \in 1 .. Len(new)
        PROVE  /\ new[j] \in DOMAIN n.pool
               /\ n.pool[new[j]].side = s /\ n.pool[new[j]].price = p
    BY <1>4, <1>6, <1>7, SMTT(30), SMTT(60)
  <2>2. ASSUME NEW s2 \in Side, NEW p2 \in Prices, s2 # s \/ p2 # p,
               NEW j \in 1 .. Len(LevelAt(b, s2, p2))
        PROVE  /\ LevelAt(b, s2, p2)[j] \in DOMAIN n.pool
               /\ n.pool[LevelAt(b, s2, p2)[j]].side = s2
               /\ n.pool[LevelAt(b, s2, p2)[j]].price = p2
    <3>1. /\ LevelAt(b, s2, p2)[j] \in DOMAIN b.pool
          /\ b.pool[LevelAt(b, s2, p2)[j]].side = s2
          /\ b.pool[LevelAt(b, s2, p2)[j]].price = p2
      BY SMTT(30), SMTT(60) DEF BookConsistent, ListedIsAllocated
    <3> QED BY <3>1, <2>2, <1>0, <1>4
  <2>3. ASSUME NEW s2 \in Side, NEW p2 \in Prices,
               NEW j \in 1 .. Len(LevelAt(n, s2, p2))
        PROVE  /\ LevelAt(n, s2, p2)[j] \in DOMAIN n.pool
               /\ n.pool[LevelAt(n, s2, p2)[j]].side = s2
               /\ n.pool[LevelAt(n, s2, p2)[j]].price = p2
    <3>1. CASE s2 = s /\ p2 = p
      BY <3>1, <2>1 DEF new
    <3>2. CASE s2 # s \/ p2 # p
      BY <3>2, <2>2, <1>3, SMTT(30), SMTT(60)
    <3> QED BY <3>1, <3>2
  <2> QED BY <2>3 DEF ListedIsAllocated
<1>9. AllocatedIsListed(n)
  <2> SUFFICES ASSUME NEW x \in DOMAIN n.pool
               PROVE  \E j \in 1 .. Len(LevelAt(n, n.pool[x].side, n.pool[x].price)) :
                        LevelAt(n, n.pool[x].side, n.pool[x].price)[j] = x
    BY DEF AllocatedIsListed
  <2>1. x \in DOMAIN b.pool /\ x # id /\ n.pool[x] = b.pool[x]
    BY <1>4
  <2>2. PICK sx \in Side, px \in Prices :
          /\ sx = b.pool[x].side /\ px = b.pool[x].price
          /\ sx = n.pool[x].side /\ px = n.pool[x].price
    BY <2>1 DEF BookTypeOK, MEOrder
  <2>3. PICK i \in 1 .. Len(LevelAt(b, sx, px)) : LevelAt(b, sx, px)[i] = x
    BY <2>1, <2>2, SMTT(30), SMTT(60) DEF BookConsistent, AllocatedIsListed
  <2>4. CASE sx # s \/ px # p
    BY <2>2, <2>3, <2>4, <1>3
  <2>5. CASE sx = s /\ px = p
    <3>1. i \in 1 .. Len(old) /\ old[i] = x /\ i # at
      BY <2>1, <2>3, <2>5, <1>2, SMTT(30), SMTT(60) DEF old
    <3>2. \E j \in 1 .. Len(new) : new[j] = x
      <4>1. CASE i < at
        <5>1. i \in 1 .. (Len(old) - 1)
          BY <4>1, <3>1, <1>2, <1>5, SMTT(30), SMTT(60)
        <5>2. new[i] = old[i]
          BY <5>1, <4>1, <1>2
        <5> QED BY <5>1, <5>2, <3>1, <1>2, SMTT(30), SMTT(60)
      <4>2. CASE i > at
        <5>1. i - 1 \in 1 .. (Len(old) - 1) /\ ~(i - 1 < at) /\ (i - 1) + 1 = i
          BY <4>2, <3>1, <1>2, <1>5, SMTT(30), SMTT(60)
        <5>2. new[i - 1] = old[i]
          BY <5>1, <1>2
        <5> QED BY <5>1, <5>2, <3>1, <1>2, SMTT(30), SMTT(60)
      <4> QED BY <4>1, <4>2, <3>1, <1>2, <1>5, SMTT(30), SMTT(60)
    <3> QED BY <3>2, <2>2, <2>5 DEF new
  <2> QED BY <2>4, <2>5
<1>10. LevelInArrivalOrder(n)
  <2>1. ASSUME NEW j \in 1 .. Len(new), NEW k \in 1 .. Len(new), j < k
        PROVE  new[j] < new[k]
    <3>1. PICK jj \in 1 .. Len(old) : new[j] = old[jj] /\ jj = IF j < at THEN j ELSE j + 1
      BY <1>7
    <3>2. PICK kk \in 1 .. Len(old) : new[k] = old[kk] /\ kk = IF k < at THEN k ELSE k + 1
      BY <1>7
    <3>3. jj < kk
      BY <2>1, <3>1, <3>2, <1>2, <1>5, SMTT(30), SMTT(60)
    <3> QED BY <3>1, <3>2, <3>3, <1>5
  <2>2. ASSUME NEW s2 \in Side, NEW p2 \in Prices, s2 # s \/ p2 # p
        PROVE  \A j, k \in 1 .. Len(LevelAt(n, s2, p2)) :
                 j < k => LevelAt(n, s2, p2)[j] < LevelAt(n, s2, p2)[k]
    BY <2>2, <1>3, SMTT(30), SMTT(60) DEF BookConsistent, LevelInArrivalOrder
  <2>3. ASSUME NEW s2 \in Side, NEW p2 \in Prices
        PROVE  \A j, k \in 1 .. Len(LevelAt(n, s2, p2)) :
                 j < k => LevelAt(n, s2, p2)[j] < LevelAt(n, s2, p2)[k]
    BY <2>1, <2>2 DEF new
  <2> QED BY <2>3 DEF LevelInArrivalOrder
<1>11. IndexFindsOrders(n)
  <2>1. \A x, y \in DOMAIN b.pool : KeyOf(b.pool[x]) = KeyOf(b.pool[y]) => x = y
    BY DEF BookConsistent, IndexFindsOrders
  <2>2. ASSUME NEW x \in DOMAIN n.pool
        PROVE  KeyOf(n.pool[x]) \in DOMAIN n.orders /\ n.orders[KeyOf(n.pool[x])] = x
    BY <2>1, SMTT(30), SMTT(60) DEF Drops, BookConsistent, IndexFindsOrders
  <2>3. ASSUME NEW k \in DOMAIN n.orders
        PROVE  n.orders[k] \in DOMAIN n.pool /\ KeyOf(n.pool[n.orders[k]]) = k
    BY SMTT(30), SMTT(60) DEF Drops, BookConsistent, IndexFindsOrders
  <2> QED BY <2>2, <2>3 DEF IndexFindsOrders
<1>12. RestingQuantity(n)
  BY DEF Drops, BookConsistent, RestingQuantity
<1>13. IdsBelowNext(n)
  BY DEF Drops, BookConsistent, IdsBelowNext
<1> QED BY <1>8, <1>9, <1>10, <1>11, <1>12, <1>13 DEF BookConsistent

(* Removing an order keeps the book uncrossed.                             *)
LEMMA DropsUncrossed ==
  ASSUME NEW b, Uncrossed(b), NEW id, NEW n, Drops(b, n, id)
  PROVE  Uncrossed(n)
BY DEF Drops, Uncrossed

-----------------------------------------------------------------------------
(* SetRemaining.                                                           *)

(* n is b with another remaining quantity in one order.                    *)
Marks(b, n, id, qty) ==
  /\ DOMAIN n.pool = DOMAIN b.pool
  /\ n.pool[id] = [b.pool[id] EXCEPT !.remainingQuantity = qty]
  /\ \A x \in DOMAIN b.pool : x # id => n.pool[x] = b.pool[x]
  /\ n.orders = b.orders
  /\ n.nextMarketOrderId = b.nextMarketOrderId
  /\ \A s \in Side, p \in Prices : LevelAt(n, s, p) = LevelAt(b, s, p)

(* Setting a positive quantity marks the order.                            *)
LEMMA SetRemainingMarks ==
  ASSUME NEW b, BookTypeOK(b), NEW id \in DOMAIN b.pool,
         NEW qty \in Quantity, qty # 0
  PROVE  Marks(b, SetRemaining(b, id, qty), id, qty)
<1> DEFINE order == [b.pool[id] EXCEPT !.remainingQuantity = qty]
           n == SetRemaining(b, id, qty)
<1>1. n = [b EXCEPT !.pool = [b.pool EXCEPT ![id] = order]]
  BY DEF SetRemaining
<1> HIDE DEF order, n
<1>2. /\ n.pool = [b.pool EXCEPT ![id] = order]
      /\ n.level = b.level /\ n.orders = b.orders
      /\ n.nextMarketOrderId = b.nextMarketOrderId
  BY <1>1 DEF BookTypeOK
<1> QED BY <1>2 DEF Marks, LevelAt, order, n

(* A marked order keeps all its fields but the remaining quantity.         *)
LEMMA MarkedFields ==
  ASSUME NEW b, BookTypeOK(b), NEW id \in DOMAIN b.pool, NEW qty \in Quantity,
         NEW n, Marks(b, n, id, qty)
  PROVE  /\ n.pool[id].remainingQuantity = qty
         /\ n.pool[id].initialQuantity = b.pool[id].initialQuantity
         /\ \A x \in DOMAIN b.pool :
              /\ n.pool[x].side = b.pool[x].side
              /\ n.pool[x].price = b.pool[x].price
              /\ KeyOf(n.pool[x]) = KeyOf(b.pool[x])
<1>1. b.pool[id] \in MEOrder
  BY DEF BookTypeOK
<1>2. n.pool[id] = [b.pool[id] EXCEPT !.remainingQuantity = qty]
  BY DEF Marks
<1>3. /\ n.pool[id].remainingQuantity = qty
      /\ n.pool[id].initialQuantity = b.pool[id].initialQuantity
      /\ n.pool[id].side = b.pool[id].side
      /\ n.pool[id].price = b.pool[id].price
      /\ KeyOf(n.pool[id]) = KeyOf(b.pool[id])
  BY <1>1, <1>2 DEF MEOrder, KeyOf
<1> QED BY <1>3 DEF Marks

(* SetRemaining yields a book.                                             *)
LEMMA SetRemainingType ==
  ASSUME NEW b, BookTypeOK(b), BookConsistent(b), NEW id \in DOMAIN b.pool,
         NEW qty \in Quantity
  PROVE  BookTypeOK(SetRemaining(b, id, qty))
<1>1. CASE qty = 0
  BY <1>1, RemoveType DEF SetRemaining
<1>2. CASE qty # 0
  <2> DEFINE order == [b.pool[id] EXCEPT !.remainingQuantity = qty]
  <2>1. order \in MEOrder
    BY DEF BookTypeOK, MEOrder
  <2>2. SetRemaining(b, id, qty) = [b EXCEPT !.pool = [b.pool EXCEPT ![id] = order]]
    BY <1>2 DEF SetRemaining
  <2> HIDE DEF order
  <2> QED BY <2>1, <2>2 DEF BookTypeOK
<1> QED BY <1>1, <1>2

(* Lowering the remaining quantity, to 0 included, keeps the book          *)
(* consistent.                                                             *)
LEMMA SetRemainingConsistent ==
  ASSUME NEW b, BookTypeOK(b), BookConsistent(b), NEW id \in DOMAIN b.pool,
         NEW qty \in Quantity, qty <= b.pool[id].remainingQuantity
  PROVE  BookConsistent(SetRemaining(b, id, qty))
<1>1. CASE qty = 0
  BY <1>1, RemoveDrops, DropsConsistent DEF SetRemaining
<1>2. ASSUME qty # 0, NEW n, Marks(b, n, id, qty)
      PROVE  BookConsistent(n)
  <2>1. /\ DOMAIN n.pool = DOMAIN b.pool
        /\ n.orders = b.orders
        /\ n.nextMarketOrderId = b.nextMarketOrderId
        /\ \A s \in Side, p \in Prices : LevelAt(n, s, p) = LevelAt(b, s, p)
        /\ \A x \in DOMAIN b.pool : x # id => n.pool[x] = b.pool[x]
    BY <1>2 DEF Marks
  <2>2. /\ n.pool[id].remainingQuantity = qty
        /\ n.pool[id].initialQuantity = b.pool[id].initialQuantity
        /\ \A x \in DOMAIN b.pool :
             /\ n.pool[x].side = b.pool[x].side
             /\ n.pool[x].price = b.pool[x].price
             /\ KeyOf(n.pool[x]) = KeyOf(b.pool[x])
    BY <1>2, MarkedFields, SMTT(30), SMTT(60)
  <2>3. ListedIsAllocated(n)
    BY <2>1, <2>2, SMTT(30), SMTT(60) DEF BookConsistent, ListedIsAllocated
  <2>4. AllocatedIsListed(n)
    <3> SUFFICES ASSUME NEW x \in DOMAIN n.pool
                 PROVE  \E j \in 1 .. Len(LevelAt(n, n.pool[x].side, n.pool[x].price)) :
                          LevelAt(n, n.pool[x].side, n.pool[x].price)[j] = x
      BY DEF AllocatedIsListed
    <3>1. PICK s \in Side, p \in Prices : s = b.pool[x].side /\ p = b.pool[x].price
      BY <2>1 DEF BookTypeOK, MEOrder
    <3>2. \E j \in 1 .. Len(LevelAt(b, s, p)) : LevelAt(b, s, p)[j] = x
      BY <3>1, <2>1 DEF BookConsistent, AllocatedIsListed
    <3>3. LevelAt(n, n.pool[x].side, n.pool[x].price) = LevelAt(b, s, p)
      BY <3>1, <2>1, <2>2, SMTT(30), SMTT(60)
    <3> QED BY <3>2, <3>3
  <2>5. LevelInArrivalOrder(n)
    BY <2>1 DEF BookConsistent, LevelInArrivalOrder
  <2>6. IndexFindsOrders(n)
    BY <2>1, <2>2, SMTT(30), SMTT(60) DEF BookConsistent, IndexFindsOrders
  <2>7. RestingQuantity(n)
    <3>1. b.pool[id] \in MEOrder
      BY DEF BookTypeOK
    <3>2. /\ qty > 0
          /\ qty <= b.pool[id].initialQuantity
      BY <3>1, <1>2, MaxQtyAssumption, SMTT(30), SMTT(60)
         DEF BookConsistent, RestingQuantity, MEOrder, Quantity
    <3> QED BY <3>2, <2>1, <2>2 DEF BookConsistent, RestingQuantity
  <2>8. IdsBelowNext(n)
    BY <2>1 DEF BookConsistent, IdsBelowNext
  <2> QED BY <2>3, <2>4, <2>5, <2>6, <2>7, <2>8, SMTT(30), SMTT(60) DEF BookConsistent
<1> QED BY <1>1, <1>2, SetRemainingMarks

(* SetRemaining keeps the book uncrossed.                                  *)
LEMMA SetRemainingUncrossed ==
  ASSUME NEW b, BookTypeOK(b), Uncrossed(b), NEW id \in DOMAIN b.pool,
         NEW qty \in Quantity
  PROVE  Uncrossed(SetRemaining(b, id, qty))
<1>1. CASE qty = 0
  BY <1>1, RemoveDrops, DropsUncrossed DEF SetRemaining
<1>2. ASSUME NEW n, Marks(b, n, id, qty)
      PROVE  Uncrossed(n)
  <2>1. \A x \in DOMAIN b.pool : /\ n.pool[x].side = b.pool[x].side
                                 /\ n.pool[x].price = b.pool[x].price
    BY <1>2, MarkedFields, SMTT(30), SMTT(60)
  <2>2. DOMAIN n.pool = DOMAIN b.pool
    BY <1>2 DEF Marks
  <2> QED BY <2>1, <2>2, SMTT(30), SMTT(60) DEF Uncrossed
<1> QED BY <1>1, <1>2, SetRemainingMarks

(* SetRemaining allocates nothing and indexes nothing.                     *)
LEMMA SetRemainingShrinks ==
  ASSUME NEW b, BookTypeOK(b), NEW id \in DOMAIN b.pool, NEW qty \in Quantity
  PROVE  LET n == SetRemaining(b, id, qty)
         IN  /\ DOMAIN n.pool \subseteq DOMAIN b.pool
             /\ DOMAIN n.orders \subseteq DOMAIN b.orders
             /\ n.nextMarketOrderId = b.nextMarketOrderId
<1> DEFINE n == SetRemaining(b, id, qty)
<1>1. CASE qty = 0
  <2>1. n = remove(b, id)
    BY <1>1 DEF SetRemaining
  <2>2. Drops(b, n, id)
    BY <2>1, RemoveDrops
  <2> HIDE DEF n
  <2> QED BY <2>2 DEF Drops, n
<1>2. CASE qty # 0
  <2>1. Marks(b, n, id, qty)
    BY <1>2, SetRemainingMarks
  <2> HIDE DEF n
  <2> QED BY <2>1 DEF Marks, n
<1> QED BY <1>1, <1>2

-----------------------------------------------------------------------------
(* The end of match.                                                       *)

(* A set of prices with a member has a least one: begin() of asks_.        *)
LEMMA LeastElement ==
  ASSUME NEW S, S \subseteq Nat, S # {}
  PROVE  \E m \in S : \A x \in S : m <= x
<1>1. PICK m \in S : \A y \in S : ~(<<y, m>> \in OpToRel(<, Nat))
  BY NatLessThanWellFounded, WFMin
<1>2. \A y \in S : ~(y < m)
  BY <1>1 DEF OpToRel
<1> QED BY <1>2, SMTT(30), SMTT(60)

(* A bounded set of prices with a member has a greatest one: begin() of    *)
(* bids_.                                                                  *)
LEMMA GreatestElement ==
  ASSUME NEW S, S \subseteq Nat, S # {}, NEW bound \in Nat,
         \A x \in S : x <= bound
  PROVE  \E m \in S : \A x \in S : x <= m
<1> DEFINE T == {bound - x : x \in S}
<1>1. T \subseteq Nat
  BY SMTT(30), SMTT(60)
<1>2. T # {}
  <2>1. PICK x \in S : TRUE
    OBVIOUS
  <2>2. bound - x \in T
    OBVIOUS
  <2> QED BY <2>2
<1>3. PICK k \in T : \A y \in T : k <= y
  BY <1>1, <1>2, LeastElement
<1>4. PICK m \in S : k = bound - m
  OBVIOUS
<1>5. \A x \in S : bound - m <= bound - x
  BY <1>3, <1>4
<1> QED BY <1>5, SMTT(30), SMTT(60)

(* A side with an order has a best price: oppositeSide.begin() exists.     *)
LEMMA BestPriceExists ==
  ASSUME NEW b, NEW side \in Side, NEW q \in Prices, LevelAt(b, side, q) # <<>>
  PROVE  \E p \in Prices : IsBestPrice(b, side, p)
<1> DEFINE S == {p \in Prices : LevelAt(b, side, p) # <<>>}
<1>1. S \subseteq Nat /\ q \in S
  BY PricesAssumption
<1>2. CASE side = "SELL"
  <2>1. PICK m \in S : \A x \in S : m <= x
    BY <1>1, LeastElement
  <2> QED BY <2>1, <1>2 DEF IsBestPrice, NotWorse
<1>3. CASE side = "BUY"
  <2>1. PICK bound \in Nat : \A x \in S : x <= bound
    BY PricesAssumption
  <2>2. PICK m \in S : \A x \in S : x <= m
    BY <1>1, <2>1, GreatestElement
  <2>3. \A x \in S : m >= x
    BY <1>1, <2>2
  <2> QED BY <2>3, <1>3 DEF IsBestPrice, NotWorse
<1> QED BY <1>2, <1>3 DEF Side

(* When the loop of match can run no more, the order in hand crosses no    *)
(* resting order of the other side, at any price.                          *)
LEMMA NothingLeftToTrade ==
  ASSUME NEW b, BookTypeOK(b), BookConsistent(b),
         NEW side \in Side, NEW price \in Prices,
         ~ \E p \in Prices : MayTradeAt(b, side, price, p)
  PROVE  \A id \in DOMAIN b.pool :
           b.pool[id].side = Opposite(side) => ~Crosses(side, price, b.pool[id].price)
<1> SUFFICES ASSUME NEW id \in DOMAIN b.pool, b.pool[id].side = Opposite(side)
             PROVE  ~Crosses(side, price, b.pool[id].price)
  OBVIOUS
<1> DEFINE other == Opposite(side)
<1>1. other \in Side
  BY DEF Opposite, Side
<1>2. PICK q \in Prices : q = b.pool[id].price
  BY DEF BookTypeOK, MEOrder
<1>3. PICK i \in 1 .. Len(LevelAt(b, other, q)) : LevelAt(b, other, q)[i] = id
  BY <1>2 DEF BookConsistent, AllocatedIsListed
<1>4. LevelAt(b, other, q) # <<>>
  <2>1. LevelAt(b, other, q) \in Seq(Nat)
    BY <1>1, LevelType
  <2> QED BY <2>1, <1>3, NoElements, SMTT(30), SMTT(60)
<1>5. PICK p \in Prices : IsBestPrice(b, other, p)
  BY <1>1, <1>4, BestPriceExists
<1>6. ~Crosses(side, price, p)
  BY <1>5 DEF MayTradeAt
<1>7. NotWorse(other, p, q)
  BY <1>4, <1>5 DEF IsBestPrice
<1>8. p \in Nat /\ q \in Nat /\ price \in Nat
  BY PricesAssumption
<1>9. CASE side = "BUY"
  BY <1>2, <1>6, <1>7, <1>8, <1>9, SMTT(30), SMTT(60) DEF Crosses, NotWorse, Opposite
<1>10. CASE side = "SELL"
  BY <1>2, <1>6, <1>7, <1>8, <1>10, SMTT(30), SMTT(60) DEF Crosses, NotWorse, Opposite
<1> QED BY <1>9, <1>10 DEF Side

-----------------------------------------------------------------------------
(* What all the steps share.                                               *)

(* Handing out a market id changes nothing else in the book.               *)
LEMMA TakeMarketIdOK ==
  ASSUME NEW b, BookTypeOK(b), BookConsistent(b), Uncrossed(b)
  PROVE  LET n == TakeMarketId(b)
         IN  /\ BookTypeOK(n) /\ BookConsistent(n) /\ Uncrossed(n)
             /\ n.pool = b.pool /\ n.orders = b.orders
             /\ n.nextMarketOrderId = b.nextMarketOrderId + 1
<1> DEFINE n == TakeMarketId(b)
<1>1. /\ n.pool = b.pool /\ n.orders = b.orders /\ n.level = b.level
      /\ n.nextMarketOrderId = b.nextMarketOrderId + 1
  BY DEF TakeMarketId, BookTypeOK
<1>2. BookTypeOK(n)
  BY SMTT(30), SMTT(60) DEF TakeMarketId, BookTypeOK
<1>3. \A s \in Side, p \in Prices : LevelAt(n, s, p) = LevelAt(b, s, p)
  BY <1>1 DEF LevelAt
<1>4. \A id \in DOMAIN b.pool : id \in Nat /\ b.pool[id].side \in Side
                                /\ b.pool[id].price \in Prices
  BY DEF BookTypeOK, MEOrder
<1>5. b.nextMarketOrderId \in Nat
  BY DEF BookTypeOK
<1> HIDE DEF n
<1>6. ListedIsAllocated(n) /\ LevelInArrivalOrder(n)
  BY <1>1, <1>3, SMTT(30), SMTT(60) DEF BookConsistent, ListedIsAllocated, LevelInArrivalOrder
<1>7. AllocatedIsListed(n)
  BY <1>1, <1>3, <1>4, SMTT(30), SMTT(60) DEF BookConsistent, AllocatedIsListed
<1>8. IndexFindsOrders(n) /\ RestingQuantity(n)
  BY <1>1 DEF BookConsistent, IndexFindsOrders, RestingQuantity
<1>9. IdsBelowNext(n)
  BY <1>1, <1>4, <1>5, SMTT(30), SMTT(60) DEF BookConsistent, IdsBelowNext
<1>10. Uncrossed(n)
  BY <1>1 DEF Uncrossed
<1> QED BY <1>1, <1>2, <1>6, <1>7, <1>8, <1>9, <1>10, SMTT(30), SMTT(60) DEF BookConsistent, n

(* A step that replaces one book by a good one keeps all books good.       *)
LEMMA OneBookChanges ==
  ASSUME TypeOK, BooksConsistent, BooksUncrossed, NEW t \in Tickers,
         NEW n, BookTypeOK(n), BookConsistent(n), Uncrossed(n),
         books' = [books EXCEPT ![t] = n]
  PROVE  /\ DOMAIN books' = Tickers
         /\ \A u \in Tickers : BookTypeOK(books'[u])
         /\ BooksConsistent' /\ BooksUncrossed'
         /\ books'[t] = n
         /\ \A u \in Tickers : u # t => books'[u] = books[u]
<1>1. /\ DOMAIN books' = Tickers
      /\ books'[t] = n
      /\ \A u \in Tickers : u # t => books'[u] = books[u]
  BY DEF TypeOK
<1>2. \A u \in Tickers : BookTypeOK(books'[u])
  BY <1>1 DEF TypeOK
<1>3. \A u \in Tickers : BookConsistent(books'[u])
  BY <1>1 DEF BooksConsistent
<1>4. \A u \in Tickers : Uncrossed(books'[u])
  BY <1>1 DEF BooksUncrossed
<1> QED BY <1>1, <1>2, <1>3, <1>4 DEF BooksConsistent, BooksUncrossed

(* The index finds an allocated order.                                     *)
LEMMA IndexedOrder ==
  ASSUME NEW b, BookTypeOK(b), BookConsistent(b), NEW k \in DOMAIN b.orders
  PROVE  /\ b.orders[k] \in DOMAIN b.pool
         /\ b.orders[k] \in Nat
         /\ b.pool[b.orders[k]] \in MEOrder
BY DEF BookTypeOK, BookConsistent, IndexFindsOrders

(* Messages with fields of the right types are messages.                   *)
LEMMA ResponseType ==
  ASSUME NEW c \in Clients, NEW t \in Tickers, NEW coid \in Nat,
         NEW moid \in Nat, NEW qty \in Quantity,
         NEW status \in {"ACCEPTED", "EXECUTED", "CANCELED", "CANCEL_REJECTED",
                         "MODIFIED"},
         NEW executed \in Quantity, NEW leaves \in Quantity, NEW match \in Nat
  PROVE  Response(c, t, coid, moid, qty, status, executed, leaves, match)
           \in MEClientResponse
BY DEF Response, MEClientResponse

(* A market update built from typed fields is an MEMarketUpdate.           *)
LEMMA UpdateType ==
  ASSUME NEW t \in Tickers, NEW moid \in Nat,
         NEW type \in {"ADD", "CANCEL", "MODIFY", "TRADE"},
         NEW side \in Side, NEW price \in Prices, NEW qty \in Quantity,
         NEW newId \in Nat, NEW match \in Nat
  PROVE  Update(t, moid, type, side, price, qty, newId, match) \in MEMarketUpdate
BY DEF Update, MEMarketUpdate

(* The fields a message leaves at their default are typed.                 *)
LEMMA ZeroIsQuantity == 0 \in Quantity /\ OrderId_INVALID \in Nat
BY MaxQtyAssumption, SMTT(30), SMTT(60) DEF Quantity, OrderId_INVALID

(* The order in hand is one.                                               *)
LEMMA TakerType ==
  ASSUME TypeOK, taker # NoTaker
  PROVE  /\ taker \in Taker
         /\ taker.ticker \in Tickers /\ BookTypeOK(books[taker.ticker])
BY DEF TypeOK, Taker

-----------------------------------------------------------------------------
(* The initial state.                                                      *)
LEMMA InitIInv == Init => IInv
<1> SUFFICES ASSUME Init PROVE IInv
  OBVIOUS
<1>1. \A t \in Tickers : books[t] = EmptyBook
  BY DEF Init
<1>2. TypeOK
  <2>1. DOMAIN books = Tickers /\ next_match_id \in Nat
    BY DEF Init
  <2>2. /\ id_to_token \in Seq([clientId : Clients, tickerId : Tickers])
        /\ responses \in Seq(MEClientResponse)
        /\ marketUpdates \in Seq(MEMarketUpdate)
    BY SMTT(30), SMTT(60) DEF Init
  <2> QED BY <1>1, <2>1, <2>2, EmptyBookOK DEF TypeOK, Init
<1>3. BooksConsistent /\ BooksUncrossed
  BY <1>1, EmptyBookOK DEF BooksConsistent, BooksUncrossed
<1>4. TakerIsNew
  BY DEF Init, TakerIsNew
<1>5. IndexedIdsKnown
  <2>1. DOMAIN EmptyBook.orders = {}
    BY DEF EmptyBook, EmptyMap
  <2> QED BY <1>1, <2>1 DEF IndexedIdsKnown
<1> QED BY <1>2, <1>3, <1>4, <1>5 DEF IInv

-----------------------------------------------------------------------------
(* Requests.                                                               *)

(* Registering an id appends it.                                           *)
LEMMA RegisterType ==
  ASSUME TypeOK, NEW c \in Clients, NEW t \in Tickers, Register(c, t)
  PROVE  /\ id_to_token' \in Seq([clientId : Clients, tickerId : Tickers])
         /\ Len(id_to_token') = Len(id_to_token) + 1
         /\ Len(id_to_token) \in Nat
BY SMTT(30), SMTT(60) DEF TypeOK, Register

(* The keys of the index are pairs with a number.                          *)
LEMMA KeyType ==
  ASSUME TypeOK, NEW t \in Tickers, NEW k \in DOMAIN books[t].orders
  PROVE  k[2] \in Nat
BY DEF TypeOK, BookTypeOK, OrderKey

(* addOrder, up to its call of match, preserves the invariant.             *)
LEMMA AddOrderIInv ==
  ASSUME IInv, NEW c \in Clients, NEW t \in Tickers, NEW orderType \in OrderType,
         NEW side \in Side, NEW price \in Prices, NEW qty \in Quantity,
         AddOrder(c, t, orderType, side, price, qty)
  PROVE  IInv'
<1> DEFINE b == books[t]
           n == TakeMarketId(b)
<1>1. TypeOK /\ BooksConsistent /\ BooksUncrossed /\ IndexedIdsKnown
  BY DEF IInv
<1>2. BookTypeOK(b) /\ BookConsistent(b) /\ Uncrossed(b) /\ b.nextMarketOrderId \in Nat
  BY <1>1 DEF TypeOK, BooksConsistent, BooksUncrossed, BookTypeOK
<1>3. /\ BookTypeOK(n) /\ BookConsistent(n) /\ Uncrossed(n)
      /\ n.pool = b.pool /\ n.orders = b.orders
      /\ n.nextMarketOrderId = b.nextMarketOrderId + 1
  BY <1>2, TakeMarketIdOK
<1>4. books' = [books EXCEPT ![t] = n]
  BY DEF AddOrder
<1> HIDE DEF n
<1>5. /\ DOMAIN books' = Tickers
      /\ \A u \in Tickers : BookTypeOK(books'[u])
      /\ BooksConsistent' /\ BooksUncrossed'
      /\ books'[t] = n
      /\ \A u \in Tickers : u # t => books'[u] = books[u]
  BY <1>1, <1>3, <1>4, OneBookChanges
<1>6. /\ id_to_token' \in Seq([clientId : Clients, tickerId : Tickers])
      /\ Len(id_to_token') = Len(id_to_token) + 1
      /\ Len(id_to_token) \in Nat
  BY <1>1, RegisterType DEF AddOrder
<1>7. taker' \in Taker
  BY <1>2, <1>6, SMTT(30), SMTT(60) DEF AddOrder, Taker
<1>8. responses' \in Seq(MEClientResponse) /\ marketUpdates' \in Seq(MEMarketUpdate)
  <2>1. Response(c, t, Len(id_to_token) + 1, b.nextMarketOrderId, qty, "ACCEPTED",
                 0, qty, OrderId_INVALID) \in MEClientResponse
    BY <1>2, <1>6, ZeroIsQuantity, ResponseType, SMTT(30), SMTT(60)
  <2> QED BY <2>1, SMTT(30), SMTT(60) DEF AddOrder
<1>9. TypeOK'
  BY <1>1, <1>5, <1>6, <1>7, <1>8 DEF TypeOK, AddOrder
<1>10. TakerIsNew'
  <2>1. /\ taker'.ticker = t
        /\ taker'.marketOrderId = b.nextMarketOrderId
        /\ taker'.clientOrderId = Len(id_to_token) + 1
    BY DEF AddOrder
  <2>2. \A id \in DOMAIN b.pool : id < b.nextMarketOrderId
    BY <1>2 DEF BookConsistent, IdsBelowNext
  <2>3. \A k \in DOMAIN b.orders : k[2] < Len(id_to_token) + 1
    BY <1>1, <1>6, KeyType, SMTT(30), SMTT(60) DEF IndexedIdsKnown
  <2> QED BY <2>1, <2>2, <2>3, <1>2, <1>3, <1>5, <1>6, SMTT(30), SMTT(60) DEF TakerIsNew
<1>11. IndexedIdsKnown'
  <2>1. \A u \in Tickers : \A k \in DOMAIN books[u].orders :
          k[2] <= Len(id_to_token) + 1
    BY <1>1, <1>6, KeyType, SMTT(30), SMTT(60) DEF IndexedIdsKnown
  <2>2. \A u \in Tickers : books'[u].orders = books[u].orders
    BY <1>3, <1>5
  <2> QED BY <2>1, <2>2, <1>6, SMTT(30), SMTT(60) DEF IndexedIdsKnown
<1> QED BY <1>5, <1>9, <1>10, <1>11 DEF IInv

(* A coid names the client and the ticker it was registered with.          *)
LEMMA TokenType ==
  ASSUME TypeOK, NEW coid \in DOMAIN id_to_token
  PROVE  /\ coid \in Nat
         /\ id_to_token[coid].clientId \in Clients
         /\ id_to_token[coid].tickerId \in Tickers
<1>1. coid \in 1 .. Len(id_to_token)
  BY SequenceParts DEF TypeOK
<1>2. id_to_token[coid] \in [clientId : Clients, tickerId : Tickers]
  BY <1>1, SequenceParts DEF TypeOK
<1> QED BY <1>1, <1>2, SMTT(30), SMTT(60)

(* The order a request names is the one the index finds.                   *)
LEMMA NamedOrder ==
  ASSUME IInv, NEW coid \in DOMAIN id_to_token
  PROVE  LET c == id_to_token[coid].clientId
             t == id_to_token[coid].tickerId
             b == books[t]
             id == b.orders[<<c, coid>>]
         IN  /\ c \in Clients /\ t \in Tickers /\ coid \in Nat
             /\ DOMAIN books = Tickers /\ BookTypeOK(b) /\ BookConsistent(b)
             /\ <<c, coid>> \in DOMAIN b.orders =>
                  /\ id \in DOMAIN b.pool
                  /\ b.pool[id] \in MEOrder
                  /\ b.pool[id].clientOrderId = coid
                  /\ b.pool[id].clientId = c
<1> DEFINE c == id_to_token[coid].clientId
           t == id_to_token[coid].tickerId
           b == books[t]
           id == b.orders[<<c, coid>>]
<1>1. TypeOK /\ BooksConsistent
  BY DEF IInv
<1>2. coid \in Nat /\ c \in Clients /\ t \in Tickers
  BY <1>1, TokenType
<1>3. DOMAIN books = Tickers /\ BookTypeOK(b) /\ BookConsistent(b)
  BY <1>1, <1>2 DEF TypeOK, BooksConsistent
<1>4. ASSUME <<c, coid>> \in DOMAIN b.orders
      PROVE  /\ id \in DOMAIN b.pool /\ b.pool[id] \in MEOrder
             /\ b.pool[id].clientOrderId = coid /\ b.pool[id].clientId = c
  <2>1. id \in DOMAIN b.pool /\ b.pool[id] \in MEOrder
    BY <1>3, <1>4, IndexedOrder
  <2>2. KeyOf(b.pool[id]) = <<c, coid>>
    BY <1>3, <1>4 DEF BookConsistent, IndexFindsOrders
  <2> QED BY <2>1, <2>2 DEF KeyOf
<1> HIDE DEF id
<1> QED BY <1>2, <1>3, <1>4 DEF id

(* A quantity taken from a larger one leaves a quantity.                   *)
LEMMA QuantityMinus ==
  ASSUME NEW q \in Quantity, NEW r \in Quantity, q <= r
  PROVE  r - q \in Quantity /\ r - q <= r
BY MaxQtyAssumption, SMTT(30), SMTT(60) DEF Quantity

(* Quantities are compared as the numbers they are.                        *)
LEMMA QuantityOrder ==
  ASSUME NEW q \in Quantity, NEW r \in Quantity
  PROVE  q > r <=> ~(q <= r)
BY MaxQtyAssumption, SMTT(30), SMTT(60) DEF Quantity

(* cancelOrder preserves the invariant on each of its three exits.         *)
LEMMA CancelOrderIInv ==
  ASSUME IInv, NEW coid \in DOMAIN id_to_token, NEW qty \in Quantity,
         CancelOrder(coid, qty)
  PROVE  IInv'
<1> DEFINE c == id_to_token[coid].clientId
           t == id_to_token[coid].tickerId
           b == books[t]
           id == b.orders[<<c, coid>>]
           order == b.pool[id]
           canceled == IF qty = 0 THEN order.remainingQuantity ELSE qty
<1>1. TypeOK /\ BooksConsistent /\ BooksUncrossed /\ IndexedIdsKnown
  BY DEF IInv
<1>2. coid \in Nat /\ c \in Clients /\ t \in Tickers
  BY <1>1, TokenType
<1>3. BookTypeOK(b) /\ BookConsistent(b) /\ Uncrossed(b)
  BY <1>1, <1>2 DEF TypeOK, BooksConsistent, BooksUncrossed
<1>4. taker = NoTaker /\ UNCHANGED <<next_match_id, id_to_token, taker>>
  BY DEF CancelOrder
<1>5. TakerIsNew'
  BY <1>4 DEF TakerIsNew
<1>6. ASSUME UNCHANGED books,
             responses' \in Seq(MEClientResponse), marketUpdates' = <<>>
      PROVE  IInv'
  <2>1. TypeOK'
    BY <1>1, <1>4, <1>6, SMTT(30), SMTT(60) DEF TypeOK
  <2>2. BooksConsistent' /\ BooksUncrossed' /\ IndexedIdsKnown'
    BY <1>1, <1>4, <1>6 DEF BooksConsistent, BooksUncrossed, IndexedIdsKnown
  <2> QED BY <1>5, <2>1, <2>2 DEF IInv
<1>7. CASE <<c, coid>> \notin DOMAIN b.orders
  <2>1. Unknown(c, t, coid) \in MEClientResponse
    BY <1>2, ZeroIsQuantity, ResponseType DEF Unknown
  <2>2. /\ UNCHANGED books /\ marketUpdates' = <<>>
        /\ responses' = <<Unknown(c, t, coid)>>
    BY <1>7 DEF CancelOrder
  <2> QED BY <2>1, <2>2, <1>6, SMTT(30), SMTT(60)
<1>8. ASSUME <<c, coid>> \in DOMAIN b.orders
      PROVE  /\ id \in DOMAIN b.pool /\ id \in Nat /\ order \in MEOrder
             /\ canceled \in Quantity /\ order.remainingQuantity \in Quantity
  BY <1>3, <1>8, IndexedOrder DEF MEOrder
<1>9. CASE <<c, coid>> \in DOMAIN b.orders /\ canceled > order.remainingQuantity
  <2>1. /\ UNCHANGED books /\ marketUpdates' = <<>>
        /\ responses' = <<Response(c, t, coid, id, order.initialQuantity,
                                   "CANCEL_REJECTED", 0, order.remainingQuantity,
                                   OrderId_INVALID)>>
    <3>1. ~(canceled <= order.remainingQuantity)
      <4> HIDE DEF canceled, order
      <4> QED BY <1>8, <1>9, QuantityOrder
    <3> QED BY <1>9, <3>1 DEF CancelOrder
  <2>2. order.initialQuantity \in Quantity /\ order.remainingQuantity \in Quantity
    BY <1>8, <1>9 DEF MEOrder
  <2> HIDE DEF c, t, order
  <2>3. Response(c, t, coid, id, order.initialQuantity, "CANCEL_REJECTED", 0,
                 order.remainingQuantity, OrderId_INVALID) \in MEClientResponse
    BY <2>2, <1>2, <1>8, <1>9, ZeroIsQuantity, ResponseType
  <2> QED BY <2>1, <2>3, <1>6, SMTT(30), SMTT(60)
<1>10. CASE <<c, coid>> \in DOMAIN b.orders /\ canceled <= order.remainingQuantity
  <2> DEFINE left == order.remainingQuantity - canceled
             n == SetRemaining(b, id, left)
  <2>1. /\ books' = [books EXCEPT ![t] = n]
        /\ responses' = <<Response(c, t, coid, id, order.initialQuantity,
                                   "CANCELED", 0, canceled, OrderId_INVALID)>>
        /\ marketUpdates' = <<Update(t, id, "CANCEL", order.side, order.price,
                                     canceled, OrderId_INVALID, OrderId_INVALID)>>
    <3>1. ~(canceled > order.remainingQuantity)
      <4> HIDE DEF canceled, order
      <4> QED BY <1>8, <1>10, QuantityOrder
    <3> QED BY <1>10, <3>1 DEF CancelOrder
  <2>2. /\ order.initialQuantity \in Quantity /\ order.remainingQuantity \in Quantity
        /\ order.side \in Side /\ order.price \in Prices
    BY <1>8, <1>10 DEF MEOrder
  <2> HIDE DEF c, t, order, canceled
  <2>3. left \in Quantity /\ left <= order.remainingQuantity
    BY <2>2, <1>8, <1>10, QuantityMinus
  <2>4. BookTypeOK(n) /\ BookConsistent(n) /\ Uncrossed(n)
        /\ DOMAIN n.orders \subseteq DOMAIN b.orders
    <3> HIDE DEF left, b, id
    <3> QED BY <2>3, <1>3, <1>8, <1>10, SetRemainingType, SetRemainingConsistent,
               SetRemainingUncrossed, SetRemainingShrinks DEF order
  <2> HIDE DEF n, left
  <2>5. /\ DOMAIN books' = Tickers
        /\ \A u \in Tickers : BookTypeOK(books'[u])
        /\ BooksConsistent' /\ BooksUncrossed'
        /\ books'[t] = n
        /\ \A u \in Tickers : u # t => books'[u] = books[u]
    BY <1>1, <1>2, <2>1, <2>4, OneBookChanges
  <2>6. Response(c, t, coid, id, order.initialQuantity, "CANCELED", 0, canceled,
                 OrderId_INVALID) \in MEClientResponse
    BY <2>2, <1>2, <1>8, <1>10, ZeroIsQuantity, ResponseType
  <2>7. Update(t, id, "CANCEL", order.side, order.price, canceled,
               OrderId_INVALID, OrderId_INVALID) \in MEMarketUpdate
    BY <2>2, <1>2, <1>8, <1>10, ZeroIsQuantity, UpdateType, SMTT(30), SMTT(60)
  <2>8. TypeOK'
    BY <1>1, <1>4, <2>1, <2>5, <2>6, <2>7, SMTT(30), SMTT(60) DEF TypeOK
  <2>9. IndexedIdsKnown'
    BY <1>1, <1>4, <2>4, <2>5 DEF IndexedIdsKnown
  <2> QED BY <1>5, <2>5, <2>8, <2>9 DEF IInv
<1>11. \/ <<c, coid>> \notin DOMAIN b.orders
       \/ canceled > order.remainingQuantity
       \/ canceled <= order.remainingQuantity
  BY DEF CancelOrder
<1> QED BY <1>7, <1>9, <1>10, <1>11

(* replaceOrder, up to its call of match, preserves the invariant.         *)
LEMMA ReplaceOrderIInv ==
  ASSUME IInv, NEW coid \in DOMAIN id_to_token, NEW orderType \in OrderType,
         NEW price \in Prices, NEW qty \in Quantity,
         ReplaceOrder(coid, orderType, price, qty)
  PROVE  IInv'
<1> DEFINE c == id_to_token[coid].clientId
           t == id_to_token[coid].tickerId
           b == books[t]
           oldId == b.orders[<<c, coid>>]
           side == b.pool[oldId].side
           newCoid == Len(id_to_token) + 1
           newId == b.nextMarketOrderId
<1>1. TypeOK /\ BooksConsistent /\ BooksUncrossed /\ IndexedIdsKnown
  BY DEF IInv
<1>2. coid \in Nat /\ c \in Clients /\ t \in Tickers
  BY <1>1, TokenType
<1>3. BookTypeOK(b) /\ BookConsistent(b) /\ Uncrossed(b) /\ newId \in Nat
  BY <1>1, <1>2 DEF TypeOK, BooksConsistent, BooksUncrossed, BookTypeOK
<1>4. taker = NoTaker /\ Register(c, t) /\ UNCHANGED next_match_id
  BY DEF ReplaceOrder
<1>5. /\ id_to_token' \in Seq([clientId : Clients, tickerId : Tickers])
      /\ Len(id_to_token') = newCoid
      /\ Len(id_to_token) \in Nat
  <2> HIDE DEF c, t
  <2> QED BY <1>1, <1>2, <1>4, RegisterType
<1>6. \A u \in Tickers : \A k \in DOMAIN books[u].orders :
        k[2] <= newCoid /\ k[2] < newCoid
  BY <1>1, <1>5, KeyType, SMTT(30), SMTT(60) DEF IndexedIdsKnown
<1>7. CASE <<c, coid>> \notin DOMAIN b.orders \/ qty = 0
  <2>1. Unknown(c, t, coid) \in MEClientResponse
    BY <1>2, ZeroIsQuantity, ResponseType DEF Unknown
  <2>2. /\ UNCHANGED <<books, taker>> /\ marketUpdates' = <<>>
        /\ responses' = <<Unknown(c, t, coid)>>
    BY <1>7 DEF ReplaceOrder
  <2>3. TypeOK'
    BY <1>1, <1>4, <1>5, <2>1, <2>2, SMTT(30), SMTT(60) DEF TypeOK
  <2>4. BooksConsistent' /\ BooksUncrossed'
    BY <1>1, <2>2 DEF BooksConsistent, BooksUncrossed
  <2>5. IndexedIdsKnown'
    BY <1>5, <1>6, <2>2 DEF IndexedIdsKnown
  <2>6. TakerIsNew'
    BY <1>4, <2>2 DEF TakerIsNew
  <2> QED BY <2>3, <2>4, <2>5, <2>6 DEF IInv
<1>8. CASE <<c, coid>> \in DOMAIN b.orders /\ qty # 0
  <2> DEFINE r == remove(b, oldId)
             n == TakeMarketId(r)
  <2>1. /\ books' = [books EXCEPT ![t] = n]
        /\ taker' = [ticker |-> t, clientId |-> c, clientOrderId |-> newCoid,
                     marketOrderId |-> newId, orderType |-> orderType,
                     side |-> side, price |-> price, initialQuantity |-> qty,
                     remaining |-> qty, replacing |-> TRUE]
        /\ responses' = <<Response(c, t, newCoid, newId, qty, "MODIFIED", 0, qty,
                                   OrderId_INVALID)>>
        /\ marketUpdates' = <<Update(t, oldId, "MODIFY", side, price, qty, newId,
                                     OrderId_INVALID)>>
    BY <1>8 DEF ReplaceOrder
  <2>2. oldId \in DOMAIN b.pool /\ oldId \in Nat /\ side \in Side
    <3>1. b.pool[oldId] \in MEOrder /\ oldId \in DOMAIN b.pool /\ oldId \in Nat
      BY <1>3, <1>8, IndexedOrder
    <3> QED BY <3>1 DEF MEOrder
  <2> HIDE DEF c, t, side, b, oldId
  <2>3. Drops(b, r, oldId) /\ BookTypeOK(r)
    BY <1>3, <2>2, RemoveDrops, RemoveType
  <2> HIDE DEF r
  <2>4. BookConsistent(r) /\ Uncrossed(r)
    BY <1>3, <2>2, <2>3, DropsConsistent, DropsUncrossed
  <2>5. /\ BookTypeOK(n) /\ BookConsistent(n) /\ Uncrossed(n)
        /\ n.pool = r.pool /\ n.orders = r.orders
        /\ n.nextMarketOrderId = r.nextMarketOrderId + 1
    BY <2>3, <2>4, TakeMarketIdOK
  <2>6. /\ DOMAIN n.pool \subseteq DOMAIN b.pool
        /\ DOMAIN n.orders \subseteq DOMAIN b.orders
        /\ n.nextMarketOrderId = newId + 1
    BY <2>3, <2>5 DEF Drops
  <2> HIDE DEF n
  <2>7. /\ DOMAIN books' = Tickers
        /\ \A u \in Tickers : BookTypeOK(books'[u])
        /\ BooksConsistent' /\ BooksUncrossed'
        /\ books'[t] = n
        /\ \A u \in Tickers : u # t => books'[u] = books[u]
    BY <1>1, <1>2, <2>1, <2>5, OneBookChanges
  <2>8. newCoid \in Nat
    BY <1>5, SMTT(30), SMTT(60)
  <2>9. taker' \in Taker
    BY <1>2, <1>3, <2>1, <2>2, <2>8, SMTT(30), SMTT(60) DEF Taker
  <2> HIDE DEF newCoid, newId
  <2>10. Response(c, t, newCoid, newId, qty, "MODIFIED", 0, qty, OrderId_INVALID)
           \in MEClientResponse
    BY <1>2, <1>3, <2>8, ZeroIsQuantity, ResponseType, SMTT(30), SMTT(60)
  <2>11. Update(t, oldId, "MODIFY", side, price, qty, newId, OrderId_INVALID)
           \in MEMarketUpdate
    BY <1>2, <1>3, <2>2, ZeroIsQuantity, UpdateType, SMTT(30), SMTT(60)
  <2>12. TypeOK'
    BY <1>1, <1>4, <1>5, <2>1, <2>7, <2>9, <2>10, <2>11, SMTT(30), SMTT(60) DEF TypeOK
  <2>13. TakerIsNew'
    <3>1. \A id \in DOMAIN b.pool : id < newId
      BY <1>3 DEF BookConsistent, IdsBelowNext, newId
    <3>2. \A k \in DOMAIN b.orders : k[2] < newCoid
      BY <1>2, <1>6 DEF b
    <3>3. /\ taker'.ticker = t /\ taker'.marketOrderId = newId
          /\ taker'.clientOrderId = newCoid
      BY <2>1
    <3>4. newId < n.nextMarketOrderId
      BY <1>3, <2>6, SMTT(30), SMTT(60)
    <3>5. \A id \in DOMAIN n.pool : id < newId
      BY <3>1, <2>6
    <3>6. \A k \in DOMAIN n.orders : k[2] < newCoid
      BY <3>2, <2>6
    <3>7. books'[taker'.ticker] = n /\ Len(id_to_token') = newCoid
      BY <1>5, <2>7, <3>3
    <3> QED BY <3>3, <3>4, <3>5, <3>6, <3>7 DEF TakerIsNew
  <2>14. IndexedIdsKnown'
    <3>1. \A u \in Tickers : DOMAIN books'[u].orders \subseteq DOMAIN books[u].orders
      BY <2>6, <2>7 DEF b
    <3> QED BY <1>5, <1>6, <3>1 DEF IndexedIdsKnown
  <2> QED BY <2>7, <2>12, <2>13, <2>14 DEF IInv
<1> QED BY <1>7, <1>8

-----------------------------------------------------------------------------
(* match and what follows it.                                              *)

(* The head of the best level is a resting order of that side and price.   *)
LEMMA HeadOfLevel ==
  ASSUME NEW b, BookTypeOK(b), BookConsistent(b), NEW s \in Side, NEW p \in Prices,
         LevelAt(b, s, p) # <<>>
  PROVE  LET id == Head(LevelAt(b, s, p))
         IN  /\ id \in DOMAIN b.pool /\ id \in Nat /\ b.pool[id] \in MEOrder
             /\ b.pool[id].side = s /\ b.pool[id].price = p
             /\ \A x \in DOMAIN b.pool :
                  b.pool[x].side = s /\ b.pool[x].price = p => id <= x
<1> DEFINE list == LevelAt(b, s, p)
<1>1. list \in Seq(Nat) /\ list # <<>>
  BY LevelType
<1>2. /\ \A j \in 1 .. Len(list) : /\ list[j] \in DOMAIN b.pool
                                   /\ b.pool[list[j]].side = s
                                   /\ b.pool[list[j]].price = p
      /\ \A i, j \in 1 .. Len(list) : i < j => list[i] < list[j]
  BY SMTT(30), SMTT(60) DEF BookConsistent, ListedIsAllocated, LevelInArrivalOrder
<1>3. \A x \in DOMAIN b.pool : b.pool[x].side = s /\ b.pool[x].price = p
        => \E j \in 1 .. Len(list) : list[j] = x
  BY DEF BookConsistent, AllocatedIsListed
<1> HIDE DEF list
<1>4. 1 \in 1 .. Len(list) /\ Head(list) = list[1] /\ Len(list) \in Nat
  BY <1>1, NoElements, SequenceParts, SMTT(30), SMTT(60)
<1>5. \A j \in 1 .. Len(list) : list[j] \in Nat
  BY <1>1, SequenceParts
<1>6. \A j \in 1 .. Len(list) : list[1] <= list[j]
  BY <1>2, <1>4, <1>5, SMTT(30), SMTT(60)
<1>7. /\ Head(list) \in DOMAIN b.pool /\ Head(list) \in Nat
      /\ b.pool[Head(list)].side = s /\ b.pool[Head(list)].price = p
  BY <1>2, <1>4, <1>5
<1>8. b.pool[Head(list)] \in MEOrder
  BY <1>7 DEF BookTypeOK
<1>9. ASSUME NEW x \in DOMAIN b.pool, b.pool[x].side = s, b.pool[x].price = p
      PROVE  Head(list) <= x
  BY <1>3, <1>4, <1>6, <1>9
<1> QED BY <1>7, <1>8, <1>9 DEF list

(* The smaller of two quantities can be taken from both.                   *)
LEMMA FillQuantity ==
  ASSUME NEW q \in Quantity, NEW r \in Quantity
  PROVE  LET fill == IF q <= r THEN q ELSE r
         IN  /\ fill \in Quantity
             /\ q - fill \in Quantity
             /\ r - fill \in Quantity /\ r - fill <= r
BY MaxQtyAssumption, SMTT(30), SMTT(60) DEF Quantity

(* One iteration of the loop of match preserves the invariant.             *)
LEMMA FillIInv ==
  ASSUME IInv, NEW p \in Prices, FillAt(p)
  PROVE  IInv'
<1> DEFINE t == taker.ticker
           b == books[t]
           s == Opposite(taker.side)
           id == Head(LevelAt(b, s, p))
           order == b.pool[id]
           fill == IF taker.remaining <= order.remainingQuantity
                   THEN taker.remaining ELSE order.remainingQuantity
           takerLeft == taker.remaining - fill
           orderLeft == order.remainingQuantity - fill
           n == SetRemaining(b, id, orderLeft)
<1>1. TypeOK /\ BooksConsistent /\ BooksUncrossed /\ IndexedIdsKnown /\ TakerIsNew
  BY DEF IInv
<1>2. /\ taker # NoTaker
      /\ LevelAt(b, s, p) # <<>>
      /\ books' = [books EXCEPT ![t] = n]
      /\ taker' = [taker EXCEPT !.remaining = takerLeft]
      /\ next_match_id' = next_match_id + 1
      /\ responses' =
           <<Response(order.clientId, t, order.clientOrderId, id,
                      order.initialQuantity, "EXECUTED", fill, orderLeft,
                      next_match_id),
             Response(taker.clientId, t, taker.clientOrderId,
                      taker.marketOrderId, taker.initialQuantity, "EXECUTED",
                      fill, takerLeft, next_match_id)>>
      /\ marketUpdates' =
           <<Update(t, id, "TRADE", order.side, order.price, fill,
                    OrderId_INVALID, next_match_id)>>
      /\ UNCHANGED id_to_token
  BY DEF FillAt, TakerMayTrade, MayTradeAt, IsBestPrice
<1>3. /\ taker \in Taker /\ t \in Tickers
      /\ taker.side \in Side /\ taker.clientId \in Clients
      /\ taker.clientOrderId \in Nat /\ taker.marketOrderId \in Nat
      /\ taker.initialQuantity \in Quantity /\ taker.remaining \in Quantity
  BY <1>1, <1>2, TakerType DEF Taker
<1>4. BookTypeOK(b) /\ BookConsistent(b) /\ Uncrossed(b)
  BY <1>1, <1>3 DEF TypeOK, BooksConsistent, BooksUncrossed
<1>5. s \in Side
  BY DEF Opposite, Side
<1>6. id \in DOMAIN b.pool /\ id \in Nat /\ order \in MEOrder
  <2> HIDE DEF b, s
  <2> QED BY <1>2, <1>4, <1>5, HeadOfLevel
<1>7. /\ order.clientId \in Clients /\ order.clientOrderId \in Nat
      /\ order.initialQuantity \in Quantity /\ order.remainingQuantity \in Quantity
      /\ order.side \in Side /\ order.price \in Prices
  BY <1>6 DEF MEOrder
<1> HIDE DEF t, b, s, id, order
<1>8. /\ fill \in Quantity /\ takerLeft \in Quantity
      /\ orderLeft \in Quantity /\ orderLeft <= order.remainingQuantity
  BY <1>3, <1>7, FillQuantity
<1> HIDE DEF fill, takerLeft, orderLeft
<1>9. /\ BookTypeOK(n) /\ BookConsistent(n) /\ Uncrossed(n)
      /\ DOMAIN n.pool \subseteq DOMAIN b.pool
      /\ DOMAIN n.orders \subseteq DOMAIN b.orders
      /\ n.nextMarketOrderId = b.nextMarketOrderId
  BY <1>4, <1>6, <1>8, SetRemainingType, SetRemainingConsistent, SetRemainingUncrossed,
     SetRemainingShrinks DEF order
<1> HIDE DEF n
<1>10. /\ DOMAIN books' = Tickers
       /\ \A u \in Tickers : BookTypeOK(books'[u])
       /\ BooksConsistent' /\ BooksUncrossed'
       /\ books'[t] = n
       /\ \A u \in Tickers : u # t => books'[u] = books[u]
  BY <1>1, <1>2, <1>3, <1>9, OneBookChanges
<1>11. taker' \in Taker
  BY <1>2, <1>3, <1>8 DEF Taker
<1>12. next_match_id \in Nat
  BY <1>1 DEF TypeOK
<1>13. responses' \in Seq(MEClientResponse)
  <2>1. Response(order.clientId, t, order.clientOrderId, id,
                 order.initialQuantity, "EXECUTED", fill, orderLeft,
                 next_match_id) \in MEClientResponse
    BY <1>3, <1>6, <1>7, <1>8, <1>12, ResponseType
  <2>2. Response(taker.clientId, t, taker.clientOrderId, taker.marketOrderId,
                 taker.initialQuantity, "EXECUTED", fill, takerLeft,
                 next_match_id) \in MEClientResponse
    BY <1>3, <1>8, <1>12, ResponseType
  <2> QED BY <1>2, <2>1, <2>2, SMTT(30), SMTT(60)
<1>14. marketUpdates' \in Seq(MEMarketUpdate)
  <2>1. Update(t, id, "TRADE", order.side, order.price, fill, OrderId_INVALID,
               next_match_id) \in MEMarketUpdate
    BY <1>3, <1>6, <1>7, <1>8, <1>12, ZeroIsQuantity, UpdateType
  <2> QED BY <1>2, <2>1, SMTT(30), SMTT(60)
<1>15. TypeOK'
  BY <1>1, <1>2, <1>10, <1>11, <1>12, <1>13, <1>14, SMTT(30), SMTT(60) DEF TypeOK
<1>16. TakerIsNew'
  <2>1. /\ taker'.ticker = t /\ taker'.marketOrderId = taker.marketOrderId
        /\ taker'.clientOrderId = taker.clientOrderId
    BY <1>2, <1>3 DEF Taker, t
  <2>2. /\ taker.marketOrderId < b.nextMarketOrderId
        /\ \A x \in DOMAIN b.pool : x < taker.marketOrderId
        /\ taker.clientOrderId = Len(id_to_token)
        /\ \A k \in DOMAIN b.orders : k[2] < taker.clientOrderId
    BY <1>1, <1>2 DEF TakerIsNew, b, t
  <2> QED BY <2>1, <2>2, <1>2, <1>9, <1>10, SMTT(30), SMTT(60) DEF TakerIsNew
<1>17. IndexedIdsKnown'
  <2>1. \A u \in Tickers : DOMAIN books'[u].orders \subseteq DOMAIN books[u].orders
    BY <1>9, <1>10 DEF b
  <2> QED BY <2>1, <1>1, <1>2 DEF IndexedIdsKnown
<1> QED BY <1>10, <1>15, <1>16, <1>17 DEF IInv

(* A step that leaves books and ids alone and drops the order in hand.     *)
LEMMA TakerDroppedIInv ==
  ASSUME IInv, UNCHANGED <<books, next_match_id, id_to_token>>, taker' = NoTaker,
         responses' \in Seq(MEClientResponse), marketUpdates' \in Seq(MEMarketUpdate)
  PROVE  IInv'
<1>1. TypeOK'
  BY DEF IInv, TypeOK
<1>2. BooksConsistent' /\ BooksUncrossed' /\ IndexedIdsKnown'
  BY DEF IInv, BooksConsistent, BooksUncrossed, IndexedIdsKnown
<1>3. TakerIsNew'
  BY DEF TakerIsNew
<1> QED BY <1>1, <1>2, <1>3 DEF IInv

(* Canceling a FillAndKill remainder preserves the invariant.              *)
LEMMA KillIInv == ASSUME IInv, Kill PROVE IInv'
<1>1. TypeOK /\ taker # NoTaker
  BY DEF IInv, Kill, MatchReturns
<1>2. /\ taker.ticker \in Tickers /\ taker.clientId \in Clients
      /\ taker.clientOrderId \in Nat /\ taker.marketOrderId \in Nat
      /\ taker.initialQuantity \in Quantity /\ taker.remaining \in Quantity
      /\ taker.side \in Side /\ taker.price \in Prices
  BY <1>1, TakerType DEF Taker
<1>3. Response(taker.clientId, taker.ticker, taker.clientOrderId,
               taker.marketOrderId, taker.initialQuantity, "CANCELED", 0,
               taker.remaining, OrderId_INVALID) \in MEClientResponse
  BY <1>2, ZeroIsQuantity, ResponseType
<1>4. Update(taker.ticker, taker.marketOrderId, "CANCEL", taker.side, taker.price,
             taker.remaining, OrderId_INVALID, OrderId_INVALID) \in MEMarketUpdate
  BY <1>2, ZeroIsQuantity, UpdateType
<1>5. responses' \in Seq(MEClientResponse) /\ marketUpdates' \in Seq(MEMarketUpdate)
  BY <1>3, <1>4, SMTT(30), SMTT(60) DEF Kill
<1> QED BY <1>5, TakerDroppedIInv DEF Kill

(* Inserting a GoodTillCancel remainder preserves the invariant.           *)
LEMMA RestIInv == ASSUME IInv, Rest PROVE IInv'
<1> DEFINE t == taker.ticker
           b == books[t]
           id == taker.marketOrderId
           order == [clientId |-> taker.clientId,
                     clientOrderId |-> taker.clientOrderId,
                     side |-> taker.side, price |-> taker.price,
                     initialQuantity |-> taker.remaining,
                     remainingQuantity |-> taker.remaining]
           n == insert(b, id, order)
<1>1. TypeOK /\ BooksConsistent /\ BooksUncrossed /\ IndexedIdsKnown /\ TakerIsNew
  BY DEF IInv
<1>2. /\ taker # NoTaker /\ taker.remaining > 0
      /\ ~ \E p \in Prices : TakerMayTrade(p)
      /\ books' = [books EXCEPT ![t] = n]
      /\ taker' = NoTaker /\ responses' = <<>>
      /\ UNCHANGED <<next_match_id, id_to_token>>
  BY DEF Rest, MatchReturns
<1>3. /\ t \in Tickers /\ taker.clientId \in Clients
      /\ taker.clientOrderId \in Nat /\ id \in Nat
      /\ taker.initialQuantity \in Quantity /\ taker.remaining \in Quantity
      /\ taker.side \in Side /\ taker.price \in Prices
  BY <1>1, <1>2, TakerType, SMTT(30), SMTT(60) DEF Taker
<1>4. BookTypeOK(b) /\ BookConsistent(b) /\ Uncrossed(b)
  BY <1>1, <1>3, SMTT(30), SMTT(60) DEF TypeOK, BooksConsistent, BooksUncrossed
<1>5. /\ order \in MEOrder
      /\ order.side = taker.side /\ order.price = taker.price
      /\ order.remainingQuantity = taker.remaining
      /\ order.initialQuantity = taker.remaining
      /\ KeyOf(order)[2] = taker.clientOrderId
  BY <1>3 DEF MEOrder, KeyOf
<1>6. /\ id < b.nextMarketOrderId
      /\ \A x \in DOMAIN b.pool : x < id
      /\ taker.clientOrderId = Len(id_to_token)
      /\ \A k \in DOMAIN b.orders : k[2] < taker.clientOrderId
  BY <1>1, <1>2, SMTT(30), SMTT(60) DEF TakerIsNew
<1>7. id \notin DOMAIN b.pool /\ KeyOf(order) \notin DOMAIN b.orders
  <2>1. ~(id < id) /\ ~(taker.clientOrderId < taker.clientOrderId)
    BY <1>3, SMTT(30), SMTT(60)
  <2> HIDE DEF order, b, id
  <2> QED BY <1>5, <1>6, <2>1, SMTT(30), SMTT(60)
<1>8. \A x \in DOMAIN b.pool :
        b.pool[x].side = Opposite(order.side)
          => ~ Crosses(order.side, order.price, b.pool[x].price)
  <2>1. ~ \E p \in Prices : MayTradeAt(b, taker.side, taker.price, p)
    BY <1>2 DEF TakerMayTrade
  <2>2. \A x \in DOMAIN b.pool :
          b.pool[x].side = Opposite(taker.side)
            => ~ Crosses(taker.side, taker.price, b.pool[x].price)
    <3> HIDE DEF b
    <3> QED BY <1>3, <1>4, <2>1, NothingLeftToTrade, SMTT(30), SMTT(60)
  <2> QED BY <1>5, <2>2
<1> HIDE DEF order, b, id, t
<1>9. BookTypeOK(n) /\ Adds(b, n, id, order)
  BY <1>3, <1>4, <1>5, <1>7, InsertType, InsertAdds, SMTT(30), SMTT(60)
<1> HIDE DEF n
<1>10. BookConsistent(n)
  <2>1. order.remainingQuantity > 0 /\ order.remainingQuantity <= order.initialQuantity
    BY <1>2, <1>3, <1>5, MaxQtyAssumption, SMTT(30), SMTT(60) DEF Quantity
  <2> QED BY <1>3, <1>4, <1>5, <1>6, <1>7, <1>9, <2>1, AddsConsistent, SMTT(30), SMTT(60)
<1>11. Uncrossed(n)
  BY <1>3, <1>4, <1>5, <1>8, <1>9, AddsUncrossed, SMTT(30), SMTT(60)
<1>12. /\ DOMAIN books' = Tickers
       /\ \A u \in Tickers : BookTypeOK(books'[u])
       /\ BooksConsistent' /\ BooksUncrossed'
       /\ books'[t] = n
       /\ \A u \in Tickers : u # t => books'[u] = books[u]
  BY <1>1, <1>2, <1>3, <1>9, <1>10, <1>11, OneBookChanges
<1>13. marketUpdates' \in Seq(MEMarketUpdate)
  <2>1. Update(t, id, "ADD", taker.side, taker.price, taker.remaining,
               OrderId_INVALID, OrderId_INVALID) \in MEMarketUpdate
    BY <1>3, ZeroIsQuantity, UpdateType, SMTT(30), SMTT(60)
  <2> QED BY <2>1, SMTT(30), SMTT(60) DEF Rest, t, id
<1>14. TypeOK'
  BY <1>1, <1>2, <1>12, <1>13, SMTT(30), SMTT(60) DEF TypeOK
<1>15. TakerIsNew'
  BY <1>2 DEF TakerIsNew
<1>16. IndexedIdsKnown'
  <2>1. \A k \in DOMAIN n.orders : k \in DOMAIN b.orders \/ k = KeyOf(order)
    BY <1>9 DEF Adds
  <2>2. KeyOf(order)[2] <= Len(id_to_token)
    BY <1>3, <1>5, <1>6, SMTT(30), SMTT(60)
  <2>3. \A k \in DOMAIN n.orders : k[2] <= Len(id_to_token)
    BY <2>1, <2>2, <1>1, <1>3 DEF IndexedIdsKnown, b
  <2> QED BY <2>3, <1>1, <1>2, <1>12, SMTT(30), SMTT(60) DEF IndexedIdsKnown
<1> QED BY <1>12, <1>14, <1>15, <1>16 DEF IInv

-----------------------------------------------------------------------------
(* The theorems.                                                           *)

(* Every step of the engine, and every stutter, preserves IInv.            *)
LEMMA NextIInv == IInv /\ [Next]_vars => IInv'
<1> SUFFICES ASSUME IInv, [Next]_vars PROVE IInv'
  OBVIOUS
<1>1. ASSUME NEW c \in Clients, NEW t \in Tickers, NEW ty \in OrderType,
             NEW s \in Side, NEW p \in Prices, NEW q \in Quantity,
             AddOrder(c, t, ty, s, p, q)
      PROVE  IInv'
  BY <1>1, AddOrderIInv
<1>2. ASSUME NEW coid \in DOMAIN id_to_token, NEW q \in Quantity,
             CancelOrder(coid, q)
      PROVE  IInv'
  BY <1>2, CancelOrderIInv
<1>3. ASSUME NEW coid \in DOMAIN id_to_token, NEW ty \in OrderType,
             NEW p \in Prices, NEW q \in Quantity, ReplaceOrder(coid, ty, p, q)
      PROVE  IInv'
  BY <1>3, ReplaceOrderIInv
<1>4. CASE Fill
  BY <1>4, FillIInv DEF Fill
<1>5. CASE Filled
  BY <1>5, TakerDroppedIInv, SMTT(30), SMTT(60) DEF Filled
<1>6. CASE Rest
  BY <1>6, RestIInv
<1>7. CASE Kill
  BY <1>7, KillIInv
<1>8. CASE UNCHANGED vars
  <2>1. TypeOK'
    BY <1>8 DEF IInv, TypeOK, vars
  <2>2. BooksConsistent' /\ BooksUncrossed' /\ IndexedIdsKnown'
    BY <1>8 DEF IInv, BooksConsistent, BooksUncrossed, IndexedIdsKnown, vars
  <2>3. TakerIsNew'
    BY <1>8 DEF IInv, TakerIsNew, vars
  <2> QED BY <2>1, <2>2, <2>3 DEF IInv
<1> QED BY <1>1, <1>2, <1>3, <1>4, <1>5, <1>6, <1>7, <1>8 DEF Next, Request, Handler

(* The engine's state is well typed and its books are consistent and       *)
(* uncrossed in every reachable state, with the strengthening that makes   *)
(* this inductive.                                                         *)
THEOREM EngineInvariant == Spec => []IInv
BY InitIInv, NextIInv, PTL DEF Spec

(* Every variable of the engine keeps its type.                            *)
THEOREM EngineTypeCorrect == Spec => []TypeOK
<1>1. IInv => TypeOK
  BY DEF IInv
<1> QED BY <1>1, EngineInvariant, PTL

(* After every step of every handler, pool, levels and index of each book  *)
(* agree, levels are in order of arrival, and nothing exhausted rests.     *)
THEOREM EngineBooksConsistent == Spec => []BooksConsistent
<1>1. IInv => BooksConsistent
  BY SMTT(30), SMTT(60) DEF IInv
<1> QED BY <1>1, EngineInvariant, PTL

(* No book is ever crossed, not even while a request is being matched.     *)
THEOREM EngineBooksUncrossed == Spec => []BooksUncrossed
<1>1. IInv => BooksUncrossed
  BY DEF IInv
<1> QED BY <1>1, EngineInvariant, PTL

-----------------------------------------------------------------------------
(* Price-time priority.                                                    *)

(* A step that publishes no trade says nothing about priority.             *)
LEMMA NoTrade ==
  ASSUME NEW u, u.type # "TRADE", marketUpdates' = <<>> \/ marketUpdates' = <<u>>
  PROVE  TradesBestFirst
<1>1. CASE marketUpdates' = <<>>
  BY <1>1, SMTT(30), SMTT(60) DEF TradesBestFirst
<1>2. CASE marketUpdates' = <<u>>
  BY <1>2, SMTT(30), SMTT(60) DEF TradesBestFirst
<1> QED BY <1>1, <1>2

(* The head of the best level is first in line: no order of its side beats *)
(* it on price, nor on arrival at the same price.                          *)
LEMMA HeadFirstInLine ==
  ASSUME NEW b, BookTypeOK(b), BookConsistent(b), NEW s \in Side, NEW p \in Prices,
         IsBestPrice(b, s, p)
  PROVE  LET id == Head(LevelAt(b, s, p))
         IN  /\ id \in DOMAIN b.pool /\ id \in Nat /\ b.pool[id] \in MEOrder
             /\ b.pool[id].side = s /\ b.pool[id].price = p
             /\ \A x \in DOMAIN b.pool :
                  b.pool[x].side = s =>
                    /\ NotWorse(s, p, b.pool[x].price)
                    /\ b.pool[x].price = p => id <= x
<1> DEFINE id == Head(LevelAt(b, s, p))
<1>1. LevelAt(b, s, p) # <<>>
  BY DEF IsBestPrice
<1>2. /\ id \in DOMAIN b.pool /\ id \in Nat /\ b.pool[id] \in MEOrder
      /\ b.pool[id].side = s /\ b.pool[id].price = p
      /\ \A x \in DOMAIN b.pool :
           b.pool[x].side = s /\ b.pool[x].price = p => id <= x
  BY <1>1, HeadOfLevel
<1>3. ASSUME NEW x \in DOMAIN b.pool, b.pool[x].side = s
      PROVE  NotWorse(s, p, b.pool[x].price)
  <2>1. PICK q \in Prices : q = b.pool[x].price
    BY DEF BookTypeOK, MEOrder
  <2>2. PICK j \in 1 .. Len(LevelAt(b, s, q)) : LevelAt(b, s, q)[j] = x
    BY <1>3, <2>1, SMTT(30), SMTT(60) DEF BookConsistent, AllocatedIsListed
  <2>3. LevelAt(b, s, q) \in Seq(Nat)
    BY LevelType
  <2>4. LevelAt(b, s, q) # <<>>
    BY <2>2, <2>3, NoElements, SMTT(30), SMTT(60)
  <2> QED BY <2>1, <2>4, SMTT(30), SMTT(60) DEF IsBestPrice
<1> HIDE DEF id
<1> QED BY <1>2, <1>3 DEF id

(* One iteration of match takes the oldest order at the best price.        *)
LEMMA FillBestFirst ==
  ASSUME IInv, NEW p \in Prices, FillAt(p)
  PROVE  TradesBestFirst
<1> DEFINE t == taker.ticker
           b == books[t]
           s == Opposite(taker.side)
           id == Head(LevelAt(b, s, p))
           order == b.pool[id]
<1>1. /\ taker # NoTaker /\ IsBestPrice(b, s, p)
      /\ \E fill : marketUpdates' = <<Update(t, id, "TRADE", order.side, order.price,
                                             fill, OrderId_INVALID, next_match_id)>>
  BY DEF FillAt, TakerMayTrade, MayTradeAt
<1>2. TypeOK /\ BooksConsistent /\ t \in Tickers
  BY <1>1, TakerType DEF IInv
<1>3. BookTypeOK(b) /\ BookConsistent(b)
  BY <1>2 DEF TypeOK, BooksConsistent
<1>4. s \in Side
  BY DEF Opposite, Side
<1> HIDE DEF t, b, s
<1>5. /\ id \in DOMAIN b.pool /\ order.side = s /\ order.price = p
      /\ \A x \in DOMAIN b.pool :
           b.pool[x].side = s =>
             /\ NotWorse(s, p, b.pool[x].price)
             /\ b.pool[x].price = p => id <= x
  <2>1. IsBestPrice(b, s, p)
    BY <1>1
  <2>2. \A x \in DOMAIN b.pool :
          b.pool[x].side = s =>
            /\ NotWorse(s, p, b.pool[x].price)
            /\ b.pool[x].price = p => id <= x
    BY <1>3, <1>4, <2>1, HeadFirstInLine, SMTT(30), SMTT(60)
  <2>3. id \in DOMAIN b.pool /\ order.side = s /\ order.price = p
    BY <1>3, <1>4, <2>1, HeadFirstInLine, SMTT(30), SMTT(60)
  <2> QED BY <2>2, <2>3
<1> HIDE DEF id, order
<1>6. PICK fill : marketUpdates' = <<Update(t, id, "TRADE", order.side, order.price,
                                            fill, OrderId_INVALID, next_match_id)>>
  BY <1>1
<1>7. /\ Len(marketUpdates') = 1
      /\ marketUpdates'[1].ticker_id = t
      /\ marketUpdates'[1].market_order_id = id
      /\ marketUpdates'[1].side = s
      /\ marketUpdates'[1].price = p
  BY <1>5, <1>6 DEF Update
<1>8. \A i \in 1 .. Len(marketUpdates') : i = 1
  BY <1>7, SMTT(30), SMTT(60)
<1>9. ASSUME NEW i \in 1 .. Len(marketUpdates')
      PROVE  LET u == marketUpdates'[i]
                 k == books[u.ticker_id]
             IN  /\ u.market_order_id \in DOMAIN k.pool
                 /\ \A x \in DOMAIN k.pool :
                      k.pool[x].side = u.side =>
                        /\ NotWorse(u.side, u.price, k.pool[x].price)
                        /\ k.pool[x].price = u.price => u.market_order_id <= x
  <2>1. i = 1
    BY <1>8
  <2> QED BY <2>1, <1>5, <1>7 DEF b
<1> QED BY <1>9 DEF TradesBestFirst


(* A step publishes no other trade.                                        *)
LEMMA NextBestFirst ==
  ASSUME IInv, Next
  PROVE  TradesBestFirst
<1>1. ASSUME NEW c \in Clients, NEW t \in Tickers, NEW ty \in OrderType,
             NEW s \in Side, NEW p \in Prices, NEW q \in Quantity,
             AddOrder(c, t, ty, s, p, q)
      PROVE  TradesBestFirst
  <2>1. [type |-> "ADD"].type # "TRADE"
    OBVIOUS
  <2> QED BY <1>1, <2>1, NoTrade DEF AddOrder
<1>2. ASSUME NEW coid \in DOMAIN id_to_token, NEW q \in Quantity,
             CancelOrder(coid, q)
      PROVE  TradesBestFirst
  <2> DEFINE c == id_to_token[coid].clientId
             t == id_to_token[coid].tickerId
             id == books[t].orders[<<c, coid>>]
             order == books[t].pool[id]
             canceled == IF q = 0 THEN order.remainingQuantity ELSE q
  <2> DEFINE u == Update(t, id, "CANCEL", order.side, order.price, canceled,
                         OrderId_INVALID, OrderId_INVALID)
  <2>1. u.type = "CANCEL"
    <3> HIDE DEF t, id, order, canceled
    <3> QED BY DEF Update
  <2>2. marketUpdates' = <<>> \/ marketUpdates' = <<u>>
    BY <1>2 DEF CancelOrder
  <2> HIDE DEF u
  <2> QED BY <2>1, <2>2, NoTrade
<1>3. ASSUME NEW coid \in DOMAIN id_to_token, NEW ty \in OrderType,
             NEW p \in Prices, NEW q \in Quantity, ReplaceOrder(coid, ty, p, q)
      PROVE  TradesBestFirst
  <2> DEFINE c == id_to_token[coid].clientId
             t == id_to_token[coid].tickerId
             oldId == books[t].orders[<<c, coid>>]
  <2> DEFINE u == Update(t, oldId, "MODIFY", books[t].pool[oldId].side, p, q,
                         books[t].nextMarketOrderId, OrderId_INVALID)
  <2>1. u.type = "MODIFY"
    <3> HIDE DEF t, oldId
    <3> QED BY DEF Update
  <2>2. marketUpdates' = <<>> \/ marketUpdates' = <<u>>
    BY <1>3 DEF ReplaceOrder
  <2> HIDE DEF u
  <2> QED BY <2>1, <2>2, NoTrade
<1>4. CASE Fill
  BY <1>4, FillBestFirst DEF Fill
<1>5. CASE Filled
  <2>1. [type |-> "ADD"].type # "TRADE"
    OBVIOUS
  <2> QED BY <1>5, <2>1, NoTrade DEF Filled
<1>6. CASE Rest
  <2> DEFINE u == Update(taker.ticker, taker.marketOrderId, "ADD", taker.side,
                         taker.price, taker.remaining, OrderId_INVALID,
                         OrderId_INVALID)
  <2>1. u.type = "ADD"
    BY DEF Update
  <2>2. marketUpdates' = <<>> \/ marketUpdates' = <<u>>
    BY <1>6 DEF Rest
  <2> HIDE DEF u
  <2> QED BY <2>1, <2>2, NoTrade
<1>7. CASE Kill
  <2> DEFINE u == Update(taker.ticker, taker.marketOrderId, "CANCEL", taker.side,
                         taker.price, taker.remaining, OrderId_INVALID,
                         OrderId_INVALID)
  <2>1. u.type = "CANCEL"
    BY DEF Update
  <2>2. marketUpdates' = <<>> \/ marketUpdates' = <<u>>
    BY <1>7 DEF Kill
  <2> HIDE DEF u
  <2> QED BY <2>1, <2>2, NoTrade
<1> QED BY <1>1, <1>2, <1>3, <1>4, <1>5, <1>6, <1>7 DEF Next, Request, Handler

(* Every trade of every request takes the resting order that no other one  *)
(* of that side beats on price, nor on arrival at the same price.          *)
THEOREM EnginePriceTimePriority == Spec => PriceTimePriority
BY NextBestFirst, EngineInvariant, PTL DEF Spec, PriceTimePriority

-----------------------------------------------------------------------------
(* What the abstract book sees of the operations on a book.                *)

(* The abstract book's maps are the engine's.                              *)
LEMMA MapsShown ==
  ASSUME NEW m, NEW k, NEW v
  PROVE  /\ Abstract!Assign(m, k, v) = Assign(m, k, v)
         /\ Abstract!Erase(m, k) = Erase(m, k)
         /\ Abstract!EmptyMap = EmptyMap
BY DEF Abstract!Assign, Abstract!Erase, Abstract!Restrict, Abstract!EmptyMap, Assign,
   Erase, Restrict, EmptyMap

(* remove takes the order from the resting ones.                           *)
LEMMA DropsShown ==
  ASSUME NEW b, NEW n, NEW id, Drops(b, n, id)
  PROVE  RestingIn(n) = Erase(RestingIn(b), id)
<1>1. /\ DOMAIN n.pool = DOMAIN b.pool \ {id}
      /\ \A x \in DOMAIN n.pool : n.pool[x] = b.pool[x]
  BY DEF Drops
<1> QED BY <1>1 DEF RestingIn, Erase, Restrict

(* SetRemaining leaves the quantity it is given, as Leave does.            *)
LEMMA SetRemainingShown ==
  ASSUME NEW b, BookTypeOK(b), NEW id \in DOMAIN b.pool, NEW qty \in Quantity
  PROVE  RestingIn(SetRemaining(b, id, qty)) =
           IF qty = 0 THEN Erase(RestingIn(b), id)
           ELSE Assign(RestingIn(b), id, [RestingIn(b)[id] EXCEPT !.left = qty])
<1>1. CASE qty = 0
  BY <1>1, RemoveDrops, DropsShown, SMTT(30), SMTT(60) DEF SetRemaining
<1>2. CASE qty # 0
  <2> DEFINE n == SetRemaining(b, id, qty)
             shown == RestingIn(b)
             left == [shown[id] EXCEPT !.left = qty]
  <2>1. /\ DOMAIN n.pool = DOMAIN b.pool
        /\ n.pool[id] = [b.pool[id] EXCEPT !.remainingQuantity = qty]
        /\ \A x \in DOMAIN b.pool : x # id => n.pool[x] = b.pool[x]
    BY <1>2, SetRemainingMarks, SMTT(30), SMTT(60) DEF Marks
  <2>2. b.pool[id] \in MEOrder
    BY DEF BookTypeOK
  <2>3. /\ n.pool[id].clientId = b.pool[id].clientId
        /\ n.pool[id].side = b.pool[id].side
        /\ n.pool[id].price = b.pool[id].price
        /\ n.pool[id].remainingQuantity = qty
    BY <2>1, <2>2 DEF MEOrder
  <2>4. left = [client |-> b.pool[id].clientId, side |-> b.pool[id].side,
                price |-> b.pool[id].price, left |-> qty]
    BY SMTT(30), SMTT(60) DEF RestingIn
  <2> HIDE DEF n, left
  <2>5. RestingIn(n) = Assign(RestingIn(b), id, left)
    BY <2>1, <2>3, <2>4 DEF RestingIn, Assign
  <2> QED BY <1>2, <2>5 DEF n, left
<1> QED BY <1>1, <1>2, SMTT(30), SMTT(60)

(* A step that changes one book changes the resting orders of one ticker.  *)
LEMMA OneBookShown ==
  ASSUME DOMAIN books = Tickers, NEW t \in Tickers, NEW n,
         books' = [books EXCEPT ![t] = n]
  PROVE  /\ AbstractResting' = [AbstractResting EXCEPT ![t] = RestingIn(n)]
         /\ AbstractResting[t] = RestingIn(books[t])
         /\ AbstractArrivals' =
              [AbstractArrivals EXCEPT ![t] = n.nextMarketOrderId]
         /\ AbstractArrivals[t] = books[t].nextMarketOrderId
BY DEF AbstractResting, AbstractArrivals

(* Lowering what remains of a resting order, and removing an exhausted     *)
(* one, is Leave.                                                          *)
LEMMA LeaveShown ==
  ASSUME DOMAIN books = Tickers, NEW t \in Tickers, BookTypeOK(books[t]),
         NEW id \in DOMAIN books[t].pool, NEW qty \in Quantity,
         books' = [books EXCEPT ![t] = SetRemaining(books[t], id, qty)]
  PROVE  Abstract!Leave(t, id, qty) /\ UNCHANGED AbstractArrivals
<1> DEFINE n == SetRemaining(books[t], id, qty)
           r == AbstractResting[t]
           fewer == [r[id] EXCEPT !.left = qty]
<1>1. /\ AbstractResting' = [AbstractResting EXCEPT ![t] = RestingIn(n)]
      /\ r = RestingIn(books[t])
      /\ AbstractArrivals' = [AbstractArrivals EXCEPT ![t] = n.nextMarketOrderId]
      /\ AbstractArrivals[t] = books[t].nextMarketOrderId
  BY OneBookShown
<1>2. RestingIn(n) = IF qty = 0 THEN Erase(r, id) ELSE Assign(r, id, fewer)
  BY <1>1, SetRemainingShown, SMTT(30), SMTT(60)
<1>3. n.nextMarketOrderId = books[t].nextMarketOrderId
  BY SetRemainingShrinks
<1>4. UNCHANGED AbstractArrivals
  BY <1>1, <1>3 DEF AbstractArrivals
<1> HIDE DEF n, fewer
<1>5. RestingIn(n) = IF qty = 0 THEN Abstract!Erase(r, id)
                     ELSE Abstract!Assign(r, id, fewer)
  <2> HIDE DEF r
  <2> QED BY <1>2, MapsShown
<1> QED BY <1>1, <1>4, <1>5 DEF Abstract!Leave, fewer

(* The order in hand as the abstract book sees it.                         *)
LEMMA HandMapped ==
  ASSUME NEW k \in Taker
  PROVE  /\ k # NoTaker
         /\ HandOf(k) = [ticker |-> k.ticker, id |-> k.marketOrderId,
                         client |-> k.clientId, side |-> k.side,
                         price |-> k.price, left |-> k.remaining,
                         kill |-> k.orderType = "FillAndKill"]
         /\ HandOf(k) # Abstract!NoOrder
         /\ HandOf(k) \in Abstract!Order
<1>1. k # NoTaker
  <2>1. "side" \in DOMAIN k
    BY DEF Taker
  <2>2. "side" \notin DOMAIN NoTaker
    BY DEF NoTaker
  <2> QED BY <2>1, <2>2
<1>2. HandOf(k) = [ticker |-> k.ticker, id |-> k.marketOrderId,
                   client |-> k.clientId, side |-> k.side,
                   price |-> k.price, left |-> k.remaining,
                   kill |-> k.orderType = "FillAndKill"]
  BY <1>1 DEF HandOf
<1>3. HandOf(k) # Abstract!NoOrder
  <2>1. "side" \in DOMAIN HandOf(k)
    BY <1>2, SMTT(30), SMTT(60)
  <2>2. "side" \notin DOMAIN Abstract!NoOrder
    BY DEF Abstract!NoOrder
  <2> QED BY <2>1, <2>2
<1>4. HandOf(k) \in Abstract!Order
  BY <1>2, SMTT(30), SMTT(60) DEF Abstract!Order, Taker, Side, Quantity
<1> QED BY <1>1, <1>2, <1>3, <1>4

(* Without an order in hand there is none in the abstract book.            *)
LEMMA NoHandShown == HandOf(NoTaker) = Abstract!NoOrder
BY DEF HandOf, NoTaker, Abstract!NoOrder

-----------------------------------------------------------------------------
(* Requests.                                                               *)

(* addOrder, up to its call of match, is an arrival.                       *)
LEMMA AddOrderRefines ==
  ASSUME IInv, NEW c \in Clients, NEW t \in Tickers, NEW orderType \in OrderType,
         NEW side \in Side, NEW price \in Prices, NEW qty \in Quantity,
         AddOrder(c, t, orderType, side, price, qty)
  PROVE  Abstract!Next
<1> DEFINE b == books[t]
           n == TakeMarketId(b)
<1>1. TypeOK /\ BookTypeOK(b)
  BY DEF IInv, TypeOK
<1>2. /\ n.pool = b.pool /\ n.nextMarketOrderId = b.nextMarketOrderId + 1
      /\ b.nextMarketOrderId \in Nat
  BY <1>1 DEF TakeMarketId, BookTypeOK
<1>3. /\ taker = NoTaker
      /\ books' = [books EXCEPT ![t] = n]
      /\ taker' = [ticker |-> t, clientId |-> c,
                   clientOrderId |-> Len(id_to_token) + 1,
                   marketOrderId |-> b.nextMarketOrderId,
                   orderType |-> orderType, side |-> side, price |-> price,
                   initialQuantity |-> qty, remaining |-> qty,
                   replacing |-> FALSE]
  BY DEF AddOrder
<1>4. Len(id_to_token) \in Nat /\ DOMAIN books = Tickers
  BY <1>1, SMTT(30), SMTT(60) DEF TypeOK
<1>5. taker' \in Taker /\ taker'.ticker = t /\ taker'.marketOrderId = b.nextMarketOrderId
  BY <1>2, <1>3, <1>4, SMTT(30), SMTT(60) DEF Taker
<1> HIDE DEF n
<1>6. /\ AbstractResting' = [AbstractResting EXCEPT ![t] = RestingIn(n)]
      /\ AbstractResting[t] = RestingIn(b)
      /\ AbstractArrivals' = [AbstractArrivals EXCEPT ![t] = n.nextMarketOrderId]
      /\ AbstractArrivals[t] = b.nextMarketOrderId
  BY <1>3, <1>4, OneBookShown
<1>7. RestingIn(n) = RestingIn(b)
  BY <1>2 DEF RestingIn
<1>8. UNCHANGED AbstractResting
  BY <1>6, <1>7 DEF AbstractResting
<1>9. /\ HandOf(taker') \in Abstract!Order
      /\ HandOf(taker').ticker = t /\ HandOf(taker').id = AbstractArrivals[t]
  BY <1>5, <1>6, HandMapped, SMTT(30), SMTT(60)
<1>10. AbstractArrivals' = [AbstractArrivals EXCEPT ![t] = @ + 1]
  BY <1>2, <1>6
<1>11. Abstract!Enter
  BY <1>8, <1>9, <1>10 DEF Abstract!Enter, Abstract!Arrive
<1> QED BY <1>3, <1>11, NoHandShown DEF Abstract!Next, Abstract!Request

(* cancelOrder rejects, and nothing is shown, or lowers what is left of    *)
(* the order it names.                                                     *)
LEMMA CancelOrderRefines ==
  ASSUME IInv, NEW coid \in DOMAIN id_to_token, NEW qty \in Quantity,
         CancelOrder(coid, qty)
  PROVE  Abstract!Next \/ UNCHANGED Abstract!bookVars
<1> DEFINE c == id_to_token[coid].clientId
           t == id_to_token[coid].tickerId
           b == books[t]
           id == b.orders[<<c, coid>>]
           order == b.pool[id]
           canceled == IF qty = 0 THEN order.remainingQuantity ELSE qty
           left == order.remainingQuantity - canceled
           n == SetRemaining(b, id, left)
<1>1. TypeOK /\ BooksConsistent
  BY DEF IInv
<1>2. coid \in Nat /\ c \in Clients /\ t \in Tickers
  BY <1>1, TokenType
<1>3. BookTypeOK(b) /\ BookConsistent(b)
  BY <1>1, <1>2 DEF TypeOK, BooksConsistent
<1>4. taker = NoTaker /\ UNCHANGED taker
  BY DEF CancelOrder
<1>5. CASE UNCHANGED books
  BY <1>4, <1>5 DEF Abstract!bookVars, AbstractResting, AbstractArrivals
<1>6. CASE /\ <<c, coid>> \in DOMAIN b.orders
           /\ canceled <= order.remainingQuantity
           /\ books' = [books EXCEPT ![t] = n]
  <2>1. id \in DOMAIN b.pool /\ id \in Nat /\ order \in MEOrder
    BY <1>3, <1>6, IndexedOrder
  <2>2. order.remainingQuantity \in Quantity /\ order.remainingQuantity > 0
    BY <1>3, <2>1 DEF MEOrder, BookConsistent, RestingQuantity
  <2> HIDE DEF t, b, id, order
  <2>3. canceled \in 1 .. MaxQty /\ canceled \in Quantity
    BY <2>2, MaxQtyAssumption, SMTT(30), SMTT(60) DEF Quantity
  <2> HIDE DEF canceled
  <2>4. left \in Quantity
    BY <1>6, <2>2, <2>3, QuantityMinus
  <2>5. /\ RestingIn(b)[id].left = order.remainingQuantity
        /\ id \in DOMAIN RestingIn(b)
    BY <2>1 DEF RestingIn, order
  <2>6. AbstractResting[t] = RestingIn(b)
    BY <1>2 DEF AbstractResting, b
  <2>7. Abstract!Leave(t, id, left) /\ UNCHANGED AbstractArrivals
    <3> HIDE DEF left
    <3> QED BY <1>1, <1>2, <1>3, <1>6, <2>1, <2>4, LeaveShown DEF TypeOK, b
  <2>8. Abstract!Leave(t, id, AbstractResting[t][id].left - canceled)
    BY <2>5, <2>6, <2>7, SMTT(30), SMTT(60)
  <2>9. Abstract!Cancel(t, id, canceled)
    BY <1>4, <1>6, <2>5, <2>6, <2>7, <2>8, SMTT(30), SMTT(60) DEF Abstract!Cancel
  <2> QED BY <1>2, <1>4, <2>3, <2>5, <2>6, <2>9, NoHandShown DEF Abstract!Next,
             Abstract!Request
<1> QED BY <1>5, <1>6 DEF CancelOrder

(* replaceOrder rejects, and nothing is shown, or takes the order off the  *)
(* book and lets its replacement arrive.                                   *)
LEMMA ReplaceOrderRefines ==
  ASSUME IInv, NEW coid \in DOMAIN id_to_token, NEW orderType \in OrderType,
         NEW price \in Prices, NEW qty \in Quantity,
         ReplaceOrder(coid, orderType, price, qty)
  PROVE  Abstract!Next \/ UNCHANGED Abstract!bookVars
<1> DEFINE c == id_to_token[coid].clientId
           t == id_to_token[coid].tickerId
           b == books[t]
           oldId == b.orders[<<c, coid>>]
           side == b.pool[oldId].side
           newId == b.nextMarketOrderId
<1>1. TypeOK /\ BooksConsistent /\ taker = NoTaker
  BY DEF IInv, ReplaceOrder
<1>2. coid \in Nat /\ c \in Clients /\ t \in Tickers
  BY <1>1, TokenType, SMTT(30), SMTT(60)
<1>3. BookTypeOK(b) /\ BookConsistent(b) /\ newId \in Nat /\ DOMAIN books = Tickers
  BY <1>1, <1>2, SMTT(30), SMTT(60) DEF TypeOK, BooksConsistent, BookTypeOK
<1>4. CASE UNCHANGED <<books, taker>>
  BY <1>4 DEF Abstract!bookVars, AbstractResting, AbstractArrivals
<1>5. CASE <<c, coid>> \in DOMAIN b.orders /\ qty # 0
  <2> DEFINE r == remove(b, oldId)
             n == TakeMarketId(r)
  <2>1. /\ books' = [books EXCEPT ![t] = n]
        /\ taker' = [ticker |-> t, clientId |-> c,
                     clientOrderId |-> Len(id_to_token) + 1,
                     marketOrderId |-> newId, orderType |-> orderType,
                     side |-> side, price |-> price, initialQuantity |-> qty,
                     remaining |-> qty, replacing |-> TRUE]
    BY <1>5 DEF ReplaceOrder
  <2>2. oldId \in DOMAIN b.pool /\ b.pool[oldId] \in MEOrder
    BY <1>3, <1>5, IndexedOrder, SMTT(30), SMTT(60)
  <2>3. b.pool[oldId].clientId = c
    BY <1>3, <1>5 DEF BookConsistent, IndexFindsOrders, KeyOf
  <2>4. side \in Side /\ Len(id_to_token) \in Nat
    <3>1. side \in Side
      BY <2>2 DEF MEOrder
    <3>2. Len(id_to_token) \in Nat
      BY <1>1, SMTT(30), SMTT(60) DEF TypeOK
    <3> QED BY <3>1, <3>2
  <2> HIDE DEF c, t, b, oldId, side, newId
  <2>5. /\ taker' \in Taker /\ taker'.ticker = t /\ taker'.clientId = c
        /\ taker'.side = side /\ taker'.remaining = qty
        /\ taker'.marketOrderId = newId
    BY <1>2, <1>3, <2>1, <2>4, SMTT(30), SMTT(60) DEF Taker
  <2>6. Drops(b, r, oldId) /\ BookTypeOK(r)
    BY <1>3, <2>2, RemoveDrops, RemoveType, SMTT(30), SMTT(60)
  <2>7. RestingIn(r) = Erase(RestingIn(b), oldId) /\ r.nextMarketOrderId = newId
    <3>1. RestingIn(r) = Erase(RestingIn(b), oldId)
      BY <2>6, DropsShown, Zenon
    <3>2. r.nextMarketOrderId = b.nextMarketOrderId
      BY <2>6, Zenon DEF Drops
    <3> QED BY <3>1, <3>2, Zenon DEF newId
  <2> HIDE DEF r
  <2>8. n.pool = r.pool /\ n.nextMarketOrderId = newId + 1
    BY <2>6, <2>7 DEF TakeMarketId, BookTypeOK
  <2> HIDE DEF n
  <2>9. RestingIn(n) = Abstract!Erase(RestingIn(b), oldId)
    BY <2>7, <2>8, MapsShown DEF RestingIn
  <2>10. /\ AbstractResting' = [AbstractResting EXCEPT ![t] = RestingIn(n)]
         /\ AbstractResting[t] = RestingIn(b)
         /\ AbstractArrivals' = [AbstractArrivals EXCEPT ![t] = newId + 1]
         /\ AbstractArrivals[t] = newId
    <3>1. /\ AbstractResting' = [AbstractResting EXCEPT ![t] = RestingIn(n)]
          /\ AbstractResting[t] = RestingIn(books[t])
          /\ AbstractArrivals' =
               [AbstractArrivals EXCEPT ![t] = n.nextMarketOrderId]
          /\ AbstractArrivals[t] = books[t].nextMarketOrderId
      BY <1>2, <1>3, <2>1, OneBookShown
    <3> QED BY <2>8, <3>1 DEF b, newId
  <2>11. /\ HandOf(taker') \in Abstract!Order
         /\ HandOf(taker').ticker = t /\ HandOf(taker').id = newId
         /\ HandOf(taker').client = c /\ HandOf(taker').side = side
         /\ HandOf(taker').left = qty
    BY <2>5, HandMapped, SMTT(30), SMTT(60)
  <2>12. Abstract!Arrive
    BY <2>10, <2>11 DEF Abstract!Arrive
  <2>13. /\ oldId \in DOMAIN RestingIn(b)
         /\ RestingIn(b)[oldId].client = c /\ RestingIn(b)[oldId].side = side
    BY <2>2, <2>3 DEF RestingIn, side
  <2>14. qty > 0
    BY <1>5, MaxQtyAssumption, SMTT(30), SMTT(60) DEF Quantity
  <2>15. Abstract!Replace(t, oldId)
    BY <2>9, <2>10, <2>11, <2>12, <2>13, <2>14 DEF Abstract!Replace
  <2> QED BY <1>1, <1>2, <2>10, <2>13, <2>15, NoHandShown, SMTT(30), SMTT(60)
          DEF Abstract!Next, Abstract!Request
<1> QED BY <1>4, <1>5 DEF ReplaceOrder

-----------------------------------------------------------------------------
(* match and what follows it.                                              *)

(* The test of match's loop is the abstract book's.                        *)
LEMMA CrossesShown ==
  ASSUME NEW s \in Side, NEW other \in Side, NEW price \in Prices, NEW p \in Prices
  PROVE  other # s /\ ~Abstract!Better(other, price, p)
           <=> other = Opposite(s) /\ Crosses(s, price, p)
<1>1. price \in Nat /\ p \in Nat
  BY PricesAssumption
<1> QED BY <1>1, SMTT(30), SMTT(60) DEF Abstract!Better, Crosses, Opposite, Side

(* So is the order of the price levels.                                    *)
LEMMA NotWorseShown ==
  ASSUME NEW s \in Side, NEW p \in Prices, NEW q \in Prices, NotWorse(s, p, q)
  PROVE  ~Abstract!Better(s, q, p)
<1>1. p \in Nat /\ q \in Nat
  BY PricesAssumption
<1> QED BY <1>1, SMTT(30), SMTT(60) DEF Abstract!Better, NotWorse, Side

(* The handler's order, its book, and what the abstract book sees of them. *)
LEMMA MatchedShown ==
  ASSUME IInv, taker # NoTaker
  PROVE  LET t == taker.ticker
             b == books[t]
             h == HandOf(taker)
         IN  /\ taker \in Taker /\ t \in Tickers /\ DOMAIN books = Tickers
             /\ BookTypeOK(b) /\ BookConsistent(b)
             /\ taker.side \in Side /\ taker.price \in Prices
             /\ taker.remaining \in Quantity
             /\ h # Abstract!NoOrder
             /\ h = [ticker |-> t, id |-> taker.marketOrderId,
                     client |-> taker.clientId, side |-> taker.side,
                     price |-> taker.price, left |-> taker.remaining,
                     kill |-> taker.orderType = "FillAndKill"]
             /\ AbstractResting[t] = RestingIn(b)
<1>1. TypeOK /\ BooksConsistent
  BY DEF IInv
<1>2. taker \in Taker
  BY <1>1 DEF TypeOK
<1>3. /\ taker.ticker \in Tickers /\ taker.side \in Side /\ taker.price \in Prices
      /\ taker.remaining \in Quantity
  BY <1>2 DEF Taker
<1>4. /\ DOMAIN books = Tickers
      /\ BookTypeOK(books[taker.ticker]) /\ BookConsistent(books[taker.ticker])
  BY <1>1, <1>3, SMTT(30), SMTT(60) DEF TypeOK, BooksConsistent
<1>5. AbstractResting[taker.ticker] = RestingIn(books[taker.ticker])
  BY <1>3, SMTT(30), SMTT(60) DEF AbstractResting
<1> QED BY <1>2, <1>3, <1>4, <1>5, HandMapped

(* One iteration of the loop is a trade with the first order in line.      *)
LEMMA FillRefines ==
  ASSUME IInv, NEW p \in Prices, FillAt(p)
  PROVE  Abstract!Next
<1> DEFINE t == taker.ticker
           b == books[t]
           s == Opposite(taker.side)
           id == Head(LevelAt(b, s, p))
           h == HandOf(taker)
           r == AbstractResting[t]
           q == b.pool[id].remainingQuantity
           fill == IF taker.remaining <= q THEN taker.remaining ELSE q
<1>1. /\ taker # NoTaker /\ taker.remaining > 0
      /\ IsBestPrice(b, s, p) /\ Crosses(taker.side, taker.price, p)
      /\ books' = [books EXCEPT ![t] = SetRemaining(b, id, q - fill)]
      /\ taker' = [taker EXCEPT !.remaining = taker.remaining - fill]
  BY DEF FillAt, TakerMayTrade, MayTradeAt
<1>2. /\ taker \in Taker /\ t \in Tickers /\ DOMAIN books = Tickers
      /\ BookTypeOK(b) /\ BookConsistent(b)
      /\ taker.side \in Side /\ taker.price \in Prices /\ taker.remaining \in Quantity
      /\ h # Abstract!NoOrder
      /\ h = [ticker |-> t, id |-> taker.marketOrderId, client |-> taker.clientId,
              side |-> taker.side, price |-> taker.price, left |-> taker.remaining,
              kill |-> taker.orderType = "FillAndKill"]
      /\ r = RestingIn(b)
  BY <1>1, MatchedShown
<1>3. s \in Side
  BY DEF Opposite, Side
<1> HIDE DEF t, b, s, h, r
<1>4. /\ id \in DOMAIN b.pool /\ b.pool[id] \in MEOrder
      /\ b.pool[id].side = s /\ b.pool[id].price = p
      /\ \A x \in DOMAIN b.pool :
           b.pool[x].side = s =>
             NotWorse(s, p, b.pool[x].price) /\ (b.pool[x].price = p => id <= x)
  BY <1>1, <1>2, <1>3, HeadFirstInLine, SMTT(30), SMTT(60)
<1> HIDE DEF id
<1>5. q \in Quantity
  BY <1>4 DEF MEOrder
<1> HIDE DEF q
<1>6. /\ q - fill \in Quantity /\ taker.remaining - fill \in Quantity
      /\ fill \in Quantity
  BY <1>2, <1>5, FillQuantity
<1> HIDE DEF fill
<1>7. /\ DOMAIN r = DOMAIN b.pool
      /\ \A x \in DOMAIN b.pool : r[x].side = b.pool[x].side
                                  /\ r[x].price = b.pool[x].price
                                  /\ r[x].left = b.pool[x].remainingQuantity
  BY <1>2 DEF RestingIn
<1>8. \A x \in DOMAIN b.pool : b.pool[x].price \in Prices
  BY <1>2 DEF BookTypeOK, MEOrder
<1>9. h.ticker = t /\ h.side = taker.side /\ h.price = taker.price
      /\ h.left = taker.remaining
  BY <1>2
<1>10. Abstract!CrossesHand(id)
  <2>1. s # taker.side /\ ~Abstract!Better(s, taker.price, p)
    BY <1>1, <1>2, <1>3, CrossesShown DEF s
  <2> QED BY <1>1, <1>4, <1>7, <1>9, <2>1, SMTT(30), SMTT(60) DEF Abstract!CrossesHand, h, r, t
<1>11. Abstract!FirstInLine(t, id)
  <2>1. ASSUME NEW x \in DOMAIN r, r[x].side = r[id].side
        PROVE  /\ ~Abstract!Better(r[id].side, r[x].price, r[id].price)
               /\ r[x].price = r[id].price => id <= x
    BY <1>3, <1>4, <1>7, <1>8, <2>1, NotWorseShown, SMTT(30), SMTT(60)
  <2> QED BY <2>1 DEF Abstract!FirstInLine, r
<1>12. Abstract!Leave(t, id, q - fill) /\ UNCHANGED AbstractArrivals
  BY <1>1, <1>2, <1>4, <1>6, LeaveShown DEF b
<1>13. HandOf(taker') = [h EXCEPT !.left = h.left - fill]
  <2>1. taker' \in Taker
    BY <1>1, <1>2, <1>6 DEF Taker
  <2>2. HandOf(taker') = [ticker |-> taker'.ticker, id |-> taker'.marketOrderId,
                          client |-> taker'.clientId, side |-> taker'.side,
                          price |-> taker'.price, left |-> taker'.remaining,
                          kill |-> taker'.orderType = "FillAndKill"]
    BY <2>1, HandMapped, SMTT(30), SMTT(60)
  <2>3. /\ taker'.ticker = taker.ticker /\ taker'.clientId = taker.clientId
        /\ taker'.marketOrderId = taker.marketOrderId /\ taker'.side = taker.side
        /\ taker'.price = taker.price /\ taker'.orderType = taker.orderType
        /\ taker'.remaining = taker.remaining - fill
    BY <1>1, <1>2, SMTT(30), SMTT(60) DEF Taker
  <2> QED BY <1>2, <2>2, <2>3, SMTT(30), SMTT(60) DEF t
<1>14. Abstract!Trade(id)
  <2>1. r[id].left = q
    BY <1>4, <1>7, SMTT(30), SMTT(60) DEF q
  <2> QED BY <1>9, <1>10, <1>11, <1>12, <1>13, <2>1, SMTT(30), SMTT(60) DEF Abstract!Trade, h, r, t, fill
<1> QED BY <1>2, <1>4, <1>7, <1>9, <1>14, Zenon
        DEF Abstract!Next, Abstract!Match, h, r, t

(* When match returns, the order in hand crosses no resting order.         *)
LEMMA MatchReturnsShown ==
  ASSUME IInv, MatchReturns
  PROVE  \A id \in DOMAIN AbstractResting[HandOf(taker).ticker] :
           ~Abstract!CrossesHand(id)
<1> DEFINE t == taker.ticker
           b == books[t]
           h == HandOf(taker)
           r == AbstractResting[t]
<1>1. /\ DOMAIN books = Tickers /\ BookTypeOK(b) /\ BookConsistent(b)
      /\ taker.side \in Side /\ taker.price \in Prices /\ taker.remaining \in Quantity
      /\ h.ticker = t /\ h.side = taker.side /\ h.price = taker.price
      /\ h.left = taker.remaining
      /\ r = RestingIn(b)
  BY MatchedShown, SMTT(30), SMTT(60) DEF MatchReturns
<1>2. \/ ~(taker.remaining > 0)
      \/ ~ \E p \in Prices : MayTradeAt(b, taker.side, taker.price, p)
  BY SMTT(30), SMTT(60) DEF MatchReturns, TakerMayTrade
<1> HIDE DEF b, h, r, t
<1>3. /\ DOMAIN r = DOMAIN b.pool
      /\ \A x \in DOMAIN b.pool : r[x].side = b.pool[x].side
                                  /\ r[x].price = b.pool[x].price
  BY <1>1, SMTT(30), SMTT(60) DEF RestingIn
<1>4. \A x \in DOMAIN b.pool : b.pool[x].price \in Prices /\ b.pool[x].side \in Side
  BY <1>1, SMTT(30), SMTT(60) DEF BookTypeOK, MEOrder
<1>5. ASSUME NEW x \in DOMAIN r, h.left > 0, r[x].side # h.side
      PROVE  Abstract!Better(r[x].side, h.price, r[x].price)
  <2>1. /\ b.pool[x].side = Opposite(taker.side)
          => ~Crosses(taker.side, taker.price, b.pool[x].price)
    BY <1>1, <1>2, <1>3, <1>5, NothingLeftToTrade
  <2> QED BY <1>1, <1>3, <1>4, <1>5, <2>1, CrossesShown, SMTT(30), SMTT(60)
<1> QED BY <1>1, <1>5, SMTT(30), SMTT(60) DEF Abstract!CrossesHand, h, r, t

(* Used up, killed or come to rest: the order in hand settles.             *)
LEMMA SettleShown ==
  ASSUME IInv, Filled \/ Kill \/ Rest
  PROVE  Abstract!Next
<1> DEFINE t == taker.ticker
           b == books[t]
           h == HandOf(taker)
<1>1. MatchReturns /\ taker # NoTaker /\ taker' = NoTaker
  BY DEF MatchReturns, Filled, Kill, Rest
<1>2. /\ t \in Tickers /\ DOMAIN books = Tickers
      /\ taker.remaining \in Quantity
      /\ h # Abstract!NoOrder
      /\ h = [ticker |-> t, id |-> taker.marketOrderId, client |-> taker.clientId,
              side |-> taker.side, price |-> taker.price, left |-> taker.remaining,
              kill |-> taker.orderType = "FillAndKill"]
  BY <1>1, MatchedShown
<1>3. h.ticker = t /\ h.left = taker.remaining /\ h.id = taker.marketOrderId
      /\ h.kill = (taker.orderType = "FillAndKill")
  BY <1>2, SMTT(30), SMTT(60)
<1>4. /\ AbstractResting' =
           IF h.left = 0 \/ h.kill THEN AbstractResting
           ELSE [AbstractResting EXCEPT ![t] =
                   Abstract!Assign(AbstractResting[t], h.id, Abstract!AtRest(h))]
      /\ UNCHANGED AbstractArrivals
  <2>1. CASE Filled \/ Kill
    <3>1. UNCHANGED books /\ (taker.remaining = 0 \/ taker.orderType = "FillAndKill")
      BY <2>1 DEF Filled, Kill
    <3> QED BY <1>3, <3>1 DEF AbstractResting, AbstractArrivals
  <2>2. CASE Rest
    <3> DEFINE order == [clientId |-> taker.clientId,
                         clientOrderId |-> taker.clientOrderId,
                         side |-> taker.side, price |-> taker.price,
                         initialQuantity |-> taker.remaining,
                         remainingQuantity |-> taker.remaining]
               n == insert(b, taker.marketOrderId, order)
    <3>1. /\ books' = [books EXCEPT ![t] = n]
          /\ taker.remaining > 0 /\ taker.orderType = "GoodTillCancel"
      BY <2>2 DEF Rest
    <3>2. h.left # 0 /\ ~h.kill
      <4> HIDE DEF h, t, n
      <4>1. taker.remaining # 0
        BY <3>1, SMTT(30), SMTT(60)
      <4> QED BY <1>3, <3>1, <4>1
    <3>3. /\ n.pool = Assign(b.pool, h.id, order)
          /\ n.nextMarketOrderId = b.nextMarketOrderId
      BY <1>3, Zenon DEF insert
    <3>4. Abstract!AtRest(h) = [client |-> order.clientId, side |-> order.side,
                                price |-> order.price,
                                left |-> order.remainingQuantity]
      BY <1>2, SMTT(30), SMTT(60) DEF Abstract!AtRest
    <3> HIDE DEF order, n, h
    <3>5. RestingIn(n) = Assign(RestingIn(b), h.id, Abstract!AtRest(h))
      BY <3>3, <3>4 DEF RestingIn, Assign
    <3> HIDE DEF t, b
    <3>6. RestingIn(n) = Abstract!Assign(RestingIn(b), h.id, Abstract!AtRest(h))
      BY <3>5, MapsShown, SMTT(30), SMTT(60)
    <3>7. /\ AbstractResting' = [AbstractResting EXCEPT ![t] = RestingIn(n)]
          /\ AbstractResting[t] = RestingIn(b)
          /\ AbstractArrivals' = [AbstractArrivals EXCEPT ![t] = b.nextMarketOrderId]
          /\ AbstractArrivals[t] = b.nextMarketOrderId
      <4>1. /\ AbstractResting' = [AbstractResting EXCEPT ![t] = RestingIn(n)]
            /\ AbstractResting[t] = RestingIn(books[t])
            /\ AbstractArrivals' =
                 [AbstractArrivals EXCEPT ![t] = n.nextMarketOrderId]
            /\ AbstractArrivals[t] = books[t].nextMarketOrderId
        BY <1>2, <3>1, OneBookShown
      <4> QED BY <3>3, <4>1, SMTT(30), SMTT(60) DEF b
    <3>8. UNCHANGED AbstractArrivals
      BY <3>7, SMTT(30), SMTT(60) DEF AbstractArrivals
    <3> QED BY <3>2, <3>6, <3>7, <3>8
  <2> QED BY <2>1, <2>2
<1>5. Abstract!Settle
  <2>1. HandOf(taker') = Abstract!NoOrder
    BY <1>1, NoHandShown, SMTT(30), SMTT(60)
  <2> HIDE DEF t
  <2> QED BY <1>1, <1>3, <1>4, <2>1, MatchReturnsShown, SMTT(30), SMTT(60) DEF Abstract!Settle
<1> QED BY <1>2, <1>5 DEF Abstract!Next, Abstract!Match

-----------------------------------------------------------------------------
(* The refinement.                                                         *)

(* The engine starts with what the abstract book starts with.              *)
LEMMA InitShown == Init => Abstract!Init
<1> SUFFICES ASSUME Init PROVE Abstract!Init
  OBVIOUS
<1>1. /\ taker = NoTaker
      /\ \A t \in Tickers : books[t].pool = EmptyMap /\ books[t].nextMarketOrderId = 1
  BY DEF Init, EmptyBook
<1>2. \A t \in Tickers : RestingIn(books[t]) = EmptyMap
  BY <1>1, SMTT(30), SMTT(60) DEF RestingIn, EmptyMap
<1>3. AbstractResting = [t \in Tickers |-> Abstract!EmptyMap]
  BY <1>2, MapsShown, SMTT(30), SMTT(60) DEF AbstractResting
<1>4. AbstractArrivals = [t \in Tickers |-> 1]
  BY <1>1, SMTT(30), SMTT(60) DEF AbstractArrivals
<1> QED BY <1>1, <1>3, <1>4, NoHandShown, SMTT(30), SMTT(60) DEF Abstract!Init

(* Every step of the engine is a step of the abstract book or changes      *)
(* nothing that book shows.                                                *)
LEMMA NextShown ==
  IInv /\ [Next]_vars => [Abstract!Next]_(Abstract!bookVars)
<1> SUFFICES ASSUME IInv, [Next]_vars
             PROVE  Abstract!Next \/ UNCHANGED Abstract!bookVars
  OBVIOUS
<1>1. ASSUME NEW c \in Clients, NEW t \in Tickers, NEW ty \in OrderType,
             NEW s \in Side, NEW p \in Prices, NEW q \in Quantity,
             AddOrder(c, t, ty, s, p, q)
      PROVE  Abstract!Next
  BY <1>1, AddOrderRefines, SMTT(30), SMTT(60)
<1>2. ASSUME NEW coid \in DOMAIN id_to_token, NEW q \in Quantity,
             CancelOrder(coid, q)
      PROVE  Abstract!Next \/ UNCHANGED Abstract!bookVars
  BY <1>2, CancelOrderRefines, SMTT(30), SMTT(60)
<1>3. ASSUME NEW coid \in DOMAIN id_to_token, NEW ty \in OrderType,
             NEW p \in Prices, NEW q \in Quantity, ReplaceOrder(coid, ty, p, q)
      PROVE  Abstract!Next \/ UNCHANGED Abstract!bookVars
  BY <1>3, ReplaceOrderRefines, SMTT(30), SMTT(60)
<1>4. ASSUME NEW p \in Prices, FillAt(p)
      PROVE  Abstract!Next
  BY <1>4, FillRefines, SMTT(30), SMTT(60)
<1>5. CASE Filled \/ Kill \/ Rest
  BY <1>5, SettleShown, SMTT(30), SMTT(60)
<1>6. CASE UNCHANGED vars
  BY <1>6, SMTT(30), SMTT(60) DEF vars, Abstract!bookVars, AbstractResting, AbstractArrivals
<1> QED BY <1>1, <1>2, <1>3, <1>4, <1>5, <1>6, SMTT(30), SMTT(60) DEF Next, Request, Handler, Fill

(* addOrder, cancelOrder, replaceOrder and match over the map book have    *)
(* the semantics of the abstract book, for any clients, tickers, prices    *)
(* and quantities: price-time priority with partial fills, a replacement   *)
(* at the back of its queue, and a remainder that rests or is killed only  *)
(* once nothing is left to trade it with.                                  *)
THEOREM EngineImplementsPriceTimeBook == Spec => ImplementsPriceTimeBook
<1>1. Spec => []IInv
  BY EngineInvariant
<1> QED BY <1>1, InitShown, NextShown, PTL DEF Spec, ImplementsPriceTimeBook, Abstract!Safety
=============================================================================
