------------------------- MODULE VectorEngineProofs -------------------------
(***************************************************************************)
(* The engine over the vector book, for every set of clients, tickers and  *)
(* prices, every bound on quantities and every number of order ids: the    *)
(* pointers of the book always describe its orders.                        *)
(*                                                                         *)
(* IsList is local: it relates each node to its neighbours.  So linking or *)
(* unlinking one node is a matter of the two nodes beside it, and only the *)
(* walk of insertPricelevel needs an argument along the list.              *)
(***************************************************************************)
EXTENDS VectorEngine, WellFoundedInduction, TLAPS

(* Leaves are for Zenon unless they name another prover.                   *)
USE ZenonT(60)

-----------------------------------------------------------------------------
(* Doubly linked lists of numbers.                                         *)

(* No order id and no price is the null pointer.                           *)
LEMMA NullIsNoNode == nullptr \notin Nat
BY SMTT(30), SMTT(60) DEF nullptr

(* Going the other way along a list turns Better around.                   *)
LEMMA OtherWay ==
  ASSUME NEW side \in Side
  PROVE  /\ Opposite(side) \in Side
         /\ Opposite(Opposite(side)) = side
         /\ \A x, y : Better(Opposite(side), x, y) <=> Better(side, y, x)
BY SMTT(30), SMTT(60) DEF Side, Opposite, Better

(* The two ways along a list of orders.                                    *)
LEMMA TwoWays ==
  /\ "BUY" = Opposite("SELL") /\ "SELL" = Opposite("BUY")
  /\ "SELL" \in Side /\ "BUY" \in Side /\ "BUY" # "SELL"
BY SMTT(30), SMTT(60) DEF Side, Opposite

(* Better is a strict total order of the numbers.                          *)
LEMMA BetterIsOrder ==
  ASSUME NEW side, NEW S, S \subseteq Nat
  PROVE  /\ \A x, y \in S : Better(side, x, y) => ~Better(side, y, x)
         /\ \A x, y \in S : x = y \/ Better(side, x, y) \/ Better(side, y, x)
         /\ \A x, y, z \in S :
              Better(side, x, y) /\ Better(side, y, z) => Better(side, x, z)
BY SMTT(30), SMTT(60) DEF Better

(* y comes right before x, without turning around.                         *)
Precedes(y, x, S, side) ==
  \/ y = nullptr /\ \A z \in S : ~Better(side, z, x)
  \/ /\ y \in S /\ Better(side, y, x)
     /\ \A z \in S : Better(side, z, x) => ~Better(side, y, z)

(* Following in the opposite direction is preceding.                       *)
LEMMA PrecedesOrFollows ==
  ASSUME NEW side \in Side, NEW S, NEW x, NEW y
  PROVE  Follows(y, x, S, Opposite(side)) <=> Precedes(y, x, S, side)
BY OtherWay DEF Follows, Precedes

(* Node x leaves the list: the node before it gets x's successor.          *)
LEMMA UnlinkFollows ==
  ASSUME NEW S, S \subseteq Nat, NEW side \in Side, NEW x \in S, NEW y \in S, y # x,
         NEW nx, NEW px, NEW ny,
         Follows(nx, x, S, side), Follows(px, x, S, Opposite(side)),
         Follows(ny, y, S, side)
  PROVE  Follows(IF y = px THEN nx ELSE ny, y, S \ {x}, side)
<1>1. Precedes(px, x, S, side)
  BY PrecedesOrFollows
<1>2. CASE y = px
  BY <1>1, <1>2, NullIsNoNode, BetterIsOrder DEF Follows, Precedes
<1>3. CASE y # px
  BY <1>1, <1>3, NullIsNoNode, BetterIsOrder DEF Follows, Precedes
<1> QED BY <1>2, <1>3

(* The head of a list is its only node without a predecessor.              *)
PrevTellsHead(px, head, x) == px = nullptr <=> head = x

(* The predecessor of a node tells whether the node is the head.           *)
LEMMA HeadHasNoPrev ==
  ASSUME NEW S, S \subseteq Nat, NEW side \in Side, NEW x \in S, NEW head, NEW px,
         Leads(head, S, side), Follows(px, x, S, Opposite(side))
  PROVE  PrevTellsHead(px, head, x)
<1>1. Precedes(px, x, S, side)
  BY PrecedesOrFollows
<1> QED BY <1>1, NullIsNoNode, BetterIsOrder DEF Leads, Precedes, PrevTellsHead

(* When the head leaves, its successor becomes the head.                   *)
LEMMA UnlinkLeads ==
  ASSUME NEW S, S \subseteq Nat, NEW side \in Side, NEW x \in S, NEW head, NEW nx,
         Leads(head, S, side), Follows(nx, x, S, side)
  PROVE  Leads(IF head = x THEN nx ELSE head, S \ {x}, side)
<1>1. head \in S /\ \A y \in S : ~Better(side, y, head)
  BY DEF Leads
<1>2. CASE head # x
  BY <1>1, <1>2 DEF Leads
<1>3. CASE head = x /\ nx = nullptr /\ \A z \in S : ~Better(side, x, z)
  <2>1. S \ {x} = {}
    BY <1>1, <1>3, BetterIsOrder
  <2> QED BY <1>3, <2>1 DEF Leads
<1>4. CASE /\ head = x /\ nx \in S /\ Better(side, x, nx)
           /\ \A z \in S : Better(side, x, z) => ~Better(side, z, nx)
  <2>1. nx # x
    BY <1>4, BetterIsOrder
  <2>2. ASSUME NEW y \in S \ {x} PROVE ~Better(side, y, nx)
    BY <1>1, <1>4, BetterIsOrder
  <2> QED BY <1>4, <2>1, <2>2 DEF Leads
<1> QED BY <1>2, <1>3, <1>4 DEF Follows

(* Node p joins between a and c: c follows it, it becomes a's successor,   *)
(* and the other nodes keep theirs.                                        *)
LEMMA LinkFollows ==
  ASSUME NEW S, S \subseteq Nat, NEW side \in Side, NEW p \in Nat, p \notin S,
         NEW a, NEW c, Follows(c, p, S, side), Follows(a, p, S, Opposite(side))
  PROVE  /\ Follows(c, p, S \cup {p}, side)
         /\ \A y \in S : \A ny : Follows(ny, y, S, side) =>
              Follows(IF y = a THEN p ELSE ny, y, S \cup {p}, side)
<1> DEFINE T == S \cup {p}
<1>1. Precedes(a, p, S, side)
  BY PrecedesOrFollows
<1>2. /\ \A x, y \in T : Better(side, x, y) => ~Better(side, y, x)
      /\ \A x, y \in T : x = y \/ Better(side, x, y) \/ Better(side, y, x)
      /\ \A x, y, z \in T :
           Better(side, x, y) /\ Better(side, y, z) => Better(side, x, z)
  <2>1. T \subseteq Nat
    OBVIOUS
  <2> HIDE DEF T
  <2> QED BY <2>1, BetterIsOrder
<1>3. p \in T /\ \A y \in T : y \in S \/ y = p
  OBVIOUS
<1>4. \A y \in S : y \in T /\ y # p
  OBVIOUS
<1>5. ~Better(side, p, p)
  BY <1>2, <1>3
<1> HIDE DEF T
<1>6. Follows(c, p, T, side)
  BY <1>3, <1>4, <1>5 DEF Follows
<1>7. ASSUME NEW y \in S, NEW ny, Follows(ny, y, S, side)
      PROVE  Follows(IF y = a THEN p ELSE ny, y, T, side)
  <2>1. CASE y = a
    <3>1. Better(side, y, p) /\ \A z \in S : Better(side, z, p) => ~Better(side, y, z)
      BY <1>1, <2>1, NullIsNoNode DEF Precedes
    <3> QED BY <2>1, <3>1, <1>2, <1>3, <1>4, <1>5 DEF Follows
  <2>2. CASE y # a
    <3>1. ASSUME Better(side, y, p)
          PROVE  a \in S /\ Better(side, y, a) /\ Better(side, a, p)
      BY <3>1, <2>2, <1>1, <1>2, <1>4 DEF Precedes
    <3>2. CASE ny = nullptr /\ \A z \in S : ~Better(side, y, z)
      BY <3>1, <3>2, <2>2, <1>3 DEF Follows
    <3>3. CASE /\ ny \in S /\ Better(side, y, ny)
               /\ \A z \in S : Better(side, y, z) => ~Better(side, z, ny)
      <4>1. ASSUME Better(side, y, p) PROVE ~Better(side, p, ny)
        BY <4>1, <3>1, <3>3, <1>2, <1>3, <1>4
      <4> QED BY <4>1, <3>3, <2>2, <1>3, <1>4 DEF Follows
    <3> QED BY <3>2, <3>3, <1>7 DEF Follows
  <2> QED BY <2>1, <2>2
<1> QED BY <1>6, <1>7 DEF T

(* It becomes the head when nothing comes before it.                       *)
LEMMA LinkLeads ==
  ASSUME NEW S, S \subseteq Nat, NEW side \in Side, NEW p \in Nat, p \notin S,
         NEW a, NEW head, Leads(head, S, side), Follows(a, p, S, Opposite(side))
  PROVE  Leads(IF a = nullptr THEN p ELSE head, S \cup {p}, side)
<1> DEFINE T == S \cup {p}
<1>1. Precedes(a, p, S, side)
  BY PrecedesOrFollows
<1>2. T \subseteq Nat /\ p \in T /\ S \subseteq T /\ \A y \in T : y \in S \/ y = p
  OBVIOUS
<1> HIDE DEF T
<1> QED BY <1>1, <1>2, NullIsNoNode, BetterIsOrder DEF Leads, Precedes, T

(* The nodes after x is unlinked, and after p is linked between a and c.   *)
Unlinked(nodes, new, x, S) ==
  \A y \in S \ {x} :
    /\ new[y].next = IF y = nodes[x].prev THEN nodes[x].next ELSE nodes[y].next
    /\ new[y].prev = IF y = nodes[x].next THEN nodes[x].prev ELSE nodes[y].prev

LinkedIn(nodes, new, a, p, c, S) ==
  /\ new[p].next = c
  /\ new[p].prev = a
  /\ \A y \in S :
       /\ new[y].next = IF y = a THEN p ELSE nodes[y].next
       /\ new[y].prev = IF y = c THEN p ELSE nodes[y].prev

(* Unlinking a node leaves a list of the others.                           *)
LEMMA UnlinkList ==
  ASSUME NEW S, S \subseteq Nat, NEW side \in Side, NEW x \in S, NEW head,
         NEW nodes, NEW new, IsList(nodes, head, S, side), Unlinked(nodes, new, x, S)
  PROVE  IsList(new, IF head = x THEN nodes[x].next ELSE head, S \ {x}, side)
<1> DEFINE nx == nodes[x].next
           px == nodes[x].prev
           back == Opposite(side)
<1>1. /\ Leads(head, S, side)
      /\ \A y \in S : Follows(nodes[y].next, y, S, side)
      /\ \A y \in S : Follows(nodes[y].prev, y, S, back)
  BY DEF IsList
<1>2. back \in Side /\ Opposite(back) = side
  BY OtherWay
<1>3. Follows(nx, x, S, side) /\ Follows(px, x, S, back)
  BY <1>1
<1> HIDE DEF nx, px, back
<1>4. ASSUME NEW y \in S \ {x} PROVE Follows(new[y].next, y, S \ {x}, side)
  <2>1. Follows(IF y = px THEN nx ELSE nodes[y].next, y, S \ {x}, side)
    BY <1>1, <1>3, UnlinkFollows DEF back
  <2> QED BY <2>1 DEF Unlinked, nx, px
<1>5. ASSUME NEW y \in S \ {x} PROVE Follows(new[y].prev, y, S \ {x}, back)
  <2>1. Follows(IF y = nx THEN px ELSE nodes[y].prev, y, S \ {x}, back)
    BY <1>1, <1>2, <1>3, UnlinkFollows
  <2> QED BY <2>1 DEF Unlinked, nx, px
<1>6. Leads(IF head = x THEN nx ELSE head, S \ {x}, side)
  BY <1>1, <1>3, UnlinkLeads
<1> QED BY <1>4, <1>5, <1>6 DEF IsList, nx, back

(* Linking a node in its place gives a list of all of them.                *)
LEMMA LinkList ==
  ASSUME NEW S, S \subseteq Nat, NEW side \in Side, NEW p \in Nat, p \notin S,
         NEW head, NEW a, NEW c, NEW nodes, NEW new, IsList(nodes, head, S, side),
         Follows(c, p, S, side), Follows(a, p, S, Opposite(side)),
         LinkedIn(nodes, new, a, p, c, S)
  PROVE  IsList(new, IF a = nullptr THEN p ELSE head, S \cup {p}, side)
<1> DEFINE back == Opposite(side)
           T == S \cup {p}
<1>1. /\ Leads(head, S, side)
      /\ \A y \in S : Follows(nodes[y].next, y, S, side)
      /\ \A y \in S : Follows(nodes[y].prev, y, S, back)
  BY DEF IsList
<1>2. back \in Side /\ Opposite(back) = side /\ Follows(a, p, S, back)
  BY OtherWay
<1>3. /\ Follows(c, p, T, side)
      /\ \A y \in S : \A ny : Follows(ny, y, S, side) =>
           Follows(IF y = a THEN p ELSE ny, y, T, side)
  BY LinkFollows
<1> HIDE DEF back
<1>4. /\ Follows(a, p, T, back)
      /\ \A y \in S : \A ny : Follows(ny, y, S, back) =>
           Follows(IF y = c THEN p ELSE ny, y, T, back)
  BY <1>2, LinkFollows
<1>5. Leads(IF a = nullptr THEN p ELSE head, T, side)
  BY <1>1, LinkLeads
<1>6. \A y \in T : y \in S \/ y = p
  OBVIOUS
<1> HIDE DEF T
<1>7. ASSUME NEW y \in T
      PROVE  Follows(new[y].next, y, T, side) /\ Follows(new[y].prev, y, T, back)
  <2>1. CASE y = p
    BY <2>1, <1>3, <1>4 DEF LinkedIn
  <2>2. CASE y \in S
    <3>1. /\ Follows(IF y = a THEN p ELSE nodes[y].next, y, T, side)
          /\ Follows(IF y = c THEN p ELSE nodes[y].prev, y, T, back)
      BY <2>2, <1>1, <1>3, <1>4
    <3> QED BY <2>2, <3>1 DEF LinkedIn
  <2> QED BY <1>6, <2>1, <2>2
<1> QED BY <1>5, <1>7 DEF IsList, T, back

(* A list depends only on the links of its own nodes.                      *)
LEMMA SameLinks ==
  ASSUME NEW S, NEW side, NEW head, NEW nodes, NEW new,
         IsList(nodes, head, S, side),
         \A y \in S : new[y].next = nodes[y].next /\ new[y].prev = nodes[y].prev
  PROVE  IsList(new, head, S, side)
BY DEF IsList
-----------------------------------------------------------------------------
(* The walk of insertPricelevel.                                           *)

(* A set of numbers with a member has a least one.                         *)
LEMMA LeastElement ==
  ASSUME NEW S, S \subseteq Nat, S # {}
  PROVE  \E m \in S : \A x \in S : m <= x
<1>1. PICK m \in S : \A y \in S : ~(<<y, m>> \in OpToRel(<, Nat))
  BY NatLessThanWellFounded, WFMin
<1>2. \A y \in S : ~(y < m)
  BY <1>1 DEF OpToRel
<1> QED BY <1>2, SMTT(30), SMTT(60)

(* Among prices better than p one comes last: seen from p it is the        *)
(* nearest, so there is one although the prices need not be finitely many. *)
LEMMA NearestExists ==
  ASSUME NEW S, S \subseteq Nat, S # {}, NEW p \in Nat, NEW side \in Side,
         \A x \in S : Better(side, x, p)
  PROVE  \E l \in S : \A x \in S : ~Better(side, l, x)
<1>1. CASE side = "BUY"
  <2>1. PICK l \in S : \A x \in S : l <= x
    BY LeastElement
  <2>2. \A x \in S : ~(l > x)
    BY <2>1, SMTT(30), SMTT(60)
  <2> QED BY <1>1, <2>2 DEF Better
<1>2. CASE side # "BUY"
  <2> DEFINE T == {p - x : x \in S}
  <2>1. \A x \in S : x < p
    BY <1>2 DEF Better
  <2>2. \A x \in S : p - x \in Nat
    BY <2>1, SMTT(30), SMTT(60)
  <2>3. T \subseteq Nat
    BY <2>2
  <2>4. T # {}
    OBVIOUS
  <2>5. PICK k \in T : \A y \in T : k <= y
    BY <2>3, <2>4, LeastElement
  <2>6. PICK l \in S : k = p - l
    OBVIOUS
  <2>7. \A x \in S : p - l <= p - x
    BY <2>5, <2>6
  <2>8. \A x \in S : ~(l < x)
    BY <2>7, SMTT(30), SMTT(60)
  <2> QED BY <1>2, <2>8 DEF Better
<1> QED BY <1>1, <1>2

(* The level the walk ends at comes right before p.                        *)
LEMMA WalkEnds ==
  ASSUME NEW S, S \subseteq Prices, NEW side \in Side, NEW p \in Prices, p \notin S,
         NEW levels, NEW best, best # nullptr, IsList(levels, best, S, side),
         \A q \in Prices \ S : levels[q].next = nullptr, ~Better(side, p, best)
  PROVE  /\ LevelBefore(levels, side, best, p) \in S
         /\ Precedes(LevelBefore(levels, side, best, p), p, S, side)
<1> DEFINE goes(q) == levels[q].next # nullptr /\ Better(side, levels[q].next, p)
           Step(f) == [q \in Prices |-> IF goes(q) THEN f[levels[q].next] ELSE q]
           walk == CHOOSE f : f = Step(f)
           B == {x \in S : Better(side, x, p)}
<1>1. LevelBefore(levels, side, best, p) = walk[best]
  BY DEF LevelBefore
<1>2. /\ S \subseteq Nat /\ p \in Nat /\ best \in S
      /\ \A q \in S : Follows(levels[q].next, q, S, side)
  BY VectorAssumption DEF IsList, Leads
<1>3. /\ \A x, y \in S \cup {p} : Better(side, x, y) => ~Better(side, y, x)
      /\ \A x, y \in S \cup {p} : x = y \/ Better(side, x, y) \/ Better(side, y, x)
      /\ \A x, y, z \in S \cup {p} :
           Better(side, x, y) /\ Better(side, y, z) => Better(side, x, z)
  <2>1. S \cup {p} \subseteq Nat
    BY <1>2
  <2> QED BY <2>1, BetterIsOrder
<1>4. best \in B
  BY <1>2, <1>3
<1>5. PICK l \in B : \A x \in B : ~Better(side, l, x)
  <2>1. B \subseteq Nat /\ B # {} /\ \A x \in B : Better(side, x, p)
    BY <1>2, <1>4
  <2> HIDE DEF B
  <2> QED BY <2>1, <1>2, NearestExists
<1>6. ASSUME NEW x \in B, goes(x)
      PROVE  levels[x].next \in B /\ Better(side, x, levels[x].next)
  BY <1>2, <1>6 DEF Follows
<1>7. ASSUME NEW x \in B, ~goes(x)
      PROVE  x = l
  <2>1. SUFFICES ASSUME x # l PROVE FALSE
    OBVIOUS
  <2>2. Better(side, x, l)
    BY <2>1, <1>3, <1>5
  <2>3. /\ levels[x].next \in S /\ ~Better(side, levels[x].next, p)
        /\ ~Better(side, l, levels[x].next)
    BY <2>2, <1>2, <1>7, NullIsNoNode DEF Follows
  <2>4. Better(side, p, levels[x].next)
    BY <2>3, <1>3
  <2>5. Better(side, l, levels[x].next)
    BY <2>3, <2>4, <1>3
  <2> QED BY <2>3, <2>5
<1>8. ASSUME NEW q \in Prices \ B PROVE ~goes(q)
  <2>1. CASE q \in S
    <3>1. SUFFICES ASSUME levels[q].next # nullptr PROVE ~Better(side, levels[q].next, p)
      OBVIOUS
    <3>2. levels[q].next \in S /\ Better(side, q, levels[q].next)
      BY <3>1, <2>1, <1>2 DEF Follows
    <3>3. Better(side, p, q)
      BY <2>1, <1>3
    <3> QED BY <2>1, <3>2, <3>3, <1>3
  <2>2. CASE q \notin S
    BY <2>2
  <2> QED BY <2>1, <2>2
<1> HIDE DEF goes, B
<1>9. walk = Step(walk)
  <2> DEFINE g == [q \in Prices |-> IF q \in B THEN l ELSE q]
  <2>1. \A q \in Prices : g[q] = IF goes(q) THEN g[levels[q].next] ELSE q
    <3>1. B \subseteq Prices
      BY DEF B
    <3> QED BY <1>6, <1>7, <1>8, <3>1
  <2>2. g = Step(g)
    BY <2>1
  <2> HIDE DEF g, Step
  <2> QED BY <2>2
<1>10. \A q \in Prices : walk[q] = IF goes(q) THEN walk[levels[q].next] ELSE q
  <2> HIDE DEF walk
  <2> QED BY <1>9
<1> HIDE DEF walk, Step
<1>11. \A x \in B : walk[x] = l
  <2> DEFINE Bad == {x \in B : walk[x] # l}
  <2>1. SUFFICES ASSUME Bad # {} PROVE FALSE
    OBVIOUS
  <2>2. /\ Bad \subseteq Nat /\ \A x \in Bad : Better(side, x, p) /\ x \in B
        /\ \A x \in B : x \in Prices
    BY <1>2 DEF B
  <2>3. \A x \in B : x \in Bad \/ walk[x] = l
    OBVIOUS
  <2>4. \A x \in Bad : walk[x] # l
    OBVIOUS
  <2> HIDE DEF Bad
  <2>5. PICK x \in Bad : \A y \in Bad : ~Better(side, x, y)
    BY <2>1, <2>2, <1>2, NearestExists
  <2>6. CASE goes(x)
    <3>1. levels[x].next \in B /\ levels[x].next \notin Bad
      BY <2>2, <2>5, <2>6, <1>6
    <3> QED BY <3>1, <2>2, <2>3, <2>4, <2>6, <1>10
  <2>7. CASE ~goes(x)
    BY <2>2, <2>4, <2>7, <1>7, <1>10
  <2> QED BY <2>6, <2>7
<1>12. l \in S /\ Precedes(l, p, S, side)
  BY <1>5 DEF B, Precedes
<1> QED BY <1>1, <1>4, <1>11, <1>12

(* What comes after the level before p comes after p.                      *)
LEMMA AfterPrecedes ==
  ASSUME NEW S, S \subseteq Nat, NEW side \in Side, NEW p \in Nat, p \notin S,
         NEW a \in S, NEW c, Precedes(a, p, S, side), Follows(c, a, S, side)
  PROVE  Follows(c, p, S, side)
<1>1. /\ \A x, y \in S \cup {p} : Better(side, x, y) => ~Better(side, y, x)
      /\ \A x, y \in S \cup {p} : x = y \/ Better(side, x, y) \/ Better(side, y, x)
      /\ \A x, y, z \in S \cup {p} :
           Better(side, x, y) /\ Better(side, y, z) => Better(side, x, z)
  <2>1. S \cup {p} \subseteq Nat
    OBVIOUS
  <2> QED BY <2>1, BetterIsOrder
<1>2. Better(side, a, p) /\ \A z \in S : Better(side, z, p) => ~Better(side, a, z)
  BY NullIsNoNode DEF Precedes
<1>3. \A z \in S : Better(side, p, z) => Better(side, a, z)
  BY <1>1, <1>2
<1>4. CASE c = nullptr /\ \A z \in S : ~Better(side, a, z)
  BY <1>3, <1>4 DEF Follows
<1>5. CASE /\ c \in S /\ Better(side, a, c)
           /\ \A z \in S : Better(side, a, z) => ~Better(side, z, c)
  <2>1. Better(side, p, c)
    BY <1>1, <1>2, <1>5
  <2> QED BY <1>3, <1>5, <2>1 DEF Follows
<1> QED BY <1>4, <1>5 DEF Follows

-----------------------------------------------------------------------------
(* The operations on a book, pointer by pointer.                           *)

(* new is nodes with x->next_ = y; with x->prev_ = y.                      *)
NextIsSet(nodes, new, x, y) ==
  \A q \in DOMAIN nodes :
    /\ new[q].next = IF q = x THEN y ELSE nodes[q].next
    /\ new[q].prev = nodes[q].prev

PrevIsSet(nodes, new, x, y) ==
  \A q \in DOMAIN nodes :
    /\ new[q].next = nodes[q].next
    /\ new[q].prev = IF q = x THEN y ELSE nodes[q].prev

(* The links of a level change, its orders do not.                         *)
SameEnds(levels, new) ==
  \A q \in Prices : new[q].head = levels[q].head /\ new[q].tail = levels[q].tail

(* The links of an order change, the order does not.                       *)
SameOrder(o, n) ==
  /\ n.clientId = o.clientId /\ n.clientOrderId = o.clientOrderId
  /\ n.side = o.side /\ n.price = o.price

SameOrders(pool, new) ==
  \A id \in DOMAIN pool : /\ SameOrder(pool[id], new[id])
                          /\ new[id].remainingQuantity = pool[id].remainingQuantity

(* Setting a link of a price level.                                        *)
LEMMA SetLevelLink ==
  ASSUME NEW levels \in [Prices -> PriceLevel], NEW x \in Pointer(Prices),
         NEW y \in Pointer(Prices)
  PROVE  /\ SetNext(levels, x, y) \in [Prices -> PriceLevel]
         /\ NextIsSet(levels, SetNext(levels, x, y), x, y)
         /\ SameEnds(levels, SetNext(levels, x, y))
         /\ SetPrev(levels, x, y) \in [Prices -> PriceLevel]
         /\ PrevIsSet(levels, SetPrev(levels, x, y), x, y)
         /\ SameEnds(levels, SetPrev(levels, x, y))
<1>1. nullptr \notin Prices
  BY VectorAssumption, NullIsNoNode
<1>2. CASE x = nullptr
  BY <1>1, <1>2 DEF SetNext, SetPrev, NextIsSet, PrevIsSet, SameEnds
<1>3. CASE x \in Prices
  <2> DEFINE m == [levels EXCEPT ![x].next = y]
             k == [levels EXCEPT ![x].prev = y]
  <2>1. SetNext(levels, x, y) = m /\ SetPrev(levels, x, y) = k
    BY <1>1, <1>3 DEF SetNext, SetPrev
  <2>2. m \in [Prices -> PriceLevel] /\ k \in [Prices -> PriceLevel]
    BY <1>3, SMTT(30), SMTT(60) DEF PriceLevel
  <2>3. \A q \in Prices \ {x} : m[q] = levels[q] /\ k[q] = levels[q]
    BY <1>3
  <2>4. /\ m[x].next = y /\ m[x].prev = levels[x].prev
        /\ m[x].head = levels[x].head /\ m[x].tail = levels[x].tail
        /\ k[x].prev = y /\ k[x].next = levels[x].next
        /\ k[x].head = levels[x].head /\ k[x].tail = levels[x].tail
    BY <1>3, SMTT(30), SMTT(60) DEF PriceLevel
  <2> HIDE DEF m, k
  <2> QED BY <2>1, <2>2, <2>3, <2>4 DEF NextIsSet, PrevIsSet, SameEnds
<1> QED BY <1>2, <1>3 DEF Pointer

(* Setting a link of an order.                                             *)
LEMMA SetOrderLink ==
  ASSUME NEW pool, pool \in [DOMAIN pool -> MEOrder], DOMAIN pool \subseteq Nat,
         NEW x \in Pointer(DOMAIN pool), NEW y \in Pointer(Nat)
  PROVE  /\ SetNext(pool, x, y) \in [DOMAIN pool -> MEOrder]
         /\ NextIsSet(pool, SetNext(pool, x, y), x, y)
         /\ SameOrders(pool, SetNext(pool, x, y))
         /\ SetPrev(pool, x, y) \in [DOMAIN pool -> MEOrder]
         /\ PrevIsSet(pool, SetPrev(pool, x, y), x, y)
         /\ SameOrders(pool, SetPrev(pool, x, y))
<1> DEFINE D == DOMAIN pool
<1>1. nullptr \notin D
  BY NullIsNoNode
<1>2. CASE x = nullptr
  BY <1>1, <1>2 DEF SetNext, SetPrev, NextIsSet, PrevIsSet, SameOrders, SameOrder
<1>3. CASE x \in D
  <2> DEFINE m == [pool EXCEPT ![x].next = y]
             k == [pool EXCEPT ![x].prev = y]
  <2>1. SetNext(pool, x, y) = m /\ SetPrev(pool, x, y) = k
    BY <1>1, <1>3 DEF SetNext, SetPrev
  <2>2. m \in [D -> MEOrder] /\ k \in [D -> MEOrder]
    BY <1>3, SMTT(30), SMTT(60) DEF MEOrder
  <2>3. \A q \in D \ {x} : m[q] = pool[q] /\ k[q] = pool[q]
    BY <1>3
  <2>4. /\ m[x].next = y /\ m[x].prev = pool[x].prev
        /\ k[x].prev = y /\ k[x].next = pool[x].next
    BY <1>3, SMTT(30), SMTT(60) DEF MEOrder
  <2>5. /\ SameOrder(pool[x], m[x]) /\ SameOrder(pool[x], k[x])
        /\ m[x].remainingQuantity = pool[x].remainingQuantity
        /\ k[x].remainingQuantity = pool[x].remainingQuantity
    BY <1>3, SMTT(30), SMTT(60) DEF MEOrder, SameOrder
  <2>6. \A q \in D \ {x} : SameOrder(pool[q], m[q]) /\ SameOrder(pool[q], k[q])
    BY <2>3 DEF SameOrder
  <2> HIDE DEF m, k
  <2> QED BY <2>1, <2>2, <2>3, <2>4, <2>5, <2>6 DEF NextIsSet, PrevIsSet, SameOrders
<1> QED BY <1>2, <1>3 DEF Pointer

(* The fields of a book.                                                   *)
LEMMA BookFields ==
  ASSUME NEW b, BookTypeOK(b)
  PROVE  /\ b.pool \in [DOMAIN b.pool -> MEOrder] /\ DOMAIN b.pool \subseteq Nat
         /\ b.level \in [Side -> [Prices -> PriceLevel]]
         /\ b.best \in [Side -> Pointer(Prices)]
         /\ b.orders \in [DOMAIN b.orders -> Nat]
         /\ b.nextMarketOrderId \in Nat
BY DEF BookTypeOK

(* A book put together from its fields.                                    *)
Book(pool, level, best, orders, next) ==
  [pool |-> pool, level |-> level, best |-> best, orders |-> orders,
   nextMarketOrderId |-> next]

(* A well-typed book is made of its five fields.                           *)
LEMMA BookShape ==
  ASSUME NEW b, BookTypeOK(b)
  PROVE  b = Book(b.pool, b.level, b.best, b.orders, b.nextMarketOrderId)
BY DEF BookTypeOK, Book

(* Five fields of their types make a well-typed book.                      *)
LEMMA BookMade ==
  ASSUME NEW pool, NEW level, NEW best, NEW orders, NEW next,
         pool \in [DOMAIN pool -> MEOrder], DOMAIN pool \subseteq Nat,
         level \in [Side -> [Prices -> PriceLevel]],
         best \in [Side -> Pointer(Prices)],
         orders \in [DOMAIN orders -> Nat], next \in Nat
  PROVE  BookTypeOK(Book(pool, level, best, orders, next))
BY DEF BookTypeOK, Book

(* Assignments to the fields of a book.                                    *)
LEMMA BookAssigned ==
  ASSUME NEW pool, NEW level, NEW best, NEW orders, NEW next, NEW b,
         b = Book(pool, level, best, orders, next), NEW x
  PROVE  /\ b.pool = pool /\ b.level = level /\ b.best = best
         /\ b.orders = orders /\ b.nextMarketOrderId = next
         /\ [b EXCEPT !.pool = x] = Book(x, level, best, orders, next)
         /\ [b EXCEPT !.level = x] = Book(pool, x, best, orders, next)
         /\ [b EXCEPT !.best = x] = Book(pool, level, x, orders, next)
         /\ [b EXCEPT !.orders = x] = Book(pool, level, best, x, next)
         /\ [b EXCEPT !.nextMarketOrderId = x] = Book(pool, level, best, orders, x)
<1>1. /\ b.pool = pool /\ b.level = level /\ b.best = best
      /\ b.orders = orders /\ b.nextMarketOrderId = next
  BY DEF Book
<1>2. [b EXCEPT !.pool = x] = Book(x, level, best, orders, next)
  BY SMTT(30), SMTT(60) DEF Book
<1>3. [b EXCEPT !.level = x] = Book(pool, x, best, orders, next)
  BY SMTT(30), SMTT(60) DEF Book
<1>4. [b EXCEPT !.best = x] = Book(pool, level, x, orders, next)
  BY SMTT(30), SMTT(60) DEF Book
<1>5. [b EXCEPT !.orders = x] = Book(pool, level, best, x, next)
  BY SMTT(30), SMTT(60) DEF Book
<1>6. [b EXCEPT !.nextMarketOrderId = x] = Book(pool, level, best, orders, x)
  BY SMTT(30), SMTT(60) DEF Book
<1> QED BY <1>1, <1>2, <1>3, <1>4, <1>5, <1>6

(* Only the levels and the best level of side s change, to these.          *)
Relinks(b, n, s, levels, best) ==
  /\ BookTypeOK(n)
  /\ n.pool = b.pool /\ n.orders = b.orders
  /\ n.nextMarketOrderId = b.nextMarketOrderId
  /\ n.level[s] = levels /\ n.best[s] = best
  /\ \A t \in Side : t # s => n.level[t] = b.level[t] /\ n.best[t] = b.best[t]

(* The assignments to best_bid_, best_ask_ and to the levels of a side     *)
(* change nothing else.                                                    *)
LEMMA Relinked ==
  ASSUME NEW b, BookTypeOK(b), NEW s \in Side, NEW levels \in [Prices -> PriceLevel],
         NEW best \in Pointer(Prices)
  PROVE  /\ Relinks(b, [b EXCEPT !.best[s] = best], s, b.level[s], best)
         /\ Relinks(b, [b EXCEPT !.level[s] = levels], s, levels, b.best[s])
         /\ Relinks(b, [b EXCEPT !.level[s] = levels, !.best[s] = best], s, levels, best)
<1> DEFINE newLevel == [b.level EXCEPT ![s] = levels]
           newBest == [b.best EXCEPT ![s] = best]
           B(level, heads) == Book(b.pool, level, heads, b.orders, b.nextMarketOrderId)
<1>1. /\ newLevel \in [Side -> [Prices -> PriceLevel]]
      /\ newBest \in [Side -> Pointer(Prices)]
      /\ newLevel[s] = levels /\ newBest[s] = best
      /\ \A t \in Side : t # s => newLevel[t] = b.level[t] /\ newBest[t] = b.best[t]
  BY BookFields
<1>2. b = B(b.level, b.best)
  BY BookShape
<1>3. ASSUME NEW level \in [Side -> [Prices -> PriceLevel]],
             NEW heads \in [Side -> Pointer(Prices)], NEW n, n = B(level, heads),
             \A t \in Side : t # s => level[t] = b.level[t] /\ heads[t] = b.best[t]
      PROVE  Relinks(b, n, s, level[s], heads[s])
  <2>1. BookTypeOK(n)
    BY <1>3, BookFields, BookMade
  <2>2. /\ n.pool = b.pool /\ n.orders = b.orders
        /\ n.nextMarketOrderId = b.nextMarketOrderId
        /\ n.level = level /\ n.best = heads
    BY <1>3 DEF Book
  <2> QED BY <1>3, <2>1, <2>2 DEF Relinks
<1>4. [b EXCEPT !.best[s] = best] = B(b.level, newBest)
  <2>1. [b EXCEPT !.best[s] = best] = [b EXCEPT !.best = newBest]
    OBVIOUS
  <2> HIDE DEF newBest
  <2> QED BY <1>2, <2>1, BookAssigned, SMTT(30), SMTT(60)
<1>5. [b EXCEPT !.level[s] = levels] = B(newLevel, b.best)
  <2>1. [b EXCEPT !.level[s] = levels] = [b EXCEPT !.level = newLevel]
    OBVIOUS
  <2> HIDE DEF newLevel
  <2> QED BY <1>2, <2>1, BookAssigned, SMTT(30), SMTT(60)
<1>6. [b EXCEPT !.level[s] = levels, !.best[s] = best] = B(newLevel, newBest)
  <2> DEFINE m == [b EXCEPT !.level[s] = levels]
  <2>1. m = B(newLevel, b.best) /\ m.best = b.best
    BY <1>5 DEF Book
  <2>2. [b EXCEPT !.level[s] = levels, !.best[s] = best] = [m EXCEPT !.best[s] = best]
    OBVIOUS
  <2> HIDE DEF m
  <2>3. [m EXCEPT !.best[s] = best] = [m EXCEPT !.best = newBest]
    BY <2>1
  <2> HIDE DEF newBest, newLevel
  <2>4. [m EXCEPT !.best = newBest] = B(newLevel, newBest)
    BY <2>1, BookAssigned, SMTT(30), SMTT(60)
  <2> QED BY <2>2, <2>3, <2>4
<1> HIDE DEF B, newLevel, newBest
<1>7. b.level \in [Side -> [Prices -> PriceLevel]] /\ b.best \in [Side -> Pointer(Prices)]
  BY BookFields
<1>8. Relinks(b, [b EXCEPT !.best[s] = best], s, b.level[s], best)
  BY <1>1, <1>3, <1>4, <1>7
<1>9. Relinks(b, [b EXCEPT !.level[s] = levels], s, levels, b.best[s])
  BY <1>1, <1>3, <1>5, <1>7
<1>10. Relinks(b, [b EXCEPT !.level[s] = levels, !.best[s] = best], s, levels, best)
  <2>1. \A t \in Side : t # s => newLevel[t] = b.level[t] /\ newBest[t] = b.best[t]
    BY <1>1
  <2>2. Relinks(b, [b EXCEPT !.level[s] = levels, !.best[s] = best], s,
                newLevel[s], newBest[s])
    BY <1>1, <1>3, <1>6, <2>1
  <2> QED BY <1>1, <2>2
<1> QED BY <1>8, <1>9, <1>10

(* The nodes that are not in the list.                                     *)
Unused(levels, S) ==
  \A q \in Prices \ S : levels[q].next = nullptr /\ levels[q].prev = nullptr

(* p is linked between a and c, and no other link changes.                 *)
Spliced(levels, new, a, p, c) ==
  /\ new \in [Prices -> PriceLevel]
  /\ SameEnds(levels, new)
  /\ new[p].next = c /\ new[p].prev = a
  /\ \A q \in Prices : q # p =>
       /\ new[q].next = IF q = a THEN p ELSE levels[q].next
       /\ new[q].prev = IF q = c THEN p ELSE levels[q].prev

(* insertPricelevel links the level at p into the list of its side and     *)
(* changes nothing else.                                                   *)
LevelInserted(b, n, s, p, S) ==
  /\ Relinks(b, n, s, n.level[s], n.best[s])
  /\ SameEnds(b.level[s], n.level[s])
  /\ IsList(n.level[s], n.best[s], S \cup {p}, s)
  /\ Unused(n.level[s], S \cup {p})

(* insertPricelevel links the level p into the list of its side, wherever  *)
(* its price puts it.                                                      *)
LEMMA InsertPricelevel ==
  ASSUME NEW b, BookTypeOK(b), NEW s \in Side, NEW p \in Prices,
         NEW S, S \subseteq Prices, p \notin S,
         IsList(b.level[s], b.best[s], S, s), Unused(b.level[s], S)
  PROVE  LevelInserted(b, insertPricelevel(b, s, p), s, p, S)
<1> DEFINE best == b.best[s]
           levels == b.level[s]
           curr == LevelBefore(levels, s, best, p)
           after == levels[curr].next
           n == insertPricelevel(b, s, p)
<1>a. /\ nullptr \notin Prices /\ S \subseteq Nat /\ p \in Nat /\ p # nullptr
      /\ p \in Pointer(Prices)
  BY VectorAssumption, NullIsNoNode DEF Pointer
<1>b. levels \in [Prices -> PriceLevel] /\ best \in Pointer(Prices)
  BY BookFields
<1>c. DOMAIN levels = Prices /\ \A q \in Prices : levels[q].next \in Pointer(Prices)
  BY <1>b DEF PriceLevel
<1>d. IsList(levels, best, S, s) /\ Unused(levels, S)
  OBVIOUS
<1>2. ASSUME NEW m, NEW a, NEW c, NEW head, Relinks(b, n, s, m, head),
             head = IF a = nullptr THEN p ELSE best,
             Follows(c, p, S, s), Precedes(a, p, S, s), Spliced(levels, m, a, p, c)
      PROVE  LevelInserted(b, n, s, p, S)
  <2>1. n.level[s] = m /\ n.best[s] = head
    BY <1>2 DEF Relinks
  <2>2. LinkedIn(levels, m, a, p, c, S)
    BY <1>2 DEF LinkedIn, Spliced
  <2>3. IsList(m, head, S \cup {p}, s)
    <3> HIDE DEF levels, best
    <3>1. Follows(a, p, S, Opposite(s))
      BY <1>2, PrecedesOrFollows
    <3>2. IsList(m, IF a = nullptr THEN p ELSE best, S \cup {p}, s)
      BY <1>a, <1>d, <1>2, <2>2, <3>1, LinkList
    <3> QED BY <1>2, <3>2
  <2>4. Unused(m, S \cup {p})
    <3>1. a = nullptr \/ a \in S
      BY <1>2 DEF Precedes
    <3>2. c = nullptr \/ c \in S
      BY <1>2 DEF Follows
    <3> HIDE DEF levels
    <3>3. ASSUME NEW q \in Prices \ (S \cup {p})
          PROVE  m[q].next = nullptr /\ m[q].prev = nullptr
      <4>1. q # p /\ q # a /\ q # c /\ q \in Prices \ S
        BY <3>1, <3>2, <1>a
      <4> QED BY <4>1, <1>d, <1>2 DEF Unused, Spliced
    <3> QED BY <3>3 DEF Unused
  <2>5. SameEnds(levels, m)
    BY <1>2 DEF Spliced
  <2> HIDE DEF n, levels
  <2> QED BY <1>2, <2>1, <2>3, <2>4, <2>5 DEF LevelInserted, levels
<1>3. CASE best = nullptr
  <2>1. S = {}
    BY <1>a, <1>d, <1>3, NullIsNoNode DEF IsList, Leads
  <2>2. n = [b EXCEPT !.best[s] = p]
    BY <1>3 DEF insertPricelevel
  <2>3. Relinks(b, n, s, levels, p)
    <3>1. Relinks(b, [b EXCEPT !.best[s] = p], s, levels, p)
      BY <1>a, <1>b, Relinked
    <3> QED BY <2>2, <3>1
  <2>4. Follows(nullptr, p, S, s) /\ Precedes(nullptr, p, S, s)
    BY <2>1 DEF Follows, Precedes
  <2>5. Spliced(levels, levels, nullptr, p, nullptr)
    BY <1>a, <1>b, <1>d DEF Unused, SameEnds, Spliced
  <2> HIDE DEF n, levels, best
  <2> QED BY <1>2, <2>3, <2>4, <2>5 DEF n, levels
<1>4. CASE best # nullptr /\ Better(s, p, best)
  <2> DEFINE k == SetNext(levels, p, best)
             m == SetPrev(k, best, p)
  <2>1. n = [b EXCEPT !.level[s] = m, !.best[s] = p]
    BY <1>4 DEF insertPricelevel
  <2>2. /\ best \in S /\ best # p /\ \A z \in S : ~Better(s, z, best)
    BY <1>d, <1>4 DEF IsList, Leads
  <2> HIDE DEF n, levels, best
  <2>3. /\ k \in [Prices -> PriceLevel] /\ NextIsSet(levels, k, p, best)
        /\ SameEnds(levels, k)
    BY <1>a, <1>b, SetLevelLink
  <2> HIDE DEF k
  <2>4. /\ m \in [Prices -> PriceLevel] /\ PrevIsSet(k, m, best, p) /\ SameEnds(k, m)
    BY <1>a, <1>b, <2>3, SetLevelLink
  <2> HIDE DEF m
  <2>5. Relinks(b, n, s, m, p)
    BY <1>a, <2>1, <2>4, Relinked
  <2>6. /\ Follows(best, p, S, s)
    BY <1>4, <2>2 DEF Follows
  <2>7. Precedes(nullptr, p, S, s)
    <3>1. S \cup {p} \subseteq Nat
      BY <1>a
    <3>2. ASSUME NEW z \in S PROVE ~Better(s, z, p)
      BY <1>4, <2>2, <3>1, BetterIsOrder
    <3> QED BY <3>2 DEF Precedes
  <2>8. DOMAIN k = Prices /\ levels[p].prev = nullptr
    BY <1>d, <2>3 DEF Unused
  <2>9. Spliced(levels, m, nullptr, p, best)
    BY <1>a, <1>c, <2>2, <2>3, <2>4, <2>8 DEF NextIsSet, PrevIsSet, SameEnds, Spliced
  <2> QED BY <1>2, <2>5, <2>6, <2>7, <2>9 DEF n, levels
<1>5. CASE best # nullptr /\ ~Better(s, p, best)
  <2> DEFINE m1 == SetNext(levels, p, after)
             m2 == SetPrev(m1, after, p)
             m3 == SetNext(m2, curr, p)
             m == SetPrev(m3, p, curr)
  <2>1. n = [b EXCEPT !.level[s] = m]
    BY <1>5 DEF insertPricelevel
  <2>2. \A q \in Prices \ S : levels[q].next = nullptr
    BY <1>d DEF Unused
  <2>3. curr \in S /\ Precedes(curr, p, S, s)
    <3> HIDE DEF levels, best
    <3> QED BY <1>d, <1>5, <2>2, WalkEnds
  <2>4. /\ curr \in Prices /\ curr \in Pointer(Prices) /\ after \in Pointer(Prices)
        /\ curr # p /\ curr # nullptr
        /\ Follows(after, curr, S, s)
    BY <1>a, <1>c, <1>d, <2>3 DEF Pointer, IsList
  <2> HIDE DEF n, levels, best, curr, after
  <2>5. Follows(after, p, S, s)
    BY <1>a, <2>3, <2>4, AfterPrecedes
  <2>6. after # p
    BY <1>a, <2>5 DEF Follows
  <2>7. /\ m1 \in [Prices -> PriceLevel] /\ NextIsSet(levels, m1, p, after)
        /\ SameEnds(levels, m1)
    BY <1>a, <1>b, <2>4, SetLevelLink
  <2> HIDE DEF m1
  <2>8. /\ m2 \in [Prices -> PriceLevel] /\ PrevIsSet(m1, m2, after, p)
        /\ SameEnds(m1, m2)
    BY <1>a, <2>4, <2>7, SetLevelLink
  <2> HIDE DEF m2
  <2>9. /\ m3 \in [Prices -> PriceLevel] /\ NextIsSet(m2, m3, curr, p)
        /\ SameEnds(m2, m3)
    BY <1>a, <2>4, <2>8, SetLevelLink
  <2> HIDE DEF m3
  <2>10. /\ m \in [Prices -> PriceLevel] /\ PrevIsSet(m3, m, p, curr)
         /\ SameEnds(m3, m)
    BY <1>a, <2>4, <2>9, SetLevelLink
  <2> HIDE DEF m
  <2>11. Relinks(b, n, s, m, best)
    BY <1>a, <1>b, <2>1, <2>10, Relinked DEF best
  <2>12. DOMAIN m1 = Prices /\ DOMAIN m2 = Prices /\ DOMAIN m3 = Prices
    BY <2>7, <2>8, <2>9
  <2>13. SameEnds(levels, m)
    BY <2>7, <2>8, <2>9, <2>10 DEF SameEnds
  <2>14. ASSUME NEW q \in Prices
         PROVE  /\ m[q].next = IF q = curr THEN p ELSE IF q = p THEN after ELSE levels[q].next
                /\ m[q].prev = IF q = p THEN curr ELSE IF q = after THEN p ELSE levels[q].prev
    <3>1. /\ m1[q].next = IF q = p THEN after ELSE levels[q].next
          /\ m1[q].prev = levels[q].prev
      BY <1>c, <2>7 DEF NextIsSet
    <3>2. /\ m2[q].next = m1[q].next
          /\ m2[q].prev = IF q = after THEN p ELSE m1[q].prev
      BY <2>8, <2>12 DEF PrevIsSet
    <3>3. /\ m3[q].next = IF q = curr THEN p ELSE m2[q].next
          /\ m3[q].prev = m2[q].prev
      BY <2>9, <2>12 DEF NextIsSet
    <3>4. /\ m[q].next = m3[q].next
          /\ m[q].prev = IF q = p THEN curr ELSE m3[q].prev
      BY <2>10, <2>12 DEF PrevIsSet
    <3> QED BY <3>1, <3>2, <3>3, <3>4
  <2>15. /\ m[p].next = after /\ m[p].prev = curr
         /\ \A q \in Prices : q # p =>
              /\ m[q].next = IF q = curr THEN p ELSE levels[q].next
              /\ m[q].prev = IF q = after THEN p ELSE levels[q].prev
    BY <2>4, <2>14
  <2>16. Spliced(levels, m, curr, p, after)
    BY <2>10, <2>13, <2>15 DEF Spliced
  <2> QED BY <1>2, <2>3, <2>4, <2>5, <2>11, <2>16 DEF n, levels
<1> QED BY <1>3, <1>4, <1>5

(* A level without orders is an EmptyLevel.                                *)
LEMMA EmptyLevelType ==
  /\ EmptyLevel \in PriceLevel
  /\ EmptyLevel.head = nullptr /\ EmptyLevel.tail = nullptr
  /\ EmptyLevel.next = nullptr /\ EmptyLevel.prev = nullptr
BY DEF EmptyLevel, PriceLevel, Pointer

(* removePriceLevel unlinks the level at p from the list of its side,      *)
(* clears it and changes nothing else.                                     *)
LevelRemoved(b, n, s, p, S) ==
  /\ Relinks(b, n, s, n.level[s], n.best[s])
  /\ IsList(n.level[s], n.best[s], S \ {p}, s)
  /\ Unused(n.level[s], S \ {p})
  /\ n.level[s][p] = EmptyLevel
  /\ \A q \in Prices : q # p => /\ n.level[s][q].head = b.level[s][q].head
                                /\ n.level[s][q].tail = b.level[s][q].tail

(* removePriceLevel unlinks the level p and moves the best level on if it  *)
(* was p.                                                                  *)
LEMMA RemovePriceLevel ==
  ASSUME NEW b, BookTypeOK(b), NEW s \in Side, NEW S, S \subseteq Prices, NEW p \in S,
         IsList(b.level[s], b.best[s], S, s), Unused(b.level[s], S)
  PROVE  LevelRemoved(b, removePriceLevel(b, s, p), s, p, S)
<1> DEFINE best == b.best[s]
           levels == b.level[s]
           nx == levels[p].next
           px == levels[p].prev
           m1 == SetPrev(levels, nx, px)
           m2 == SetNext(m1, px, nx)
           m == [m2 EXCEPT ![p] = EmptyLevel]
           head == IF best = p THEN nx ELSE best
           n == removePriceLevel(b, s, p)
<1>1. n = [b EXCEPT !.level[s] = m, !.best[s] = head]
  BY DEF removePriceLevel
<1>2. /\ levels \in [Prices -> PriceLevel] /\ best \in Pointer(Prices)
      /\ IsList(levels, best, S, s) /\ Unused(levels, S) /\ p \in Prices
  BY BookFields
<1>3. /\ nx \in Pointer(Prices) /\ px \in Pointer(Prices) /\ head \in Pointer(Prices)
      /\ DOMAIN levels = Prices
  BY <1>2 DEF PriceLevel
<1>4. /\ S \subseteq Nat /\ nullptr \notin Prices
      /\ Follows(nx, p, S, s) /\ Follows(px, p, S, Opposite(s))
  BY <1>2, VectorAssumption, NullIsNoNode DEF IsList
<1> HIDE DEF levels, best, nx, px
<1>5. m1 \in [Prices -> PriceLevel] /\ PrevIsSet(levels, m1, nx, px) /\ SameEnds(levels, m1)
  BY <1>2, <1>3, SetLevelLink
<1> HIDE DEF m1
<1>6. m2 \in [Prices -> PriceLevel] /\ NextIsSet(m1, m2, px, nx) /\ SameEnds(m1, m2)
  BY <1>3, <1>5, SetLevelLink
<1> HIDE DEF m2
<1>7. /\ m \in [Prices -> PriceLevel] /\ m[p] = EmptyLevel
      /\ \A q \in Prices : q # p => m[q] = m2[q]
  BY <1>2, <1>6, EmptyLevelType
<1> HIDE DEF m, head
<1>8. ASSUME NEW q \in Prices, q # p
      PROVE  /\ m[q].next = IF q = px THEN nx ELSE levels[q].next
             /\ m[q].prev = IF q = nx THEN px ELSE levels[q].prev
             /\ m[q].head = levels[q].head /\ m[q].tail = levels[q].tail
  <2>1. /\ m1[q].next = levels[q].next
        /\ m1[q].prev = IF q = nx THEN px ELSE levels[q].prev
    BY <1>3, <1>5 DEF PrevIsSet
  <2>2. /\ m2[q].next = IF q = px THEN nx ELSE m1[q].next
        /\ m2[q].prev = m1[q].prev
    <3>1. DOMAIN m1 = Prices
      BY <1>5
    <3> QED BY <1>6, <3>1 DEF NextIsSet
  <2>3. m2[q].head = levels[q].head /\ m2[q].tail = levels[q].tail
    BY <1>5, <1>6 DEF SameEnds
  <2> QED BY <1>7, <1>8, <2>1, <2>2, <2>3
<1>9. Relinks(b, n, s, m, head)
  <2>1. Relinks(b, [b EXCEPT !.level[s] = m, !.best[s] = head], s, m, head)
    BY <1>3, <1>7, Relinked
  <2> HIDE DEF n
  <2> QED BY <1>1, <2>1
<1>10. n.level[s] = m /\ n.best[s] = head
  BY <1>9 DEF Relinks
<1>11. Unlinked(levels, m, p, S)
  BY <1>8 DEF Unlinked, nx, px
<1>12. IsList(m, head, S \ {p}, s)
  BY <1>2, <1>4, <1>11, UnlinkList DEF head, nx
<1>13. Unused(m, S \ {p})
  <2>1. ASSUME NEW q \in Prices \ (S \ {p})
        PROVE  m[q].next = nullptr /\ m[q].prev = nullptr
    <3>1. CASE q = p
      BY <3>1, <1>7, EmptyLevelType
    <3>2. CASE q # p
      <4>1. q \in Prices \ S /\ q # nx /\ q # px
        BY <3>2, <1>4 DEF Follows
      <4> QED BY <3>2, <4>1, <1>2, <1>8 DEF Unused
    <3> QED BY <3>1, <3>2
  <2> QED BY <2>1 DEF Unused
<1> HIDE DEF n
<1> QED BY <1>7, <1>8, <1>9, <1>10, <1>12, <1>13 DEF LevelRemoved, n, levels

(* insert and remove assign the pool, one level and the index.             *)
Rewrites(k, n, pool, s, p, level, orders) ==
  /\ BookTypeOK(n)
  /\ n.pool = pool /\ n.orders = orders
  /\ n.best = k.best /\ n.nextMarketOrderId = k.nextMarketOrderId
  /\ n.level[s][p] = level
  /\ \A t \in Side, q \in Prices : t # s \/ q # p => n.level[t][q] = k.level[t][q]

(* Writing the pool, one level and the index changes nothing else of the   *)
(* book.                                                                   *)
LEMMA Rewritten ==
  ASSUME NEW k, BookTypeOK(k), NEW s \in Side, NEW p \in Prices, NEW level \in PriceLevel,
         NEW pool, pool \in [DOMAIN pool -> MEOrder], DOMAIN pool \subseteq Nat,
         NEW orders, orders \in [DOMAIN orders -> Nat]
  PROVE  Rewrites(k, [k EXCEPT !.pool = pool, !.level[s][p] = level, !.orders = orders],
                  pool, s, p, level, orders)
<1> DEFINE newLevel == [k.level EXCEPT ![s][p] = level]
           n == [k EXCEPT !.pool = pool, !.level[s][p] = level, !.orders = orders]
           next == k.nextMarketOrderId
           m1 == [k EXCEPT !.pool = pool]
           m2 == [m1 EXCEPT !.level = newLevel]
<1>1. k = Book(k.pool, k.level, k.best, k.orders, next)
  BY BookShape
<1>2. /\ k.level \in [Side -> [Prices -> PriceLevel]] /\ k.best \in [Side -> Pointer(Prices)]
      /\ next \in Nat
  BY BookFields
<1>3. /\ newLevel \in [Side -> [Prices -> PriceLevel]] /\ newLevel[s][p] = level
      /\ \A t \in Side, q \in Prices : t # s \/ q # p => newLevel[t][q] = k.level[t][q]
  BY <1>2
<1>4. m1 = Book(pool, k.level, k.best, k.orders, next) /\ m1.level = k.level
  <2> HIDE DEF next
  <2> QED BY <1>1, BookAssigned, SMTT(30), SMTT(60)
<1>5. n = [m2 EXCEPT !.orders = orders]
  <2>1. n = [[m1 EXCEPT !.level[s][p] = level] EXCEPT !.orders = orders]
    OBVIOUS
  <2>2. [m1 EXCEPT !.level[s][p] = level] = [m1 EXCEPT !.level = [m1.level EXCEPT ![s][p] = level]]
    OBVIOUS
  <2> HIDE DEF m1, n
  <2> QED BY <1>4, <2>1, <2>2
<1> HIDE DEF m1, newLevel, n, next
<1>6. m2 = Book(pool, newLevel, k.best, k.orders, next)
  BY <1>4, BookAssigned, SMTT(30), SMTT(60)
<1> HIDE DEF m2
<1>7. n = Book(pool, newLevel, k.best, orders, next)
  BY <1>5, <1>6, BookAssigned, SMTT(30), SMTT(60)
<1>8. BookTypeOK(n)
  BY <1>2, <1>3, <1>7, BookMade
<1>9. /\ n.pool = pool /\ n.level = newLevel /\ n.best = k.best /\ n.orders = orders
      /\ n.nextMarketOrderId = k.nextMarketOrderId
  BY <1>7 DEF Book, next
<1> QED BY <1>3, <1>8, <1>9 DEF Rewrites, n

(* The map without the key.                                                *)
LEMMA Erased ==
  ASSUME NEW m, NEW k, NEW T, m \in [DOMAIN m -> T]
  PROVE  /\ Erase(m, k) \in [DOMAIN m \ {k} -> T]
         /\ DOMAIN Erase(m, k) = DOMAIN m \ {k}
         /\ \A x \in DOMAIN m \ {k} : Erase(m, k)[x] = m[x]
BY DEF Erase, Restrict

(* The pool as remove leaves it.                                           *)
WithoutOrder(pool, new, id) ==
  /\ new \in [DOMAIN pool \ {id} -> MEOrder]
  /\ Unlinked(pool, new, id, DOMAIN pool)
  /\ \A i \in DOMAIN pool \ {id} :
       /\ SameOrder(pool[i], new[i])
       /\ new[i].remainingQuantity = pool[i].remainingQuantity

(* remove takes the order out between its two neighbours.                  *)
LEMMA UnlinkOrder ==
  ASSUME NEW pool, pool \in [DOMAIN pool -> MEOrder], DOMAIN pool \subseteq Nat,
         NEW id \in DOMAIN pool, pool[id].next \in Pointer(DOMAIN pool),
         pool[id].prev \in Pointer(DOMAIN pool)
  PROVE  WithoutOrder(pool,
           Erase(SetPrev(SetNext(pool, pool[id].prev, pool[id].next),
                         pool[id].next, pool[id].prev), id), id)
<1> DEFINE D == DOMAIN pool
           nx == pool[id].next
           px == pool[id].prev
           m1 == SetNext(pool, px, nx)
           m2 == SetPrev(m1, nx, px)
           m == Erase(m2, id)
<1>1. nx \in Pointer(Nat) /\ px \in Pointer(Nat)
  BY DEF Pointer
<1> HIDE DEF nx, px
<1>2. m1 \in [D -> MEOrder] /\ NextIsSet(pool, m1, px, nx) /\ SameOrders(pool, m1)
  BY <1>1, SetOrderLink DEF nx, px
<1> HIDE DEF m1
<1>3. DOMAIN m1 = D /\ m1 \in [DOMAIN m1 -> MEOrder] /\ DOMAIN m1 \subseteq Nat
  BY <1>2
<1>4. m2 \in [D -> MEOrder] /\ PrevIsSet(m1, m2, nx, px) /\ SameOrders(m1, m2)
  BY <1>1, <1>3, SetOrderLink DEF nx
<1> HIDE DEF m2
<1>5. DOMAIN m2 = D /\ m2 \in [DOMAIN m2 -> MEOrder]
  BY <1>4
<1>6. m \in [D \ {id} -> MEOrder] /\ \A i \in D \ {id} : m[i] = m2[i]
  BY <1>5, Erased
<1> HIDE DEF m
<1>7. ASSUME NEW i \in D \ {id}
      PROVE  /\ m[i].next = IF i = px THEN nx ELSE pool[i].next
             /\ m[i].prev = IF i = nx THEN px ELSE pool[i].prev
             /\ SameOrder(pool[i], m[i])
             /\ m[i].remainingQuantity = pool[i].remainingQuantity
  <2>1. /\ m1[i].next = IF i = px THEN nx ELSE pool[i].next
        /\ m1[i].prev = pool[i].prev
        /\ SameOrder(pool[i], m1[i])
        /\ m1[i].remainingQuantity = pool[i].remainingQuantity
    BY <1>2 DEF NextIsSet, SameOrders
  <2>2. /\ m2[i].next = m1[i].next
        /\ m2[i].prev = IF i = nx THEN px ELSE m1[i].prev
        /\ SameOrder(m1[i], m2[i])
        /\ m2[i].remainingQuantity = m1[i].remainingQuantity
    BY <1>3, <1>4 DEF PrevIsSet, SameOrders
  <2> QED BY <1>6, <2>1, <2>2 DEF SameOrder
<1>8. Unlinked(pool, m, id, D)
  BY <1>7 DEF Unlinked, nx, px
<1> QED BY <1>6, <1>7, <1>8 DEF WithoutOrder, m, m2, m1, nx, px

(* The orders of a book lie on its sides and price levels.                 *)
LEMMA OrdersPlaced ==
  ASSUME NEW b, BookTypeOK(b)
  PROVE  /\ \A i \in DOMAIN b.pool : /\ b.pool[i] \in MEOrder /\ i \in Nat
                                     /\ b.pool[i].side \in Side
                                     /\ b.pool[i].price \in Prices
                                     /\ b.pool[i].clientId \in Clients
                                     /\ b.pool[i].clientOrderId \in Nat
         /\ \A s, p : OrdersAt(b, s, p) \subseteq DOMAIN b.pool
         /\ \A s, p : OrdersAt(b, s, p) \subseteq Nat
<1>1. \A i \in DOMAIN b.pool : b.pool[i] \in MEOrder /\ i \in Nat
  BY BookFields
<1>2. \A s, p : OrdersAt(b, s, p) \subseteq DOMAIN b.pool
  BY DEF OrdersAt
<1>3. \A o \in MEOrder : /\ o.side \in Side /\ o.price \in Prices /\ o.clientId \in Clients
                         /\ o.clientOrderId \in Nat
  BY SMTT(30), SMTT(60) DEF MEOrder
<1> QED BY <1>1, <1>2, <1>3

(* A level is occupied when it has an order.                               *)
LEMMA OccupiedLevels ==
  ASSUME NEW b, BookTypeOK(b), NEW s
  PROVE  /\ Occupied(b, s) \subseteq Prices
         /\ \A p : p \in Occupied(b, s) <=> OrdersAt(b, s, p) # {}
BY OrdersPlaced DEF Occupied, OrdersAt

(* The list of orders of one level.                                        *)
ListAt(b, s, p) ==
  /\ IsList(b.pool, b.level[s][p].head, OrdersAt(b, s, p), "SELL")
  /\ Leads(b.level[s][p].tail, OrdersAt(b, s, p), "BUY")

(* The links of an order lead to orders of the same level.                 *)
LEMMA NeighboursThere ==
  ASSUME NEW b, BookTypeOK(b), OrdersLinked(b), NEW id \in DOMAIN b.pool
  PROVE  LET o == b.pool[id]
             S == OrdersAt(b, o.side, o.price)
         IN  /\ id \in S
             /\ o.next \in Pointer(S \ {id}) /\ o.prev \in Pointer(S \ {id})
             /\ Follows(o.next, id, S, "SELL") /\ Follows(o.prev, id, S, "BUY")
<1> DEFINE o == b.pool[id]
           S == OrdersAt(b, o.side, o.price)
<1>1. id \in S /\ o.side \in Side /\ o.price \in Prices /\ S \subseteq Nat
  BY OrdersPlaced DEF OrdersAt
<1>2. IsList(b.pool, b.level[o.side][o.price].head, S, "SELL")
  BY <1>1 DEF OrdersLinked
<1>3. "BUY" = Opposite("SELL")
  BY TwoWays
<1>4. Follows(o.next, id, S, "SELL") /\ Follows(o.prev, id, S, "BUY")
  BY <1>1, <1>2, <1>3 DEF IsList
<1>5. \A x \in S : ~Better("SELL", x, x) /\ ~Better("BUY", x, x)
  BY <1>1, BetterIsOrder
<1> HIDE DEF o, S
<1>6. o.next \in Pointer(S \ {id}) /\ o.prev \in Pointer(S \ {id})
  BY <1>1, <1>4, <1>5 DEF Follows, Pointer
<1> QED BY <1>1, <1>4, <1>6 DEF o, S

(* n is b without order id.                                                *)
Drops(b, n, id) ==
  /\ DOMAIN n.pool = DOMAIN b.pool \ {id}
  /\ \A i \in DOMAIN n.pool :
       /\ SameOrder(b.pool[i], n.pool[i])
       /\ n.pool[i].remainingQuantity = b.pool[i].remainingQuantity
  /\ n.orders = Erase(b.orders, KeyOf(b.pool[id]))
  /\ n.nextMarketOrderId = b.nextMarketOrderId

(* Its level has one order less, the others have the same.                 *)
OneLess(b, n, id) == \A s, p : OrdersAt(n, s, p) = OrdersAt(b, s, p) \ {id}

(* Dropping an order takes it from its own level only.                     *)
LEMMA DropsOrders ==
  ASSUME NEW b, NEW n, NEW id, Drops(b, n, id)
  PROVE  OneLess(b, n, id)
BY DEF OneLess, Drops, SameOrder, OrdersAt

(* The index forgets the order, and still finds the others.                *)
LEMMA DropsIndex ==
  ASSUME NEW b, NEW n, BookTypeOK(b), BookTypeOK(n), NEW id \in DOMAIN b.pool, Drops(b, n, id),
         IndexFindsOrders(b)
  PROVE  IndexFindsOrders(n)
<1> DEFINE k == KeyOf(b.pool[id])
<1>1. /\ DOMAIN n.orders = DOMAIN b.orders \ {k}
      /\ \A x \in DOMAIN b.orders \ {k} : n.orders[x] = b.orders[x]
  <2>1. n.orders = Erase(b.orders, k) /\ b.orders \in [DOMAIN b.orders -> Nat]
    BY BookFields DEF Drops
  <2> HIDE DEF k
  <2>2. /\ DOMAIN Erase(b.orders, k) = DOMAIN b.orders \ {k}
        /\ \A x \in DOMAIN b.orders \ {k} : Erase(b.orders, k)[x] = b.orders[x]
    BY <2>1, Erased
  <2> QED BY <2>1, <2>2
<1>2. \A i \in DOMAIN n.pool : i \in DOMAIN b.pool /\ i # id /\ KeyOf(n.pool[i]) = KeyOf(b.pool[i])
  BY DEF Drops, SameOrder, KeyOf
<1>3. b.orders[k] = id
  BY DEF IndexFindsOrders
<1> HIDE DEF k
<1>4. ASSUME NEW i \in DOMAIN n.pool
      PROVE  KeyOf(n.pool[i]) \in DOMAIN n.orders /\ n.orders[KeyOf(n.pool[i])] = i
  <2>1. KeyOf(b.pool[i]) \in DOMAIN b.orders /\ b.orders[KeyOf(b.pool[i])] = i
    BY <1>2 DEF IndexFindsOrders
  <2> QED BY <1>1, <1>2, <1>3, <2>1
<1>5. ASSUME NEW x \in DOMAIN n.orders
      PROVE  n.orders[x] \in DOMAIN n.pool /\ KeyOf(n.pool[n.orders[x]]) = x
  <2>1. /\ x \in DOMAIN b.orders /\ x # k /\ n.orders[x] = b.orders[x]
        /\ b.orders[x] \in DOMAIN b.pool /\ KeyOf(b.pool[b.orders[x]]) = x
    BY <1>1 DEF IndexFindsOrders
  <2>2. b.orders[x] # id
    BY <2>1 DEF k
  <2>3. b.orders[x] \in DOMAIN n.pool
    BY <2>1, <2>2 DEF Drops
  <2> QED BY <2>1, <2>3, <1>2
<1> QED BY <1>4, <1>5 DEF IndexFindsOrders

(* remove's updates of the head and of the tail of a level.                *)
LEMMA UnlinkEnds ==
  ASSUME NEW S, S \subseteq Nat, NEW id \in S, NEW pool, NEW new, NEW head, NEW tail,
         IsList(pool, head, S, "SELL"), Leads(tail, S, "BUY"), Unlinked(pool, new, id, S)
  PROVE  /\ IsList(new, IF pool[id].prev = nullptr THEN pool[id].next ELSE head,
                   S \ {id}, "SELL")
         /\ Leads(IF pool[id].next = nullptr THEN pool[id].prev ELSE tail, S \ {id}, "BUY")
<1> DEFINE nx == pool[id].next
           px == pool[id].prev
<1>1. /\ Leads(head, S, "SELL") /\ Follows(nx, id, S, "SELL")
      /\ Follows(px, id, S, Opposite("SELL"))
  BY DEF IsList
<1>2. Follows(px, id, S, "BUY") /\ Follows(nx, id, S, Opposite("BUY"))
  BY <1>1, TwoWays
<1>3. IsList(new, IF head = id THEN nx ELSE head, S \ {id}, "SELL")
  BY TwoWays, UnlinkList
<1> HIDE DEF nx, px
<1>4. Leads(IF tail = id THEN px ELSE tail, S \ {id}, "BUY")
  BY <1>2, TwoWays, UnlinkLeads
<1>5. px = nullptr <=> head = id
  <2>1. PrevTellsHead(px, head, id)
    BY <1>1, TwoWays, HeadHasNoPrev
  <2> QED BY <2>1 DEF PrevTellsHead
<1>6. nx = nullptr <=> tail = id
  <2>1. PrevTellsHead(nx, tail, id)
    BY <1>2, TwoWays, HeadHasNoPrev
  <2> QED BY <2>1 DEF PrevTellsHead
<1>7. IsList(new, IF px = nullptr THEN nx ELSE head, S \ {id}, "SELL")
  BY <1>3, <1>5
<1>8. Leads(IF nx = nullptr THEN px ELSE tail, S \ {id}, "BUY")
  BY <1>4, <1>6
<1> QED BY <1>7, <1>8 DEF nx, px

(* The level of order id after remove's updates.                           *)
EndsWithout(b, n, id) ==
  LET o == b.pool[id]
      l == b.level[o.side][o.price]
      m == n.level[o.side][o.price]
  IN  /\ m.head = IF o.prev = nullptr THEN o.next ELSE l.head
      /\ m.tail = IF o.next = nullptr THEN o.prev ELSE l.tail
      /\ \A t \in Side, q \in Prices :
           t # o.side \/ q # o.price => n.level[t][q] = b.level[t][q]

(* A level that keeps all orders but one, or all of them, keeps its list.  *)
LEMMA ListWithout ==
  ASSUME NEW b, NEW n, BookTypeOK(b), OrdersLinked(b),
         NEW id \in DOMAIN b.pool, Drops(b, n, id), WithoutOrder(b.pool, n.pool, id),
         EndsWithout(b, n, id), NEW t \in Side, NEW q \in Prices
  PROVE  ListAt(n, t, q)
<1> DEFINE S == OrdersAt(b, t, q)
           head == b.level[t][q].head
           tail == b.level[t][q].tail
           o == b.pool[id]
<1>1. IsList(b.pool, head, S, "SELL") /\ Leads(tail, S, "BUY") /\ S \subseteq Nat
  BY OrdersPlaced DEF OrdersLinked
<1>2. OrdersAt(n, t, q) = S \ {id}
  <2>1. OneLess(b, n, id)
    BY DropsOrders
  <2> QED BY <2>1 DEF OneLess
<1>3. S \subseteq DOMAIN b.pool
  BY OrdersPlaced
<1>5. CASE t = o.side /\ q = o.price
  <2>1. id \in S
    BY <1>5 DEF OrdersAt
  <2>2. Unlinked(b.pool, n.pool, id, S)
    BY <1>3 DEF WithoutOrder, Unlinked
  <2>3. /\ n.level[t][q].head = IF o.prev = nullptr THEN o.next ELSE head
        /\ n.level[t][q].tail = IF o.next = nullptr THEN o.prev ELSE tail
    BY <1>5 DEF EndsWithout
  <2> HIDE DEF S, head, tail
  <2>4. /\ IsList(n.pool, IF o.prev = nullptr THEN o.next ELSE head, S \ {id}, "SELL")
        /\ Leads(IF o.next = nullptr THEN o.prev ELSE tail, S \ {id}, "BUY")
    BY <1>1, <2>1, <2>2, UnlinkEnds
  <2> HIDE DEF o
  <2> QED BY <1>2, <2>3, <2>4 DEF ListAt
<1>6. CASE ~(t = o.side /\ q = o.price)
  <2>1. n.level[t][q].head = head /\ n.level[t][q].tail = tail
    BY <1>6 DEF EndsWithout
  <2>2. id \notin S
    BY <1>6 DEF OrdersAt
  <2>3. S \ {id} = S
    BY <2>2
  <2>4. ASSUME NEW y \in S
        PROVE  n.pool[y].next = b.pool[y].next /\ n.pool[y].prev = b.pool[y].prev
    <3>1. y \in DOMAIN b.pool \ {id}
      BY <1>3, <2>2
    <3>2. y # o.next /\ y # o.prev
      <4>1. y \notin OrdersAt(b, o.side, o.price)
        BY <1>6 DEF OrdersAt
      <4>2. y # nullptr
        BY <1>1, NullIsNoNode
      <4>3. /\ o.next \in Pointer(OrdersAt(b, o.side, o.price) \ {id})
            /\ o.prev \in Pointer(OrdersAt(b, o.side, o.price) \ {id})
        BY NeighboursThere
      <4> QED BY <4>1, <4>2, <4>3 DEF Pointer
    <3> QED BY <3>1, <3>2 DEF WithoutOrder, Unlinked
  <2> HIDE DEF S, head, tail
  <2>5. IsList(n.pool, head, S, "SELL")
    BY <1>1, <2>4, SameLinks
  <2> QED BY <1>1, <1>2, <2>1, <2>3, <2>5 DEF ListAt
<1> QED BY <1>5, <1>6

(* Only the level of the dropped order may stop being occupied.            *)
OccupiedWithout(b, n, s, p) ==
  /\ \A t \in Side : t # s => Occupied(n, t) = Occupied(b, t)
  /\ p \in Occupied(b, s)
  /\ OrdersAt(n, s, p) = {} => Occupied(n, s) = Occupied(b, s) \ {p}
  /\ OrdersAt(n, s, p) # {} => Occupied(n, s) = Occupied(b, s)

(* Dropping an order frees its level if it was the last one there, and no  *)
(* other.                                                                  *)
LEMMA DropsLevel ==
  ASSUME NEW b, NEW n, BookTypeOK(b), BookTypeOK(n), NEW id \in DOMAIN b.pool, Drops(b, n, id)
  PROVE  OccupiedWithout(b, n, b.pool[id].side, b.pool[id].price)
<1> DEFINE s == b.pool[id].side
           p == b.pool[id].price
<1>1. OneLess(b, n, id)
  BY DropsOrders
<1>2. \A t, q : OrdersAt(n, t, q) = OrdersAt(b, t, q) \ {id}
  BY <1>1 DEF OneLess
<1>3. id \in OrdersAt(b, s, p)
  BY DEF OrdersAt
<1>4. \A t, q : t # s \/ q # p => id \notin OrdersAt(b, t, q)
  BY DEF OrdersAt
<1> HIDE DEF s, p
<1>5. ASSUME NEW t, NEW q, t # s \/ q # p PROVE OrdersAt(n, t, q) = OrdersAt(b, t, q)
  <2>1. id \notin OrdersAt(b, t, q)
    BY <1>4, <1>5
  <2>2. OrdersAt(b, t, q) \ {id} = OrdersAt(b, t, q)
    BY <2>1
  <2> QED BY <1>2, <2>2
<1>6. /\ \A t, q : q \in Occupied(n, t) <=> OrdersAt(n, t, q) # {}
      /\ \A t, q : q \in Occupied(b, t) <=> OrdersAt(b, t, q) # {}
  BY OccupiedLevels
<1>7. ASSUME NEW t, t # s PROVE Occupied(n, t) = Occupied(b, t)
  <2>1. ASSUME NEW q PROVE q \in Occupied(n, t) <=> q \in Occupied(b, t)
    <3>1. OrdersAt(n, t, q) = OrdersAt(b, t, q)
      BY <1>5, <1>7
    <3> QED BY <1>6, <3>1
  <2> QED BY <2>1
<1>8. p \in Occupied(b, s)
  BY <1>3, <1>6
<1>9. \A q : q # p => (q \in Occupied(n, s) <=> q \in Occupied(b, s))
  BY <1>5, <1>6
<1>10. p \in Occupied(n, s) <=> OrdersAt(n, s, p) # {}
  BY <1>6
<1>11. OrdersAt(n, s, p) = {} => Occupied(n, s) = Occupied(b, s) \ {p}
  BY <1>9, <1>10
<1>12. OrdersAt(n, s, p) # {} => Occupied(n, s) = Occupied(b, s)
  <2>1. ASSUME p \in Occupied(n, s)
        PROVE  \A q : q \in Occupied(n, s) <=> q \in Occupied(b, s)
    BY <1>8, <1>9, <2>1
  <2>2. ASSUME p \in Occupied(n, s) PROVE Occupied(n, s) = Occupied(b, s)
    BY <2>1, <2>2
  <2> QED BY <1>10, <2>2
<1> QED BY <1>7, <1>8, <1>11, <1>12 DEF OccupiedWithout, s, p

(* A level with no pointers is clear.                                      *)
IsClear(l) == l = EmptyLevel

(* A level without orders and neighbours is as it was at the start.        *)
LEMMA LevelClear ==
  ASSUME NEW l \in PriceLevel, l.head = nullptr, l.tail = nullptr, l.next = nullptr,
         l.prev = nullptr
  PROVE  IsClear(l)
BY DEF IsClear, PriceLevel, EmptyLevel

(* Assigning the ends of a level.                                          *)
HasEnds(l, m, h, t) ==
  /\ m \in PriceLevel /\ m.head = h /\ m.tail = t
  /\ m.next = l.next /\ m.prev = l.prev

(* Setting head and tail of a level keeps its place among the levels.      *)
LEMMA LevelEnds ==
  ASSUME NEW l \in PriceLevel, NEW h \in Pointer(Nat), NEW t \in Pointer(Nat)
  PROVE  HasEnds(l, [l EXCEPT !.head = h, !.tail = t], h, t)
<1> DEFINE k == [l EXCEPT !.head = h]
           m == [k EXCEPT !.tail = t]
<1>1. [l EXCEPT !.head = h, !.tail = t] = m
  OBVIOUS
<1>2. k \in PriceLevel /\ k.head = h /\ k.next = l.next /\ k.prev = l.prev
  BY SMTT(30), SMTT(60) DEF PriceLevel
<1> HIDE DEF k
<1>3. m \in PriceLevel /\ m.tail = t /\ m.head = k.head /\ m.next = k.next /\ m.prev = k.prev
  BY <1>2, SMTT(30), SMTT(60) DEF PriceLevel
<1> HIDE DEF m
<1> QED BY <1>1, <1>2, <1>3 DEF HasEnds

(* The links among the levels are as before, among the same levels.        *)
LevelsKept(b, n) ==
  /\ \A t \in Side : IsList(n.level[t], n.best[t], Occupied(b, t), t)
  /\ \A t \in Side : \A q \in Prices \ Occupied(b, t) : n.level[t][q] = EmptyLevel

(* Changing the orders of an occupied level keeps the lists of levels.     *)
LEMMA RewritesKeepsLevels ==
  ASSUME NEW b, NEW n, BookTypeOK(b), LevelsLinked(b), OthersClear(b),
         NEW s \in Side, NEW p \in Occupied(b, s), NEW pool, NEW l, NEW orders,
         Rewrites(b, n, pool, s, p, l, orders),
         l.next = b.level[s][p].next, l.prev = b.level[s][p].prev
  PROVE  LevelsKept(b, n)
<1>1. ASSUME NEW t \in Side, NEW q \in Prices
      PROVE  /\ n.level[t][q].next = b.level[t][q].next
             /\ n.level[t][q].prev = b.level[t][q].prev
  BY DEF Rewrites
<1>2. ASSUME NEW t \in Side
      PROVE  IsList(n.level[t], n.best[t], Occupied(b, t), t)
  <2>1. IsList(b.level[t], n.best[t], Occupied(b, t), t)
    BY DEF LevelsLinked, Rewrites
  <2>2. Occupied(b, t) \subseteq Prices
    BY OccupiedLevels
  <2> QED BY <1>1, <2>1, <2>2, SameLinks
<1>3. ASSUME NEW t \in Side, NEW q \in Prices \ Occupied(b, t)
      PROVE  n.level[t][q] = EmptyLevel
  <2>1. n.level[t][q] = b.level[t][q]
    BY DEF Rewrites
  <2> QED BY <2>1 DEF OthersClear
<1> QED BY <1>2, <1>3 DEF LevelsKept

(* remove up to the test whether the level is now empty.                   *)
UnlinkedBook(b, id) ==
  LET o == b.pool[id]
      l == b.level[o.side][o.price]
  IN  [b EXCEPT
        !.pool = Erase(SetPrev(SetNext(@, o.prev, o.next), o.next, o.prev), id),
        !.level[o.side][o.price] =
          [l EXCEPT !.head = IF o.prev = nullptr THEN o.next ELSE l.head,
                    !.tail = IF o.next = nullptr THEN o.prev ELSE l.tail],
        !.orders = Erase(@, KeyOf(o))]

(* It takes the order out of the list of its level and out of the index.   *)
LEMMA UnlinkedBookIs ==
  ASSUME NEW b, BookTypeOK(b), VectorBookConsistent(b), NEW id \in DOMAIN b.pool
  PROVE  LET k == UnlinkedBook(b, id)
         IN  /\ BookTypeOK(k) /\ Drops(b, k, id) /\ LevelsKept(b, k)
             /\ OrdersLinked(k) /\ IndexFindsOrders(k)
<1> DEFINE o == b.pool[id]
           s == o.side
           p == o.price
           l == b.level[s][p]
           pool == Erase(SetPrev(SetNext(b.pool, o.prev, o.next), o.next, o.prev), id)
           h == IF o.prev = nullptr THEN o.next ELSE l.head
           t == IF o.next = nullptr THEN o.prev ELSE l.tail
           m == [l EXCEPT !.head = h, !.tail = t]
           orders == Erase(b.orders, KeyOf(o))
           k == UnlinkedBook(b, id)
<1>1. /\ LevelsLinked(b) /\ OrdersLinked(b) /\ OthersClear(b) /\ IndexFindsOrders(b)
  BY DEF VectorBookConsistent
<1>2. /\ b.pool \in [DOMAIN b.pool -> MEOrder] /\ DOMAIN b.pool \subseteq Nat
      /\ b.level \in [Side -> [Prices -> PriceLevel]]
      /\ b.orders \in [DOMAIN b.orders -> Nat]
  BY BookFields
<1>3. s \in Side /\ p \in Prices
  BY OrdersPlaced
<1>4. /\ id \in OrdersAt(b, s, p)
      /\ o.next \in Pointer(OrdersAt(b, s, p) \ {id})
      /\ o.prev \in Pointer(OrdersAt(b, s, p) \ {id})
  BY <1>1, NeighboursThere
<1>5. o.next \in Pointer(DOMAIN b.pool) /\ o.prev \in Pointer(DOMAIN b.pool)
  BY <1>4 DEF Pointer, OrdersAt
<1>6. WithoutOrder(b.pool, pool, id)
  BY <1>2, <1>5, UnlinkOrder
<1>7. l \in PriceLevel
  BY <1>2, <1>3
<1>8. h \in Pointer(Nat) /\ t \in Pointer(Nat)
  <2>1. l.head \in Pointer(Nat) /\ l.tail \in Pointer(Nat)
    BY <1>7 DEF PriceLevel
  <2>2. o.next \in Pointer(Nat) /\ o.prev \in Pointer(Nat)
    BY <1>2, <1>5 DEF Pointer
  <2> QED BY <2>1, <2>2
<1>9. p \in Occupied(b, s)
  BY <1>4, OccupiedLevels
<1>10. k = [b EXCEPT !.pool = pool, !.level[s][p] = m, !.orders = orders]
  BY DEF UnlinkedBook
<1> HIDE DEF h, t, l, pool, k, orders
<1>11. m \in PriceLevel /\ m.head = h /\ m.tail = t /\ m.next = l.next /\ m.prev = l.prev
  <2>1. HasEnds(l, m, h, t)
    BY <1>7, <1>8, LevelEnds
  <2> QED BY <2>1 DEF HasEnds
<1>12. /\ pool \in [DOMAIN pool -> MEOrder] /\ DOMAIN pool \subseteq Nat
       /\ DOMAIN pool = DOMAIN b.pool \ {id}
  BY <1>2, <1>6 DEF WithoutOrder
<1>13. orders \in [DOMAIN orders -> Nat]
  <2> DEFINE key == KeyOf(o)
  <2> HIDE DEF key
  <2>1. /\ Erase(b.orders, key) \in [DOMAIN b.orders \ {key} -> Nat]
        /\ DOMAIN Erase(b.orders, key) = DOMAIN b.orders \ {key}
    BY <1>2, Erased
  <2> QED BY <2>1 DEF orders, key
<1> HIDE DEF m, o, s, p
<1>14. Rewrites(b, k, pool, s, p, m, orders)
  <2>1. Rewrites(b, [b EXCEPT !.pool = pool, !.level[s][p] = m, !.orders = orders],
                 pool, s, p, m, orders)
    BY <1>3, <1>11, <1>12, <1>13, Rewritten
  <2> QED BY <1>10, <2>1
<1>15. /\ BookTypeOK(k) /\ k.pool = pool /\ k.orders = orders /\ k.level[s][p] = m
       /\ k.nextMarketOrderId = b.nextMarketOrderId
       /\ \A u \in Side, q \in Prices : u # s \/ q # p => k.level[u][q] = b.level[u][q]
  BY <1>14 DEF Rewrites
<1>16. LevelsKept(b, k)
  BY <1>1, <1>3, <1>9, <1>11, <1>14, RewritesKeepsLevels DEF l
<1>17. WithoutOrder(b.pool, k.pool, id)
  BY <1>6, <1>15
<1>18. Drops(b, k, id)
  BY <1>12, <1>15, <1>17 DEF Drops, WithoutOrder, orders, o
<1>19. EndsWithout(b, k, id)
  BY <1>11, <1>15 DEF EndsWithout, h, t, l, s, p, o
<1>20. OrdersLinked(k)
  <2>1. ASSUME NEW u \in Side, NEW q \in Prices PROVE ListAt(k, u, q)
    BY <1>1, <1>17, <1>18, <1>19, ListWithout
  <2> QED BY <2>1 DEF OrdersLinked, ListAt
<1>21. IndexFindsOrders(k)
  BY <1>1, <1>15, <1>18, DropsIndex
<1> QED BY <1>15, <1>16, <1>18, <1>20, <1>21 DEF k

(* The links of the levels lead to occupied levels only.                   *)
LEMMA KeptUnused ==
  ASSUME NEW b, NEW n, LevelsKept(b, n), NEW s \in Side
  PROVE  Unused(n.level[s], Occupied(b, s)) /\ IsList(n.level[s], n.best[s], Occupied(b, s), s)
BY EmptyLevelType DEF LevelsKept, Unused

(* Clearing the level that lost its last order.                            *)
LEMMA EmptiedLevel ==
  ASSUME NEW b, NEW k, BookTypeOK(b), BookTypeOK(k), LevelsKept(b, k), OrdersLinked(k),
         NEW s \in Side, NEW p \in Prices, OccupiedWithout(b, k, s, p),
         OrdersAt(k, s, p) = {}
  PROVE  LET n == removePriceLevel(k, s, p)
         IN  /\ BookTypeOK(n) /\ n.pool = k.pool /\ n.orders = k.orders
             /\ n.nextMarketOrderId = k.nextMarketOrderId
             /\ LevelsLinked(n) /\ OrdersLinked(n) /\ OthersClear(n)
<1> DEFINE n == removePriceLevel(k, s, p)
           S == Occupied(b, s)
<1>1. S \subseteq Prices /\ p \in S
  BY OccupiedLevels DEF OccupiedWithout
<1>2. Unused(k.level[s], S) /\ IsList(k.level[s], k.best[s], S, s)
  BY KeptUnused
<1> HIDE DEF S
<1>3. LevelRemoved(k, n, s, p, S)
  BY <1>1, <1>2, RemovePriceLevel
<1> HIDE DEF n
<1>4. /\ BookTypeOK(n) /\ n.pool = k.pool /\ n.orders = k.orders
      /\ n.nextMarketOrderId = k.nextMarketOrderId
      /\ \A t \in Side : t # s => n.level[t] = k.level[t] /\ n.best[t] = k.best[t]
  BY <1>3 DEF LevelRemoved, Relinks
<1>5. \A t, q : OrdersAt(n, t, q) = OrdersAt(k, t, q)
  BY <1>4 DEF OrdersAt
<1>6. \A t : Occupied(n, t) = Occupied(k, t)
  BY <1>4 DEF Occupied
<1>7. Occupied(n, s) = S \ {p} /\ \A t \in Side : t # s => Occupied(n, t) = Occupied(b, t)
  BY <1>6 DEF OccupiedWithout, S
<1>8. LevelsLinked(n)
  <2>1. ASSUME NEW t \in Side, t # s PROVE IsList(n.level[t], n.best[t], Occupied(n, t), t)
    <3>1. /\ n.level[t] = k.level[t] /\ n.best[t] = k.best[t]
          /\ Occupied(n, t) = Occupied(b, t)
      BY <1>4, <1>7, <2>1
    <3>2. IsList(k.level[t], k.best[t], Occupied(b, t), t)
      BY DEF LevelsKept
    <3> QED BY <3>1, <3>2
  <2>2. IsList(n.level[s], n.best[s], Occupied(n, s), s)
    BY <1>3, <1>7 DEF LevelRemoved
  <2> QED BY <2>1, <2>2 DEF LevelsLinked
<1>9. ASSUME NEW t \in Side, NEW q \in Prices
      PROVE  /\ n.level[t][q].head = k.level[t][q].head
             /\ n.level[t][q].tail = k.level[t][q].tail
  <2>1. CASE t = s /\ q = p
    <3>1. Leads(k.level[s][p].head, {}, "SELL") /\ Leads(k.level[s][p].tail, {}, "BUY")
      BY DEF OrdersLinked, IsList
    <3> QED BY <1>3, <2>1, <3>1, EmptyLevelType DEF LevelRemoved, Leads
  <2>2. CASE t = s /\ q # p
    BY <1>3, <2>2 DEF LevelRemoved
  <2>3. CASE t # s
    BY <1>4, <2>3
  <2> QED BY <2>1, <2>2, <2>3
<1>10. OrdersLinked(n)
  <2>1. ASSUME NEW t \in Side, NEW q \in Prices
        PROVE  /\ IsList(n.pool, n.level[t][q].head, OrdersAt(n, t, q), "SELL")
               /\ Leads(n.level[t][q].tail, OrdersAt(n, t, q), "BUY")
    <3>1. /\ IsList(k.pool, k.level[t][q].head, OrdersAt(k, t, q), "SELL")
          /\ Leads(k.level[t][q].tail, OrdersAt(k, t, q), "BUY")
      BY DEF OrdersLinked
    <3>2. /\ OrdersAt(n, t, q) = OrdersAt(k, t, q) /\ n.pool = k.pool
          /\ n.level[t][q].head = k.level[t][q].head
          /\ n.level[t][q].tail = k.level[t][q].tail
      BY <1>4, <1>5, <1>9
    <3> QED BY <3>1, <3>2
  <2> QED BY <2>1 DEF OrdersLinked
<1>11. OthersClear(n)
  <2>1. ASSUME NEW t \in Side, NEW q \in Prices \ Occupied(n, t), t # s
        PROVE  IsClear(n.level[t][q])
    <3>1. n.level[t] = k.level[t] /\ q \in Prices \ Occupied(b, t)
      BY <1>4, <1>7, <2>1
    <3> QED BY <3>1 DEF LevelsKept, IsClear
  <2>2. ASSUME NEW q \in Prices \ Occupied(n, s), q # p
        PROVE  IsClear(n.level[s][q])
    <3>1. q \in Prices \ (S \ {p}) /\ q \in Prices \ S
      BY <1>7, <2>2
    <3>2. n.level[s][q].next = nullptr /\ n.level[s][q].prev = nullptr
      BY <1>3, <3>1 DEF LevelRemoved, Unused
    <3>3. k.level[s][q] = EmptyLevel
      BY <3>1 DEF LevelsKept, S
    <3>4. n.level[s][q].head = nullptr /\ n.level[s][q].tail = nullptr
      BY <1>3, <2>2, <3>3, EmptyLevelType DEF LevelRemoved
    <3>5. n.level[s][q] \in PriceLevel
      <4>1. BookTypeOK(n)
        BY <1>4
      <4>2. n.level \in [Side -> [Prices -> PriceLevel]]
        BY <4>1, BookFields
      <4> QED BY <4>2
    <3> DEFINE l == n.level[s][q]
    <3>6. IsClear(l)
      BY <3>2, <3>4, <3>5, LevelClear
    <3> QED BY <3>6
  <2>3. IsClear(n.level[s][p])
    BY <1>3 DEF LevelRemoved, IsClear
  <2>4. ASSUME NEW t \in Side, NEW q \in Prices \ Occupied(n, t)
        PROVE  IsClear(n.level[t][q])
    BY <2>1, <2>2, <2>3
  <2> QED BY <2>4 DEF OthersClear, IsClear
<1> QED BY <1>4, <1>8, <1>10, <1>11 DEF n

(* remove takes the order out of the book, with its level when the level   *)
(* is left without orders, and the pointers describe the orders left.      *)
Removed(b, n, id) ==
  BookTypeOK(n) /\ VectorBookConsistent(n) /\ Drops(b, n, id)

(* remove keeps the pointers of the book right, whichever order it takes   *)
(* out.                                                                    *)
LEMMA Remove ==
  ASSUME NEW b, BookTypeOK(b), VectorBookConsistent(b), NEW id \in DOMAIN b.pool
  PROVE  Removed(b, remove(b, id), id)
<1> DEFINE s == b.pool[id].side
           p == b.pool[id].price
           k == UnlinkedBook(b, id)
           n == remove(b, id)
<1>1. /\ BookTypeOK(k) /\ Drops(b, k, id) /\ LevelsKept(b, k)
      /\ OrdersLinked(k) /\ IndexFindsOrders(k)
  BY UnlinkedBookIs
<1>2. n = IF k.level[s][p].head = nullptr THEN removePriceLevel(k, s, p) ELSE k
  BY DEF remove, UnlinkedBook
<1>3. s \in Side /\ p \in Prices
  BY OrdersPlaced
<1> HIDE DEF k, n
<1>4. OccupiedWithout(b, k, s, p)
  BY <1>1, DropsLevel
<1> HIDE DEF s, p
<1>5. Leads(k.level[s][p].head, OrdersAt(k, s, p), "SELL") /\ OrdersAt(k, s, p) \subseteq Nat
  BY <1>1, <1>3, OrdersPlaced DEF OrdersLinked, IsList
<1>6. CASE k.level[s][p].head = nullptr
  <2>1. OrdersAt(k, s, p) = {}
    BY <1>5, <1>6, NullIsNoNode DEF Leads
  <2> DEFINE m == removePriceLevel(k, s, p)
  <2>2. /\ BookTypeOK(m) /\ m.pool = k.pool /\ m.orders = k.orders
        /\ m.nextMarketOrderId = k.nextMarketOrderId
        /\ LevelsLinked(m) /\ OrdersLinked(m) /\ OthersClear(m)
    BY <1>1, <1>3, <1>4, <2>1, EmptiedLevel
  <2>3. n = m
    BY <1>2, <1>6
  <2> HIDE DEF m
  <2>4. IndexFindsOrders(n)
    BY <1>1, <2>2, <2>3 DEF IndexFindsOrders
  <2>5. Drops(b, n, id)
    BY <1>1, <2>2, <2>3 DEF Drops
  <2> QED BY <2>2, <2>3, <2>4, <2>5 DEF VectorBookConsistent, Removed, n
<1>7. CASE k.level[s][p].head # nullptr
  <2>1. OrdersAt(k, s, p) # {}
    BY <1>5, <1>7 DEF Leads
  <2>2. ASSUME NEW t \in Side PROVE Occupied(k, t) = Occupied(b, t)
    BY <1>4, <2>1 DEF OccupiedWithout
  <2>3. LevelsLinked(k) /\ OthersClear(k)
    BY <1>1, <2>2 DEF LevelsKept, LevelsLinked, OthersClear
  <2>4. n = k
    BY <1>2, <1>7
  <2> QED BY <1>1, <2>3, <2>4 DEF VectorBookConsistent, Removed, n
<1> QED BY <1>6, <1>7

(* The pool as insert leaves it: the order is last in the list of its      *)
(* level, after the tail if there is one.                                  *)
WithOrder(pool, new, id, order, tail) ==
  /\ new \in [DOMAIN pool \cup {id} -> MEOrder]
  /\ LinkedIn(pool, new, tail, id, nullptr, DOMAIN pool)
  /\ SameOrder(order, new[id])
  /\ new[id].remainingQuantity = order.remainingQuantity
  /\ \A i \in DOMAIN pool : /\ SameOrder(pool[i], new[i])
                            /\ new[i].remainingQuantity = pool[i].remainingQuantity

(* insert puts the order behind the tail of its level.                     *)
LEMMA LinkOrder ==
  ASSUME NEW pool, pool \in [DOMAIN pool -> MEOrder], DOMAIN pool \subseteq Nat,
         NEW id \in Nat, id \notin DOMAIN pool, NEW tail \in Pointer(DOMAIN pool),
         NEW order \in MEOrder, order.next = nullptr
  PROVE  WithOrder(pool, SetNext(Assign(pool, id, [order EXCEPT !.prev = tail]), tail, id),
                   id, order, tail)
<1> DEFINE node == [order EXCEPT !.prev = tail]
           D == DOMAIN pool \cup {id}
           k == Assign(pool, id, node)
           m == SetNext(k, tail, id)
<1>1. tail \in Pointer(Nat) /\ id \in Pointer(Nat) /\ D \subseteq Nat /\ id \in D
  BY DEF Pointer
<1>2. /\ node \in MEOrder /\ node.prev = tail /\ node.next = nullptr
      /\ SameOrder(order, node) /\ node.remainingQuantity = order.remainingQuantity
  BY <1>1, SMTT(30), SMTT(60) DEF MEOrder, SameOrder
<1> HIDE DEF node
<1>3. /\ k \in [D -> MEOrder] /\ k[id] = node
      /\ \A i \in DOMAIN pool : k[i] = pool[i]
  BY <1>2 DEF Assign
<1> HIDE DEF k
<1>4. DOMAIN k = D /\ tail \in Pointer(DOMAIN k) /\ k \in [DOMAIN k -> MEOrder]
  BY <1>3 DEF Pointer
<1> HIDE DEF D
<1>5. m \in [D -> MEOrder] /\ NextIsSet(k, m, tail, id) /\ SameOrders(k, m)
  BY <1>1, <1>4, SetOrderLink
<1> HIDE DEF m
<1>6. tail # id
  BY NullIsNoNode DEF Pointer
<1>7. /\ m[id].next = nullptr /\ m[id].prev = tail
      /\ SameOrder(order, m[id]) /\ m[id].remainingQuantity = order.remainingQuantity
  <2>1. /\ m[id].next = k[id].next /\ m[id].prev = k[id].prev
        /\ SameOrder(k[id], m[id])
        /\ m[id].remainingQuantity = k[id].remainingQuantity
    BY <1>1, <1>4, <1>5, <1>6 DEF NextIsSet, SameOrders
  <2> QED BY <1>2, <1>3, <2>1 DEF SameOrder
<1>8. ASSUME NEW i \in DOMAIN pool
      PROVE  /\ m[i].next = IF i = tail THEN id ELSE pool[i].next
             /\ m[i].prev = pool[i].prev /\ i # nullptr
             /\ SameOrder(pool[i], m[i])
             /\ m[i].remainingQuantity = pool[i].remainingQuantity
  <2>1. i \in DOMAIN k /\ k[i] = pool[i] /\ i # nullptr
    BY <1>3, <1>4, NullIsNoNode DEF D
  <2> QED BY <1>5, <2>1 DEF NextIsSet, SameOrders
<1>9. LinkedIn(pool, m, tail, id, nullptr, DOMAIN pool)
  BY <1>7, <1>8 DEF LinkedIn
<1> QED BY <1>5, <1>7, <1>8, <1>9 DEF WithOrder, m, k, node, D

(* Appending the newest order to the list of its level.                    *)
LEMMA LinkEnds ==
  ASSUME NEW S, S \subseteq Nat, NEW id \in Nat, \A x \in S : x < id,
         NEW pool, NEW new, NEW head, NEW tail,
         IsList(pool, head, S, "SELL"), Leads(tail, S, "BUY"),
         LinkedIn(pool, new, tail, id, nullptr, S)
  PROVE  /\ IsList(new, IF tail = nullptr THEN id ELSE head, S \cup {id}, "SELL")
         /\ Leads(id, S \cup {id}, "BUY")
<1>1. \A x \in S : x # id /\ Better("SELL", x, id) /\ ~Better("SELL", id, x)
  BY SMTT(30), SMTT(60) DEF Better
<1>2. \A x, y : Better("BUY", x, y) <=> Better("SELL", y, x)
  BY OtherWay, TwoWays
<1>3. ~Better("BUY", id, id)
  BY SMTT(30), SMTT(60) DEF Better
<1>4. Follows(nullptr, id, S, "SELL")
  BY <1>1 DEF Follows
<1>5. Follows(tail, id, S, Opposite("SELL"))
  <2>1. Follows(tail, id, S, "BUY")
    BY <1>1, <1>2 DEF Leads, Follows
  <2> QED BY <2>1, TwoWays
<1>6. id \notin S
  BY <1>1
<1>7. IsList(new, IF tail = nullptr THEN id ELSE head, S \cup {id}, "SELL")
  BY <1>4, <1>5, <1>6, TwoWays, LinkList
<1>8. Leads(id, S \cup {id}, "BUY")
  BY <1>1, <1>2, <1>3 DEF Leads
<1> QED BY <1>7, <1>8

(* n is b with this order, under id.                                       *)
Adds(b, n, id, order) ==
  /\ DOMAIN n.pool = DOMAIN b.pool \cup {id}
  /\ SameOrder(order, n.pool[id])
  /\ n.pool[id].remainingQuantity = order.remainingQuantity
  /\ \A i \in DOMAIN b.pool :
       /\ SameOrder(b.pool[i], n.pool[i])
       /\ n.pool[i].remainingQuantity = b.pool[i].remainingQuantity
  /\ n.orders = Assign(b.orders, KeyOf(order), id)
  /\ n.nextMarketOrderId = b.nextMarketOrderId

(* Its level has one order more, the others have the same.                 *)
OneMore(b, n, id, s, p) ==
  /\ OrdersAt(n, s, p) = OrdersAt(b, s, p) \cup {id}
  /\ \A t, q : t # s \/ q # p => OrdersAt(n, t, q) = OrdersAt(b, t, q)

(* Adding an order adds it to its own level only.                          *)
LEMMA AddsOrders ==
  ASSUME NEW b, NEW n, NEW id, NEW order, id \notin DOMAIN b.pool, Adds(b, n, id, order)
  PROVE  OneMore(b, n, id, order.side, order.price)
<1>1. n.pool[id].side = order.side /\ n.pool[id].price = order.price
  BY DEF Adds, SameOrder
<1>2. \A i \in DOMAIN b.pool : /\ n.pool[i].side = b.pool[i].side
                               /\ n.pool[i].price = b.pool[i].price
  BY DEF Adds, SameOrder
<1>3. DOMAIN n.pool = DOMAIN b.pool \cup {id}
  BY DEF Adds
<1>4. OrdersAt(n, order.side, order.price) = OrdersAt(b, order.side, order.price) \cup {id}
  <2>1. ASSUME NEW i
        PROVE  i \in OrdersAt(n, order.side, order.price) <=>
                 i \in OrdersAt(b, order.side, order.price) \/ i = id
    BY <1>1, <1>2, <1>3 DEF OrdersAt
  <2> QED BY <2>1
<1>5. ASSUME NEW t, NEW q, t # order.side \/ q # order.price
      PROVE  OrdersAt(n, t, q) = OrdersAt(b, t, q)
  <2>1. ASSUME NEW i PROVE i \in OrdersAt(n, t, q) <=> i \in OrdersAt(b, t, q)
    BY <1>1, <1>2, <1>3, <1>5 DEF OrdersAt
  <2> QED BY <2>1
<1> QED BY <1>4, <1>5 DEF OneMore

(* The index finds the new order and still finds the others.               *)
LEMMA AddsIndex ==
  ASSUME NEW b, NEW n, NEW id, NEW order, BookTypeOK(b), id \notin DOMAIN b.pool,
         Adds(b, n, id, order), IndexFindsOrders(b), KeyOf(order) \notin DOMAIN b.orders
  PROVE  IndexFindsOrders(n)
<1> DEFINE k == KeyOf(order)
<1>1. /\ DOMAIN n.orders = DOMAIN b.orders \cup {k} /\ n.orders[k] = id
      /\ \A x \in DOMAIN b.orders : n.orders[x] = b.orders[x]
  BY DEF Adds, Assign
<1>2. \A i \in DOMAIN b.pool : KeyOf(n.pool[i]) = KeyOf(b.pool[i])
  BY DEF Adds, SameOrder, KeyOf
<1>3. KeyOf(n.pool[id]) = k
  BY DEF Adds, SameOrder, KeyOf
<1>4. DOMAIN n.pool = DOMAIN b.pool \cup {id} /\ k \notin DOMAIN b.orders
  BY DEF Adds
<1> HIDE DEF k
<1>5. ASSUME NEW i \in DOMAIN n.pool
      PROVE  KeyOf(n.pool[i]) \in DOMAIN n.orders /\ n.orders[KeyOf(n.pool[i])] = i
  <2>1. CASE i = id
    BY <1>1, <1>3, <2>1
  <2>2. CASE i # id
    <3>1. i \in DOMAIN b.pool
      BY <1>4, <2>2
    <3>2. KeyOf(b.pool[i]) \in DOMAIN b.orders /\ b.orders[KeyOf(b.pool[i])] = i
      BY <3>1 DEF IndexFindsOrders
    <3> QED BY <1>1, <1>2, <3>1, <3>2
  <2> QED BY <2>1, <2>2
<1>6. ASSUME NEW x \in DOMAIN n.orders
      PROVE  n.orders[x] \in DOMAIN n.pool /\ KeyOf(n.pool[n.orders[x]]) = x
  <2>1. CASE x = k
    BY <1>1, <1>3, <1>4, <2>1
  <2>2. CASE x # k
    <3>1. /\ x \in DOMAIN b.orders /\ n.orders[x] = b.orders[x]
          /\ b.orders[x] \in DOMAIN b.pool /\ KeyOf(b.pool[b.orders[x]]) = x
      BY <1>1, <2>2 DEF IndexFindsOrders
    <3> QED BY <1>2, <1>4, <3>1
  <2> QED BY <2>1, <2>2
<1> QED BY <1>5, <1>6 DEF IndexFindsOrders

(* Only the level of the new order may start being occupied.               *)
OccupiedWith(b, n, s, p) ==
  /\ \A t \in Side : t # s => Occupied(n, t) = Occupied(b, t)
  /\ Occupied(n, s) = Occupied(b, s) \cup {p}

(* Adding an order occupies its own level and no other.                    *)
LEMMA AddsLevel ==
  ASSUME NEW b, NEW n, BookTypeOK(b), BookTypeOK(n), NEW id, NEW s, NEW p,
         OneMore(b, n, id, s, p)
  PROVE  OccupiedWith(b, n, s, p)
<1>1. /\ \A t, q : q \in Occupied(n, t) <=> OrdersAt(n, t, q) # {}
      /\ \A t, q : q \in Occupied(b, t) <=> OrdersAt(b, t, q) # {}
  BY OccupiedLevels
<1>2. OrdersAt(n, s, p) # {}
  BY DEF OneMore
<1>3. ASSUME NEW t, NEW q, t # s \/ q # p
      PROVE  q \in Occupied(n, t) <=> q \in Occupied(b, t)
  <2>1. OrdersAt(n, t, q) = OrdersAt(b, t, q)
    BY <1>3 DEF OneMore
  <2> QED BY <1>1, <2>1
<1>4. ASSUME NEW t, t # s PROVE Occupied(n, t) = Occupied(b, t)
  <2>1. \A q : q \in Occupied(n, t) <=> q \in Occupied(b, t)
    BY <1>3, <1>4
  <2> QED BY <2>1
<1>5. Occupied(n, s) = Occupied(b, s) \cup {p}
  <2>1. p \in Occupied(n, s)
    BY <1>1, <1>2
  <2>2. \A q : q \in Occupied(n, s) <=> q \in Occupied(b, s) \/ q = p
    BY <1>3, <2>1
  <2> QED BY <2>2
<1> QED BY <1>4, <1>5 DEF OccupiedWith

(* The ends of the levels after insert.                                    *)
EndsWith(b, n, id, order, tail) ==
  LET s == order.side
      p == order.price
  IN  /\ n.level[s][p].head = IF tail = nullptr THEN id ELSE b.level[s][p].head
      /\ n.level[s][p].tail = id
      /\ \A t \in Side, q \in Prices : t # s \/ q # p =>
           /\ n.level[t][q].head = b.level[t][q].head
           /\ n.level[t][q].tail = b.level[t][q].tail

(* A level that gets the order, or none, keeps its list.                   *)
LEMMA ListWith ==
  ASSUME NEW b, NEW n, BookTypeOK(b), OrdersLinked(b), NEW id \in Nat,
         \A i \in DOMAIN b.pool : i < id, NEW order \in MEOrder, NEW tail,
         tail = b.level[order.side][order.price].tail,
         WithOrder(b.pool, n.pool, id, order, tail), EndsWith(b, n, id, order, tail),
         OneMore(b, n, id, order.side, order.price), NEW t \in Side, NEW q \in Prices
  PROVE  ListAt(n, t, q)
<1> DEFINE S == OrdersAt(b, t, q)
           head == b.level[t][q].head
           s == order.side
           p == order.price
<1>1. IsList(b.pool, head, S, "SELL") /\ Leads(b.level[t][q].tail, S, "BUY") /\ S \subseteq Nat
  BY OrdersPlaced DEF OrdersLinked
<1>2. S \subseteq DOMAIN b.pool
  BY OrdersPlaced
<1>3. CASE t = s /\ q = p
  <2>1. Leads(tail, S, "BUY")
    BY <1>1, <1>3
  <2>2. \A x \in S : x < id
    BY <1>2
  <2>3. LinkedIn(b.pool, n.pool, tail, id, nullptr, S)
    BY <1>2 DEF WithOrder, LinkedIn
  <2>4. /\ n.level[t][q].head = IF tail = nullptr THEN id ELSE head
        /\ n.level[t][q].tail = id
    BY <1>3 DEF EndsWith
  <2>5. OrdersAt(n, t, q) = S \cup {id}
    BY <1>3 DEF OneMore
  <2> HIDE DEF S, head, s, p
  <2>6. /\ IsList(n.pool, IF tail = nullptr THEN id ELSE head, S \cup {id}, "SELL")
        /\ Leads(id, S \cup {id}, "BUY")
    BY <1>1, <2>1, <2>2, <2>3, LinkEnds
  <2> QED BY <2>4, <2>5, <2>6 DEF ListAt
<1>4. CASE ~(t = s /\ q = p)
  <2>1. n.level[t][q].head = head /\ n.level[t][q].tail = b.level[t][q].tail
    BY <1>4 DEF EndsWith
  <2>2. OrdersAt(n, t, q) = S
    BY <1>4 DEF OneMore
  <2>3. tail = nullptr \/ tail \in OrdersAt(b, s, p)
    <3>1. s \in Side /\ p \in Prices
      BY DEF MEOrder
    <3> QED BY <3>1 DEF OrdersLinked, Leads
  <2>4. ASSUME NEW y \in S
        PROVE  n.pool[y].next = b.pool[y].next /\ n.pool[y].prev = b.pool[y].prev
    <3>1. y \in DOMAIN b.pool /\ y # nullptr
      BY <1>1, <1>2, NullIsNoNode
    <3>2. y \notin OrdersAt(b, s, p)
      BY <1>4 DEF OrdersAt
    <3>3. y # tail
      BY <2>3, <3>1, <3>2
    <3> QED BY <3>1, <3>3 DEF WithOrder, LinkedIn
  <2> HIDE DEF S, head
  <2>5. IsList(n.pool, head, S, "SELL")
    BY <1>1, <2>4, SameLinks
  <2> QED BY <1>1, <2>1, <2>2, <2>5 DEF ListAt
<1> QED BY <1>3, <1>4

(* k is b with the level at p in the list of its side.                     *)
LevelReady(b, k, s, p) ==
  /\ BookTypeOK(k) /\ k.pool = b.pool /\ k.orders = b.orders
  /\ k.nextMarketOrderId = b.nextMarketOrderId
  /\ SameEnds(b.level[s], k.level[s])
  /\ \A t \in Side : t # s => k.level[t] = b.level[t] /\ k.best[t] = b.best[t]
  /\ IsList(k.level[s], k.best[s], Occupied(b, s) \cup {p}, s)
  /\ Unused(k.level[s], Occupied(b, s) \cup {p})

(* insert links the level first when it has no orders yet.                 *)
LEMMA ReadyLevel ==
  ASSUME NEW b, BookTypeOK(b), VectorBookConsistent(b), NEW s \in Side, NEW p \in Prices
  PROVE  LevelReady(b, IF b.level[s][p].head = nullptr THEN insertPricelevel(b, s, p) ELSE b,
                    s, p)
<1> DEFINE S == Occupied(b, s)
<1>1. S \subseteq Prices /\ (p \in S <=> OrdersAt(b, s, p) # {})
  BY OccupiedLevels
<1>2. Leads(b.level[s][p].head, OrdersAt(b, s, p), "SELL") /\ OrdersAt(b, s, p) \subseteq Nat
  BY OrdersPlaced DEF VectorBookConsistent, OrdersLinked, IsList
<1>3. IsList(b.level[s], b.best[s], S, s)
  BY DEF VectorBookConsistent, LevelsLinked
<1>4. Unused(b.level[s], S)
  BY EmptyLevelType DEF VectorBookConsistent, OthersClear, Unused
<1> HIDE DEF S
<1>5. CASE b.level[s][p].head = nullptr
  <2> DEFINE k == insertPricelevel(b, s, p)
  <2>1. p \notin S
    BY <1>1, <1>2, <1>5, NullIsNoNode DEF Leads
  <2>2. LevelInserted(b, k, s, p, S)
    BY <1>1, <1>3, <1>4, <2>1, InsertPricelevel
  <2> HIDE DEF k
  <2>3. LevelReady(b, k, s, p)
    BY <2>2 DEF LevelInserted, Relinks, LevelReady, S
  <2> QED BY <1>5, <2>3 DEF k
<1>6. CASE b.level[s][p].head # nullptr
  <2>1. p \in S
    BY <1>1, <1>2, <1>6 DEF Leads
  <2>2. S \cup {p} = S
    BY <2>1
  <2>3. LevelReady(b, b, s, p)
    BY <1>3, <1>4, <2>2 DEF LevelReady, SameEnds, S
  <2> QED BY <1>6, <2>3
<1> QED BY <1>5, <1>6

(* The level then gets the order: its links stay, and so do those of the   *)
(* other levels.                                                           *)
LEMMA ReadyLevelsLinked ==
  ASSUME NEW b, NEW k, NEW n, BookTypeOK(b), VectorBookConsistent(b),
         NEW s \in Side, NEW p \in Prices, LevelReady(b, k, s, p),
         NEW pool, NEW l, NEW orders, Rewrites(k, n, pool, s, p, l, orders),
         l.next = k.level[s][p].next, l.prev = k.level[s][p].prev,
         OccupiedWith(b, n, s, p)
  PROVE  LevelsLinked(n) /\ OthersClear(n)
<1> DEFINE S == Occupied(b, s)
<1>1. ASSUME NEW t \in Side, NEW q \in Prices
      PROVE  /\ n.level[t][q].next = k.level[t][q].next
             /\ n.level[t][q].prev = k.level[t][q].prev
  BY DEF Rewrites
<1>2. \A t \in Side : Occupied(b, t) \subseteq Prices
  BY OccupiedLevels
<1>3. \A t \in Side : n.best[t] = k.best[t]
  BY DEF Rewrites
<1>4. ASSUME NEW t \in Side PROVE IsList(n.level[t], n.best[t], Occupied(n, t), t)
  <2>1. IsList(k.level[t], k.best[t], Occupied(n, t), t)
    <3>1. CASE t = s
      BY <3>1 DEF LevelReady, OccupiedWith
    <3>2. CASE t # s
      <4>1. /\ k.level[t] = b.level[t] /\ k.best[t] = b.best[t]
            /\ Occupied(n, t) = Occupied(b, t)
        BY <3>2 DEF LevelReady, OccupiedWith
      <4>2. IsList(b.level[t], b.best[t], Occupied(b, t), t)
        BY DEF VectorBookConsistent, LevelsLinked
      <4> QED BY <4>1, <4>2
    <3> QED BY <3>1, <3>2
  <2>2. Occupied(n, t) \subseteq Prices
    BY <1>2 DEF OccupiedWith
  <2>3. IsList(n.level[t], k.best[t], Occupied(n, t), t)
    BY <1>1, <2>1, <2>2, SameLinks
  <2> QED BY <1>3, <2>3
<1>5. ASSUME NEW t \in Side, NEW q \in Prices \ Occupied(n, t)
      PROVE  IsClear(n.level[t][q])
  <2>1. q \in Prices \ Occupied(b, t) /\ ~(t = s /\ q = p)
    BY DEF OccupiedWith
  <2>2. n.level[t][q] = k.level[t][q]
    BY <2>1 DEF Rewrites
  <2>3. b.level[t][q] = EmptyLevel
    BY <2>1 DEF VectorBookConsistent, OthersClear
  <2>4. CASE t # s
    BY <2>2, <2>3, <2>4 DEF LevelReady, IsClear
  <2>5. CASE t = s
    <3> DEFINE m == k.level[s][q]
    <3>1. q \in Prices \ (Occupied(b, s) \cup {p})
      BY <2>1, <2>5
    <3>2. m.next = nullptr /\ m.prev = nullptr
      BY <3>1 DEF LevelReady, Unused
    <3>3. m.head = nullptr /\ m.tail = nullptr
      <4>1. m.head = b.level[s][q].head /\ m.tail = b.level[s][q].tail
        BY DEF LevelReady, SameEnds
      <4> QED BY <4>1, <2>3, <2>5, EmptyLevelType
    <3>4. m \in PriceLevel
      <4>1. BookTypeOK(k)
        BY DEF LevelReady
      <4>2. k.level \in [Side -> [Prices -> PriceLevel]]
        BY <4>1, BookFields
      <4> QED BY <4>2
    <3>5. IsClear(m)
      BY <3>2, <3>3, <3>4, LevelClear
    <3> QED BY <2>2, <2>5, <3>5
  <2> QED BY <2>4, <2>5
<1> QED BY <1>4, <1>5 DEF LevelsLinked, OthersClear, IsClear

(* insert puts the order at the end of its level, and the pointers         *)
(* describe the orders with it.                                            *)
Inserted(b, n, id, order) ==
  BookTypeOK(n) /\ VectorBookConsistent(n) /\ Adds(b, n, id, order)

(* insert keeps the pointers of the book right, wherever the order comes   *)
(* to rest.                                                                *)
LEMMA Insert ==
  ASSUME NEW b, BookTypeOK(b), VectorBookConsistent(b), NEW id \in Nat,
         \A i \in DOMAIN b.pool : i < id, NEW order \in MEOrder, order.next = nullptr,
         KeyOf(order) \notin DOMAIN b.orders
  PROVE  Inserted(b, insert(b, id, order), id, order)
<1> DEFINE s == order.side
           p == order.price
           first == b.level[s][p].head = nullptr
           tail == IF first THEN nullptr ELSE b.level[s][p].tail
           k == IF first THEN insertPricelevel(b, s, p) ELSE b
           l == k.level[s][p]
           h == IF first THEN id ELSE l.head
           pool == SetNext(Assign(b.pool, id, [order EXCEPT !.prev = tail]), tail, id)
           m == [l EXCEPT !.head = h, !.tail = id]
           orders == Assign(b.orders, KeyOf(order), id)
           n == insert(b, id, order)
<1>1. n = [k EXCEPT !.pool = pool, !.level[s][p] = m, !.orders = orders]
  BY DEF insert
<1>2. s \in Side /\ p \in Prices
  BY DEF MEOrder
<1>3. LevelReady(b, k, s, p)
  BY <1>2, ReadyLevel
<1>4. /\ Leads(b.level[s][p].head, OrdersAt(b, s, p), "SELL")
      /\ Leads(b.level[s][p].tail, OrdersAt(b, s, p), "BUY")
      /\ OrdersAt(b, s, p) \subseteq Nat /\ OrdersAt(b, s, p) \subseteq DOMAIN b.pool
  BY <1>2, OrdersPlaced DEF VectorBookConsistent, OrdersLinked, IsList
<1>5. /\ tail = b.level[s][p].tail /\ tail \in Pointer(DOMAIN b.pool)
      /\ first <=> tail = nullptr
  BY <1>4, NullIsNoNode DEF Leads, Pointer
<1>6. id \notin DOMAIN b.pool /\ id \in Pointer(Nat)
  <2>1. ~(id < id)
    BY SMTT(30), SMTT(60)
  <2> QED BY <2>1 DEF Pointer
<1> HIDE DEF k, n, tail
<1>7. b.pool \in [DOMAIN b.pool -> MEOrder] /\ DOMAIN b.pool \subseteq Nat
  BY BookFields
<1>8. WithOrder(b.pool, pool, id, order, tail)
  BY <1>5, <1>6, <1>7, LinkOrder
<1> HIDE DEF pool
<1>9. BookTypeOK(k) /\ SameEnds(b.level[s], k.level[s])
  BY <1>3 DEF LevelReady
<1>10. /\ l \in PriceLevel /\ l.head \in Pointer(Nat)
       /\ l.head = b.level[s][p].head
  <2>1. k.level \in [Side -> [Prices -> PriceLevel]]
    BY <1>9, BookFields
  <2>2. l \in PriceLevel
    BY <1>2, <2>1
  <2> QED BY <1>2, <1>9, <2>2 DEF PriceLevel, SameEnds
<1> HIDE DEF l
<1>11. h \in Pointer(Nat) /\ h = IF tail = nullptr THEN id ELSE b.level[s][p].head
  BY <1>5, <1>6, <1>10
<1> HIDE DEF h, first
<1>12. HasEnds(l, m, h, id)
  BY <1>6, <1>10, <1>11, LevelEnds
<1> HIDE DEF m
<1>13. orders \in [DOMAIN orders -> Nat]
  <2>1. b.orders \in [DOMAIN b.orders -> Nat]
    BY BookFields
  <2> QED BY <2>1 DEF Assign
<1> HIDE DEF orders, s, p
<1>14. /\ pool \in [DOMAIN pool -> MEOrder] /\ DOMAIN pool \subseteq Nat
       /\ DOMAIN pool = DOMAIN b.pool \cup {id}
  BY <1>7, <1>8 DEF WithOrder
<1>15. Rewrites(k, n, pool, s, p, m, orders)
  <2>1. m \in PriceLevel
    BY <1>12 DEF HasEnds
  <2>2. Rewrites(k, [k EXCEPT !.pool = pool, !.level[s][p] = m, !.orders = orders],
                 pool, s, p, m, orders)
    BY <1>2, <1>9, <1>13, <1>14, <2>1, Rewritten
  <2> QED BY <1>1, <2>2
<1>16. /\ BookTypeOK(n) /\ n.pool = pool /\ n.orders = orders /\ n.level[s][p] = m
       /\ n.nextMarketOrderId = b.nextMarketOrderId
       /\ \A t \in Side, q \in Prices : t # s \/ q # p => n.level[t][q] = k.level[t][q]
  BY <1>3, <1>15 DEF Rewrites, LevelReady
<1>17. Adds(b, n, id, order)
  BY <1>8, <1>14, <1>16 DEF Adds, WithOrder, orders
<1>18. OneMore(b, n, id, s, p)
  BY <1>6, <1>17, AddsOrders DEF s, p
<1>19. OccupiedWith(b, n, s, p)
  BY <1>16, <1>18, AddsLevel
<1>20. LevelsLinked(n) /\ OthersClear(n)
  <2>1. m.next = k.level[s][p].next /\ m.prev = k.level[s][p].prev
    BY <1>12 DEF HasEnds, l
  <2> QED BY <1>2, <1>3, <1>15, <1>19, <2>1, ReadyLevelsLinked
<1>21. EndsWith(b, n, id, order, tail)
  <2>1. m.head = (IF tail = nullptr THEN id ELSE b.level[s][p].head) /\ m.tail = id
    BY <1>11, <1>12 DEF HasEnds
  <2>2. ASSUME NEW t \in Side, NEW q \in Prices, t # s \/ q # p
        PROVE  /\ n.level[t][q].head = b.level[t][q].head
               /\ n.level[t][q].tail = b.level[t][q].tail
    <3>1. n.level[t][q] = k.level[t][q]
      BY <1>16, <2>2
    <3>2. /\ k.level[t][q].head = b.level[t][q].head
          /\ k.level[t][q].tail = b.level[t][q].tail
      BY <1>3 DEF LevelReady, SameEnds
    <3> QED BY <3>1, <3>2
  <2> QED BY <1>16, <2>1, <2>2 DEF EndsWith, s, p
<1>22. OrdersLinked(n)
  <2>1. /\ WithOrder(b.pool, n.pool, id, order, tail) /\ OrdersLinked(b)
        /\ OneMore(b, n, id, order.side, order.price)
        /\ tail = b.level[order.side][order.price].tail
    BY <1>5, <1>8, <1>16, <1>18 DEF VectorBookConsistent, s, p
  <2>2. ASSUME NEW t \in Side, NEW q \in Prices PROVE ListAt(n, t, q)
    BY <1>21, <2>1, ListWith
  <2> QED BY <2>2 DEF OrdersLinked, ListAt
<1>23. IndexFindsOrders(n)
  BY <1>6, <1>17, AddsIndex DEF VectorBookConsistent
<1> QED BY <1>16, <1>17, <1>20, <1>22, <1>23 DEF VectorBookConsistent, Inserted, n

(* A book whose orders, links and index are the same describes them as     *)
(* well: what remains of an order, and the next id, are not links.         *)
SameStructure(b, n) ==
  /\ DOMAIN n.pool = DOMAIN b.pool /\ n.level = b.level /\ n.best = b.best
  /\ n.orders = b.orders
  /\ \A i \in DOMAIN b.pool : /\ SameOrder(b.pool[i], n.pool[i])
                              /\ n.pool[i].next = b.pool[i].next
                              /\ n.pool[i].prev = b.pool[i].prev

(* Consistency is a matter of the links alone: quantities may change.      *)
LEMMA StructureConsistent ==
  ASSUME NEW b, NEW n, BookTypeOK(b), BookTypeOK(n), VectorBookConsistent(b),
         SameStructure(b, n)
  PROVE  VectorBookConsistent(n)
<1>1. ASSUME NEW s, NEW p PROVE OrdersAt(n, s, p) = OrdersAt(b, s, p)
  <2>1. ASSUME NEW i PROVE i \in OrdersAt(n, s, p) <=> i \in OrdersAt(b, s, p)
    BY DEF OrdersAt, SameStructure, SameOrder
  <2> QED BY <2>1
<1>2. ASSUME NEW s PROVE Occupied(n, s) = Occupied(b, s)
  <2>1. ASSUME NEW p PROVE p \in Occupied(n, s) <=> p \in Occupied(b, s)
    <3>1. p \in Occupied(n, s) <=> OrdersAt(n, s, p) # {}
      BY OccupiedLevels
    <3>2. p \in Occupied(b, s) <=> OrdersAt(b, s, p) # {}
      BY OccupiedLevels
    <3>3. OrdersAt(n, s, p) = OrdersAt(b, s, p)
      BY <1>1
    <3> QED BY <3>1, <3>2, <3>3
  <2> QED BY <2>1
<1>3. LevelsLinked(n)
  <2>1. ASSUME NEW s \in Side PROVE IsList(n.level[s], n.best[s], Occupied(n, s), s)
    <3>1. IsList(b.level[s], b.best[s], Occupied(b, s), s)
      BY DEF VectorBookConsistent, LevelsLinked
    <3>2. n.level = b.level /\ n.best = b.best /\ Occupied(n, s) = Occupied(b, s)
      BY <1>2 DEF SameStructure
    <3> QED BY <3>1, <3>2
  <2> QED BY <2>1 DEF LevelsLinked
<1>4. OthersClear(n)
  <2>1. n.level = b.level /\ \A s : Occupied(n, s) = Occupied(b, s)
    BY <1>2 DEF SameStructure
  <2> QED BY <2>1 DEF VectorBookConsistent, OthersClear
<1>5. OrdersLinked(n)
  <2>1. ASSUME NEW s \in Side, NEW p \in Prices PROVE ListAt(n, s, p)
    <3> DEFINE S == OrdersAt(b, s, p)
               head == b.level[s][p].head
    <3>1. /\ IsList(b.pool, head, S, "SELL") /\ Leads(b.level[s][p].tail, S, "BUY")
      BY DEF VectorBookConsistent, OrdersLinked
    <3>2. n.level = b.level /\ OrdersAt(n, s, p) = S
      BY <1>1 DEF SameStructure
    <3>3. \A y \in S : n.pool[y].next = b.pool[y].next /\ n.pool[y].prev = b.pool[y].prev
      BY DEF SameStructure, OrdersAt
    <3> HIDE DEF S, head
    <3>4. IsList(n.pool, head, S, "SELL")
      BY <3>1, <3>3, SameLinks
    <3> QED BY <3>1, <3>2, <3>4 DEF ListAt, head
  <2> QED BY <2>1 DEF OrdersLinked, ListAt
<1>6. IndexFindsOrders(n)
  <2>1. /\ DOMAIN n.pool = DOMAIN b.pool /\ n.orders = b.orders
        /\ \A i \in DOMAIN b.pool : KeyOf(n.pool[i]) = KeyOf(b.pool[i])
    BY DEF SameStructure, SameOrder, KeyOf
  <2> QED BY <2>1 DEF VectorBookConsistent, IndexFindsOrders
<1> QED BY <1>3, <1>4, <1>5, <1>6 DEF VectorBookConsistent

(* n is b with qty left of order id, which is gone when that is nothing.   *)
Leaves(b, n, id, qty) ==
  /\ BookTypeOK(n) /\ VectorBookConsistent(n)
  /\ DOMAIN n.pool = IF qty = 0 THEN DOMAIN b.pool \ {id} ELSE DOMAIN b.pool
  /\ \A i \in DOMAIN n.pool :
       /\ SameOrder(b.pool[i], n.pool[i])
       /\ n.pool[i].remainingQuantity =
            IF i = id THEN qty ELSE b.pool[i].remainingQuantity
  /\ n.nextMarketOrderId = b.nextMarketOrderId

(* Assigning remaining_quantity_ leaves every link as it is.               *)
LEMMA SetRemainingLeaves ==
  ASSUME NEW b, BookTypeOK(b), VectorBookConsistent(b), NEW id \in DOMAIN b.pool,
         NEW qty \in Quantity
  PROVE  Leaves(b, SetRemaining(b, id, qty), id, qty)
<1> DEFINE n == SetRemaining(b, id, qty)
<1>1. CASE qty = 0
  <2>1. n = remove(b, id)
    BY <1>1 DEF SetRemaining
  <2>2. Removed(b, remove(b, id), id)
    BY Remove
  <2> HIDE DEF n
  <2>3. Removed(b, n, id)
    BY <2>1, <2>2
  <2>4. /\ DOMAIN n.pool = DOMAIN b.pool \ {id} /\ n.nextMarketOrderId = b.nextMarketOrderId
        /\ \A i \in DOMAIN n.pool :
             /\ i # id /\ SameOrder(b.pool[i], n.pool[i])
             /\ n.pool[i].remainingQuantity = b.pool[i].remainingQuantity
    BY <2>3 DEF Removed, Drops
  <2> QED BY <1>1, <2>3, <2>4 DEF Removed, Leaves, n
<1>2. CASE qty # 0
  <2> DEFINE o == [b.pool[id] EXCEPT !.remainingQuantity = qty]
             pool == [b.pool EXCEPT ![id] = o]
  <2>1. b.pool \in [DOMAIN b.pool -> MEOrder] /\ DOMAIN b.pool \subseteq Nat
    BY BookFields
  <2>2. /\ o \in MEOrder /\ o.remainingQuantity = qty /\ SameOrder(b.pool[id], o)
        /\ o.next = b.pool[id].next /\ o.prev = b.pool[id].prev
    <3>1. b.pool[id] \in MEOrder
      BY <2>1
    <3> QED BY <3>1, SMTT(30), SMTT(60) DEF MEOrder, SameOrder
  <2>3. n = [b EXCEPT !.pool = pool]
    BY <1>2 DEF SetRemaining
  <2> HIDE DEF o, n
  <2>4. /\ DOMAIN pool = DOMAIN b.pool /\ pool \in [DOMAIN pool -> MEOrder]
        /\ pool[id] = o /\ \A i \in DOMAIN b.pool : i # id => pool[i] = b.pool[i]
    BY <2>1, <2>2
  <2> HIDE DEF pool
  <2>5. n = Book(pool, b.level, b.best, b.orders, b.nextMarketOrderId)
    <3>1. b = Book(b.pool, b.level, b.best, b.orders, b.nextMarketOrderId)
      BY BookShape
    <3> DEFINE next == b.nextMarketOrderId
               k == [b EXCEPT !.pool = pool]
    <3> HIDE DEF next
    <3>2. k = Book(pool, b.level, b.best, b.orders, next)
      BY <3>1, BookAssigned, SMTT(30), SMTT(60) DEF next
    <3> QED BY <2>3, <3>2 DEF next
  <2>6. /\ n.pool = pool /\ n.level = b.level /\ n.best = b.best /\ n.orders = b.orders
        /\ n.nextMarketOrderId = b.nextMarketOrderId
    BY <2>5 DEF Book
  <2>7. BookTypeOK(n)
    BY <2>1, <2>4, <2>5, BookFields, BookMade
  <2>8. ASSUME NEW i \in DOMAIN b.pool
        PROVE  /\ SameOrder(b.pool[i], n.pool[i])
               /\ n.pool[i].next = b.pool[i].next /\ n.pool[i].prev = b.pool[i].prev
               /\ n.pool[i].remainingQuantity =
                    IF i = id THEN qty ELSE b.pool[i].remainingQuantity
    BY <2>2, <2>4, <2>6 DEF SameOrder
  <2>9. SameStructure(b, n)
    BY <2>4, <2>6, <2>8 DEF SameStructure
  <2>10. VectorBookConsistent(n)
    BY <2>7, <2>9, StructureConsistent
  <2> QED BY <1>2, <2>4, <2>6, <2>7, <2>8, <2>10 DEF Leaves, n
<1> QED BY <1>1, <1>2

(* A book with another next id.                                            *)
TakesId(b, n) ==
  /\ BookTypeOK(n) /\ VectorBookConsistent(n)
  /\ n.pool = b.pool /\ n.best = b.best /\ n.level = b.level /\ n.orders = b.orders
  /\ n.nextMarketOrderId = b.nextMarketOrderId + 1

(* next_market_order_id_++ leaves every link as it is.                     *)
LEMMA IdTaken ==
  ASSUME NEW b, BookTypeOK(b), VectorBookConsistent(b)
  PROVE  TakesId(b, [b EXCEPT !.nextMarketOrderId = b.nextMarketOrderId + 1])
<1> DEFINE next == b.nextMarketOrderId + 1
           n == [b EXCEPT !.nextMarketOrderId = next]
<1>1. b.nextMarketOrderId \in Nat
  BY BookFields
<1>2. next \in Nat
  BY <1>1, SMTT(30), SMTT(60)
<1>3. b = Book(b.pool, b.level, b.best, b.orders, b.nextMarketOrderId)
  BY BookShape
<1> DEFINE old == b.nextMarketOrderId
<1> HIDE DEF next, old
<1>4. n = Book(b.pool, b.level, b.best, b.orders, next)
  BY <1>3, BookAssigned, SMTT(30), SMTT(60) DEF old
<1> HIDE DEF n
<1>5. /\ n.pool = b.pool /\ n.level = b.level /\ n.best = b.best /\ n.orders = b.orders
      /\ n.nextMarketOrderId = next
  BY <1>4 DEF Book
<1>6. BookTypeOK(n)
  BY <1>2, <1>4, BookFields, BookMade
<1>7. SameStructure(b, n)
  BY <1>5 DEF SameStructure, SameOrder
<1>8. VectorBookConsistent(n)
  BY <1>6, <1>7, StructureConsistent
<1> QED BY <1>5, <1>6, <1>8 DEF TakesId, n, next

(* The book the engine starts with.                                        *)
LEMMA EmptyBookGood ==
  /\ BookTypeOK(EmptyBook) /\ VectorBookConsistent(EmptyBook)
  /\ DOMAIN EmptyBook.pool = {}
<1> DEFINE b == EmptyBook
<1>1. /\ b.pool = EmptyMap /\ b.orders = EmptyMap /\ b.nextMarketOrderId = 1
      /\ b.level = [s \in Side |-> [p \in Prices |-> EmptyLevel]]
      /\ b.best = [s \in Side |-> nullptr]
  BY DEF EmptyBook
<1>2. DOMAIN b.pool = {} /\ DOMAIN b.orders = {}
  BY <1>1 DEF EmptyMap
<1>3. BookTypeOK(b)
  <2>1. b.pool \in [DOMAIN b.pool -> MEOrder] /\ b.orders \in [DOMAIN b.orders -> Nat]
    BY <1>1, <1>2 DEF EmptyMap
  <2>2. b.level \in [Side -> [Prices -> PriceLevel]]
    BY <1>1, EmptyLevelType
  <2>3. b.best \in [Side -> Pointer(Prices)]
    BY <1>1 DEF Pointer
  <2>4. b.nextMarketOrderId \in Nat
    BY <1>1, SMTT(30), SMTT(60)
  <2>5. b = Book(b.pool, b.level, b.best, b.orders, b.nextMarketOrderId)
    BY <1>1 DEF EmptyBook, Book
  <2>6. DOMAIN b.pool \subseteq Nat
    BY <1>2
  <2> HIDE DEF b
  <2>7. BookTypeOK(Book(b.pool, b.level, b.best, b.orders, b.nextMarketOrderId))
    BY <2>1, <2>2, <2>3, <2>4, <2>6, BookMade
  <2> QED BY <2>5, <2>7 DEF b
<1>4. /\ \A s, p : OrdersAt(b, s, p) = {}
      /\ \A s : Occupied(b, s) = {}
  BY <1>2 DEF OrdersAt, Occupied
<1> HIDE DEF b
<1>5. /\ \A s \in Side : b.best[s] = nullptr
      /\ \A s \in Side, p \in Prices : b.level[s][p] = EmptyLevel
  <2>1. ASSUME NEW s \in Side PROVE b.best[s] = nullptr
    BY <1>1
  <2>2. ASSUME NEW s \in Side, NEW p \in Prices PROVE b.level[s][p] = EmptyLevel
    <3> DEFINE row == [q \in Prices |-> EmptyLevel]
    <3>1. row[p] = EmptyLevel
      OBVIOUS
    <3>2. b.level = [u \in Side |-> row]
      BY <1>1
    <3> HIDE DEF row
    <3>3. b.level[s] = row
      BY <3>2
    <3> QED BY <3>1, <3>3
  <2> QED BY <2>1, <2>2
<1>a. \A nodes, side : IsList(nodes, nullptr, {}, side) /\ Leads(nullptr, {}, side)
  BY DEF IsList, Leads
<1>6. LevelsLinked(b)
  <2>1. ASSUME NEW s \in Side PROVE IsList(b.level[s], b.best[s], Occupied(b, s), s)
    <3>1. b.best[s] = nullptr /\ Occupied(b, s) = {}
      BY <1>4, <1>5
    <3> QED BY <1>a, <3>1
  <2> QED BY <2>1 DEF LevelsLinked
<1>7. OrdersLinked(b)
  <2>1. ASSUME NEW s \in Side, NEW p \in Prices PROVE ListAt(b, s, p)
    <3>1. /\ b.level[s][p].head = nullptr /\ b.level[s][p].tail = nullptr
          /\ OrdersAt(b, s, p) = {}
      BY <1>4, <1>5, EmptyLevelType
    <3> QED BY <1>a, <3>1 DEF ListAt
  <2> QED BY <2>1 DEF OrdersLinked, ListAt
<1>8. OthersClear(b)
  BY <1>5 DEF OthersClear
<1>9. IndexFindsOrders(b)
  BY <1>2 DEF IndexFindsOrders
<1> QED BY <1>2, <1>3, <1>6, <1>7, <1>8, <1>9 DEF VectorBookConsistent, b

-----------------------------------------------------------------------------
(* The invariant of the engine.                                            *)

Token == [clientId : Clients, tickerId : Tickers]

(* RestingKnown, TakerIsNew and LevelInHand for one book, one order in     *)
(* hand and the ids handed out.                                            *)
Known(b, t, tokens) ==
  \A id \in DOMAIN b.pool :
    /\ id < b.nextMarketOrderId
    /\ b.pool[id].remainingQuantity > 0
    /\ b.pool[id].clientOrderId \in DOMAIN tokens
    /\ tokens[b.pool[id].clientOrderId] =
         [clientId |-> b.pool[id].clientId, tickerId |-> t]

HoldsLevel(k, b) ==
  LET side == Opposite(k.side)
  IN  \/ k.level = b.best[side]
      \/ /\ k.level # nullptr
         /\ b.level[side][k.level].head = nullptr
         /\ ~Better(side, k.price, k.level)

NewerThan(k, b) ==
  \A id \in DOMAIN b.pool : /\ id < k.marketOrderId
                            /\ b.pool[id].clientOrderId # k.clientOrderId

GoodBook(b, t, tokens) ==
  BookTypeOK(b) /\ VectorBookConsistent(b) /\ Known(b, t, tokens)

GoodTaker(k, b, tokens) ==
  /\ k \in Taker
  /\ k.marketOrderId < b.nextMarketOrderId
  /\ k.clientOrderId \in DOMAIN tokens
  /\ tokens[k.clientOrderId] = [clientId |-> k.clientId, tickerId |-> k.ticker]
  /\ NewerThan(k, b)
  /\ HoldsLevel(k, b)

(* VectorSupport and VectorBooksConsistent, book by book.                  *)
VectorInv ==
  /\ DOMAIN books = Tickers
  /\ \A t \in Tickers : GoodBook(books[t], t, id_to_token)
  /\ id_to_token \in Seq(Token)
  /\ taker # NoTaker => GoodTaker(taker, books[taker.ticker], id_to_token)

(* The inductive invariant implies the two that runs check.                *)
LEMMA InvIsSupport == VectorInv => VectorSupport /\ VectorBooksConsistent
<1> SUFFICES ASSUME VectorInv PROVE VectorSupport /\ VectorBooksConsistent
  OBVIOUS
<1>1. VectorBooksConsistent
  BY DEF VectorInv, GoodBook, VectorBooksConsistent
<1>2. TypeOK
  BY DEF VectorInv, GoodBook, GoodTaker, TypeOK, Token
<1>3. RestingKnown
  BY DEF VectorInv, GoodBook, Known, RestingKnown
<1>4. TakerIsNew
  BY DEF VectorInv, GoodTaker, NewerThan, TakerIsNew
<1>5. LevelInHand
  BY DEF VectorInv, GoodTaker, HoldsLevel, LevelInHand
<1> QED BY <1>1, <1>2, <1>3, <1>4, <1>5 DEF VectorSupport

(* The ids handed out keep what they were registered with.                 *)
TokensGrow(tokens, more) ==
  DOMAIN tokens \subseteq DOMAIN more /\ \A i \in DOMAIN tokens : more[i] = tokens[i]

(* The gateway's next id is new and stands for client and ticker.          *)
TokenAdded(tokens, more, c, t) ==
  /\ more \in Seq(Token) /\ TokensGrow(tokens, more) /\ Len(tokens) + 1 \in Nat
  /\ Len(tokens) + 1 \in DOMAIN more /\ Len(tokens) + 1 \notin DOMAIN tokens
  /\ more[Len(tokens) + 1] = [clientId |-> c, tickerId |-> t]

(* registerNewToken adds one id and keeps the earlier ones.                *)
LEMMA Registered ==
  ASSUME NEW tokens \in Seq(Token), NEW c \in Clients, NEW t \in Tickers, NEW more,
         more = Append(tokens, [clientId |-> c, tickerId |-> t])
  PROVE  TokenAdded(tokens, more, c, t)
<1> DEFINE token == [clientId |-> c, tickerId |-> t]
<1>1. token \in Token
  BY DEF Token
<1> HIDE DEF token
<1>2. /\ more \in Seq(Token) /\ Len(tokens) \in Nat /\ DOMAIN tokens = 1 .. Len(tokens)
      /\ Len(more) = Len(tokens) + 1 /\ DOMAIN more = 1 .. Len(more)
      /\ \A i \in 1 .. Len(tokens) : more[i] = tokens[i]
      /\ more[Len(tokens) + 1] = token
  BY <1>1, SMTT(30), SMTT(60) DEF token
<1>3. /\ Len(tokens) + 1 \in Nat /\ Len(tokens) + 1 \in 1 .. (Len(tokens) + 1)
      /\ Len(tokens) + 1 \notin 1 .. Len(tokens)
      /\ 1 .. Len(tokens) \subseteq 1 .. (Len(tokens) + 1)
  BY <1>2, SMTT(30), SMTT(60)
<1> QED BY <1>2, <1>3 DEF TokenAdded, TokensGrow, token

(* What is known of a sequence and its elements.                           *)
LEMMA SequenceParts ==
  ASSUME NEW S, NEW s \in Seq(S)
  PROVE  /\ Len(s) \in Nat /\ DOMAIN s = 1 .. Len(s)
         /\ \A i \in 1 .. Len(s) : s[i] \in S
BY SMTT(30), SMTT(60)

(* The client and ticker of an id.                                         *)
LEMMA TokenType ==
  ASSUME NEW tokens \in Seq(Token), NEW i \in DOMAIN tokens
  PROVE  /\ i \in Nat /\ tokens[i].clientId \in Clients /\ tokens[i].tickerId \in Tickers
<1>1. i \in 1 .. Len(tokens)
  BY SequenceParts
<1>2. tokens[i] \in Token
  BY <1>1, SequenceParts
<1>3. i \in Nat
  BY <1>1, SequenceParts, SMTT(30), SMTT(60)
<1> QED BY <1>2, <1>3 DEF Token

(* Handing out ids changes nothing for a book.                             *)
LEMMA BookStaysGood ==
  ASSUME NEW b, NEW t, NEW tokens, NEW more, GoodBook(b, t, tokens),
         TokensGrow(tokens, more)
  PROVE  GoodBook(b, t, more)
BY DEF GoodBook, Known, TokensGrow

(* A step changes at most one book, and the order in hand is of that book. *)
LEMMA StepInv ==
  ASSUME VectorInv, NEW t \in Tickers, NEW n, books' = [books EXCEPT ![t] = n],
         id_to_token' \in Seq(Token), TokensGrow(id_to_token, id_to_token'),
         GoodBook(n, t, id_to_token'),
         taker' # NoTaker => taker'.ticker = t /\ GoodTaker(taker', n, id_to_token')
  PROVE  VectorInv'
<1>1. DOMAIN books' = Tickers /\ books'[t] = n
  BY DEF VectorInv
<1>2. ASSUME NEW u \in Tickers PROVE GoodBook(books'[u], u, id_to_token')
  <2>1. CASE u = t
    BY <1>1, <2>1
  <2>2. CASE u # t
    <3>1. books'[u] = books[u] /\ GoodBook(books[u], u, id_to_token)
      BY <2>2 DEF VectorInv
    <3>2. GoodBook(books[u], u, id_to_token')
      BY <3>1, BookStaysGood
    <3> QED BY <3>1, <3>2
  <2> QED BY <2>1, <2>2
<1>3. ASSUME taker' # NoTaker PROVE GoodTaker(taker', books'[taker'.ticker], id_to_token')
  BY <1>1, <1>3
<1> QED BY <1>1, <1>2, <1>3 DEF VectorInv

(* A step that changes no book.                                            *)
LEMMA SameBooksInv ==
  ASSUME VectorInv, UNCHANGED books, id_to_token' \in Seq(Token),
         TokensGrow(id_to_token, id_to_token'),
         taker' # NoTaker => GoodTaker(taker', books[taker'.ticker], id_to_token')
  PROVE  VectorInv'
<1>1. ASSUME NEW u \in Tickers PROVE GoodBook(books[u], u, id_to_token')
  <2>1. GoodBook(books[u], u, id_to_token)
    BY DEF VectorInv
  <2> QED BY <2>1, BookStaysGood
<1> QED BY <1>1 DEF VectorInv

(* The same ids are still known.                                           *)
LEMMA SameTokens == \A tokens : TokensGrow(tokens, tokens)
BY DEF TokensGrow

(* An order that is handed to match is newer than those that rest.         *)
LEMMA TakerStarts ==
  ASSUME NEW b, NEW n, NEW t \in Tickers, NEW tokens \in Seq(Token), NEW more,
         NEW c \in Clients, NEW orderType \in OrderType, NEW side \in Side,
         NEW price \in Prices, NEW qty \in Quantity, NEW replacing \in BOOLEAN,
         GoodBook(b, t, tokens), TokenAdded(tokens, more, c, t), BookTypeOK(n),
         DOMAIN n.pool \subseteq DOMAIN b.pool,
         \A i \in DOMAIN n.pool : SameOrder(b.pool[i], n.pool[i]),
         n.nextMarketOrderId = b.nextMarketOrderId + 1,
         NEW k, k = [ticker |-> t, clientId |-> c, clientOrderId |-> Len(tokens) + 1,
                     marketOrderId |-> b.nextMarketOrderId, orderType |-> orderType,
                     side |-> side, price |-> price, remaining |-> qty,
                     replacing |-> replacing, level |-> n.best[Opposite(side)]]
  PROVE  k.ticker = t /\ GoodTaker(k, n, more)
<1>1. b.nextMarketOrderId \in Nat /\ n.best \in [Side -> Pointer(Prices)] /\ BookTypeOK(b)
  BY BookFields DEF GoodBook
<1>2. Opposite(side) \in Side
  BY OtherWay
<1>3. /\ k.ticker = t /\ k.clientId = c /\ k.clientOrderId = Len(tokens) + 1
      /\ k.marketOrderId = b.nextMarketOrderId /\ k.side = side
      /\ k.level = n.best[Opposite(side)]
  OBVIOUS
<1>4. k \in Taker
  <2>1. Len(tokens) + 1 \in Nat
    BY DEF TokenAdded
  <2> QED BY <1>1, <1>2, <2>1 DEF Taker
<1>5. k.marketOrderId < n.nextMarketOrderId
  BY <1>1, <1>3, SMTT(30), SMTT(60)
<1>6. ASSUME NEW i \in DOMAIN n.pool
      PROVE  i < k.marketOrderId /\ n.pool[i].clientOrderId # k.clientOrderId
  <2>1. i < b.nextMarketOrderId /\ b.pool[i].clientOrderId \in DOMAIN tokens
    BY DEF GoodBook, Known
  <2>2. n.pool[i].clientOrderId = b.pool[i].clientOrderId
    BY DEF SameOrder
  <2> QED BY <1>3, <2>1, <2>2 DEF TokenAdded
<1>7. HoldsLevel(k, n)
  BY <1>3 DEF HoldsLevel
<1> QED BY <1>3, <1>4, <1>5, <1>6, <1>7 DEF GoodTaker, NewerThan, TokenAdded

(* A book whose orders are among those of b, with something left, is good. *)
LEMMA FewerKnown ==
  ASSUME NEW b, NEW n, NEW t, NEW tokens, Known(b, t, tokens),
         BookTypeOK(b), BookTypeOK(n), DOMAIN n.pool \subseteq DOMAIN b.pool,
         \A i \in DOMAIN n.pool : SameOrder(b.pool[i], n.pool[i]),
         \A i \in DOMAIN n.pool : n.pool[i].remainingQuantity > 0,
         b.nextMarketOrderId <= n.nextMarketOrderId
  PROVE  Known(n, t, tokens)
<1>1. ASSUME NEW i \in DOMAIN n.pool
      PROVE  /\ i < n.nextMarketOrderId
             /\ n.pool[i].clientOrderId \in DOMAIN tokens
             /\ tokens[n.pool[i].clientOrderId] =
                  [clientId |-> n.pool[i].clientId, tickerId |-> t]
  <2>1. /\ i < b.nextMarketOrderId
        /\ b.pool[i].clientOrderId \in DOMAIN tokens
        /\ tokens[b.pool[i].clientOrderId] =
             [clientId |-> b.pool[i].clientId, tickerId |-> t]
    BY DEF Known
  <2>2. i < n.nextMarketOrderId
    <3>1. /\ b.nextMarketOrderId \in Nat /\ n.nextMarketOrderId \in Nat /\ i \in Nat
      BY BookFields
    <3> QED BY <2>1, <3>1, SMTT(30), SMTT(60)
  <2>3. /\ n.pool[i].clientOrderId = b.pool[i].clientOrderId
        /\ n.pool[i].clientId = b.pool[i].clientId
    BY DEF SameOrder
  <2> QED BY <2>1, <2>2, <2>3
<1> QED BY <1>1 DEF Known

(* addOrder, up to its call of match, preserves the invariant.             *)
LEMMA AddOrderInv ==
  ASSUME VectorInv, NEW c \in Clients, NEW t \in Tickers, NEW orderType \in OrderType,
         NEW side \in Side, NEW price \in Prices, NEW qty \in Quantity,
         AddOrder(c, t, orderType, side, price, qty)
  PROVE  VectorInv'
<1> DEFINE b == books[t]
           n == [b EXCEPT !.nextMarketOrderId = b.nextMarketOrderId + 1]
           k == [ticker |-> t, clientId |-> c, clientOrderId |-> Len(id_to_token) + 1,
                 marketOrderId |-> b.nextMarketOrderId, orderType |-> orderType,
                 side |-> side, price |-> price, remaining |-> qty,
                 replacing |-> FALSE, level |-> b.best[Opposite(side)]]
<1>1. /\ books' = [books EXCEPT ![t] = n]
      /\ id_to_token' = Append(id_to_token, [clientId |-> c, tickerId |-> t])
      /\ taker' = k
  BY DEF AddOrder, Register, MatchIn
<1>2. id_to_token \in Seq(Token) /\ GoodBook(b, t, id_to_token)
  BY DEF VectorInv
<1>3. TokenAdded(id_to_token, id_to_token', c, t)
  BY <1>1, <1>2, Registered
<1>4. TakesId(b, n)
  BY <1>2, IdTaken DEF GoodBook
<1> HIDE DEF n, b
<1>5. /\ BookTypeOK(b) /\ BookTypeOK(n) /\ VectorBookConsistent(n) /\ n.pool = b.pool
      /\ n.best = b.best /\ n.nextMarketOrderId = b.nextMarketOrderId + 1
      /\ Known(b, t, id_to_token)
  BY <1>2, <1>4 DEF TakesId, GoodBook
<1>6. \A i \in DOMAIN n.pool : SameOrder(b.pool[i], n.pool[i])
  BY <1>5 DEF SameOrder
<1>7. GoodBook(n, t, id_to_token)
  <2>1. b.nextMarketOrderId <= n.nextMarketOrderId
    <3>1. b.nextMarketOrderId \in Nat
      BY <1>5, BookFields
    <3> QED BY <1>5, <3>1, SMTT(30), SMTT(60)
  <2>2. \A i \in DOMAIN n.pool : n.pool[i].remainingQuantity > 0
    BY <1>5 DEF Known
  <2>3. Known(n, t, id_to_token)
    BY <1>5, <1>6, <2>1, <2>2, FewerKnown
  <2> QED BY <1>5, <2>3 DEF GoodBook
<1>8. GoodBook(n, t, id_to_token') /\ TokensGrow(id_to_token, id_to_token')
  BY <1>3, <1>7, BookStaysGood DEF TokenAdded
<1>9. k.ticker = t /\ GoodTaker(k, n, id_to_token')
  <2>1. k = [ticker |-> t, clientId |-> c, clientOrderId |-> Len(id_to_token) + 1,
             marketOrderId |-> b.nextMarketOrderId, orderType |-> orderType,
             side |-> side, price |-> price, remaining |-> qty,
             replacing |-> FALSE, level |-> n.best[Opposite(side)]]
    BY <1>5
  <2>2. DOMAIN n.pool \subseteq DOMAIN b.pool /\ FALSE \in BOOLEAN
    BY <1>5
  <2> HIDE DEF k
  <2> QED BY <1>2, <1>3, <1>5, <1>6, <2>1, <2>2, TakerStarts
<1> HIDE DEF k
<1> QED BY <1>1, <1>3, <1>8, <1>9, StepInv DEF TokenAdded

(* What remains of a quantity, and of both sides of a fill.                *)
LEMMA QuantityMinus ==
  ASSUME NEW q \in Quantity, NEW r \in Quantity, q <= r
  PROVE  r - q \in Quantity
BY VectorAssumption, SMTT(30), SMTT(60) DEF Quantity

(* The smaller of two quantities can be taken from both.                   *)
LEMMA FillQuantity ==
  ASSUME NEW q \in Quantity, NEW r \in Quantity
  PROVE  LET fill == IF q <= r THEN q ELSE r
         IN  fill \in Quantity /\ q - fill \in Quantity /\ r - fill \in Quantity
BY VectorAssumption, SMTT(30), SMTT(60) DEF Quantity

(* A quantity is positive or zero.                                         *)
LEMMA PositiveQuantity ==
  ASSUME NEW q \in Quantity
  PROVE  q > 0 <=> q # 0
BY VectorAssumption, SMTT(30), SMTT(60) DEF Quantity

(* A book that SetRemaining leaves is good.                                *)
LEMMA LeavesGood ==
  ASSUME NEW b, NEW n, NEW t, NEW tokens, GoodBook(b, t, tokens), NEW id \in DOMAIN b.pool,
         NEW qty \in Quantity, Leaves(b, n, id, qty)
  PROVE  /\ GoodBook(n, t, tokens) /\ DOMAIN n.pool \subseteq DOMAIN b.pool
         /\ \A i \in DOMAIN n.pool : SameOrder(b.pool[i], n.pool[i])
<1>1. /\ BookTypeOK(b) /\ Known(b, t, tokens) /\ BookTypeOK(n) /\ VectorBookConsistent(n)
      /\ n.nextMarketOrderId = b.nextMarketOrderId
      /\ \A i \in DOMAIN n.pool : SameOrder(b.pool[i], n.pool[i])
  BY DEF GoodBook, Leaves
<1>2. DOMAIN n.pool \subseteq DOMAIN b.pool /\ (qty = 0 => id \notin DOMAIN n.pool)
  BY DEF Leaves
<1>3. ASSUME NEW i \in DOMAIN n.pool PROVE n.pool[i].remainingQuantity > 0
  <2>1. CASE i = id
    <3>1. n.pool[i].remainingQuantity = qty /\ qty # 0
      BY <1>2, <2>1 DEF Leaves
    <3>2. qty > 0
      BY <3>1, PositiveQuantity
    <3> QED BY <3>1, <3>2
  <2>2. CASE i # id
    <3>1. n.pool[i].remainingQuantity = b.pool[i].remainingQuantity /\ i \in DOMAIN b.pool
      BY <1>2, <2>2 DEF Leaves
    <3>2. b.pool[i].remainingQuantity > 0
      BY <1>1, <3>1 DEF Known
    <3> QED BY <3>1, <3>2
  <2> QED BY <2>1, <2>2
<1>4. b.nextMarketOrderId <= n.nextMarketOrderId
  <2>1. b.nextMarketOrderId \in Nat
    BY <1>1, BookFields
  <2> QED BY <1>1, <2>1, SMTT(30), SMTT(60)
<1>5. Known(n, t, tokens)
  BY <1>1, <1>2, <1>3, <1>4, FewerKnown
<1> QED BY <1>1, <1>2, <1>5 DEF GoodBook

(* A step changes the book of t only.                                      *)
OnlyBook(t) == DOMAIN books' = Tickers /\ \A u \in Tickers \ {t} : books'[u] = books[u]

(* An order of t is left with qty, and gone with nothing left.             *)
OneLeaves(t, id, qty) ==
  /\ OnlyBook(t)
  /\ id \in DOMAIN books[t].pool
  /\ Leaves(books[t], books'[t], id, qty)

(* SetRemaining on the book of t does that.                                *)
LEMMA SetRemainingStep ==
  ASSUME VectorInv, NEW t \in Tickers, NEW id \in DOMAIN books[t].pool, NEW qty \in Quantity,
         books' = [books EXCEPT ![t] = SetRemaining(books[t], id, qty)]
  PROVE  /\ OneLeaves(t, id, qty)
         /\ books' = [books EXCEPT ![t] = books'[t]]
         /\ GoodBook(books'[t], t, id_to_token)
         /\ DOMAIN books'[t].pool \subseteq DOMAIN books[t].pool
         /\ \A i \in DOMAIN books'[t].pool : SameOrder(books[t].pool[i], books'[t].pool[i])
<1>1. DOMAIN books = Tickers /\ GoodBook(books[t], t, id_to_token)
  BY DEF VectorInv
<1> DEFINE n == SetRemaining(books[t], id, qty)
<1>2. Leaves(books[t], n, id, qty)
  BY <1>1, SetRemainingLeaves DEF GoodBook
<1> HIDE DEF n
<1>3. books' = [books EXCEPT ![t] = n]
  BY DEF n
<1>4. books'[t] = n /\ OnlyBook(t)
  BY <1>1, <1>3 DEF OnlyBook
<1>5. GoodBook(n, t, id_to_token) /\ DOMAIN n.pool \subseteq DOMAIN books[t].pool
      /\ \A i \in DOMAIN n.pool : SameOrder(books[t].pool[i], n.pool[i])
  BY <1>1, <1>2, LeavesGood
<1> QED BY <1>2, <1>3, <1>4, <1>5 DEF OneLeaves

(* A resting order is a pool entry of its type, with something left.       *)
LEMMA RestingType ==
  ASSUME VectorInv, NEW t \in Tickers, NEW id \in DOMAIN books[t].pool
  PROVE  /\ id \in Nat /\ books[t].pool[id] \in MEOrder
         /\ books[t].pool[id].remainingQuantity \in Quantity
         /\ books[t].pool[id].remainingQuantity > 0
         /\ books[t].pool[id].side \in Side /\ books[t].pool[id].price \in Prices
         /\ books[t].pool[id].clientId \in Clients
<1>1. BookTypeOK(books[t]) /\ Known(books[t], t, id_to_token)
  BY DEF VectorInv, GoodBook
<1>2. id \in Nat /\ books[t].pool[id] \in MEOrder
  BY <1>1, BookFields
<1>3. books[t].pool[id].remainingQuantity > 0
  BY <1>1 DEF Known
<1> QED BY <1>2, <1>3 DEF MEOrder

(* The order that orders_ finds is the client's order of that id.          *)
Names(b, id, c, coid) ==
  id \in DOMAIN b.pool /\ b.pool[id].clientId = c /\ b.pool[id].clientOrderId = coid

(* The index leads to the order with that client and that id.              *)
LEMMA NamedOrder ==
  ASSUME VectorInv, NEW t \in Tickers, NEW c, NEW coid,
         <<c, coid>> \in DOMAIN books[t].orders
  PROVE  Names(books[t], books[t].orders[<<c, coid>>], c, coid)
<1> DEFINE k == <<c, coid>>
<1>1. books[t].orders[k] \in DOMAIN books[t].pool /\ KeyOf(books[t].pool[books[t].orders[k]]) = k
  BY DEF VectorInv, GoodBook, VectorBookConsistent, IndexFindsOrders
<1> QED BY <1>1, SMTT(30), SMTT(60) DEF KeyOf, Names

(* What an accepted cancelOrder does: coid, of ticker t, is the order id,  *)
(* has left, and is left with left - canceled.                             *)
Cancels(coid, t, id, canceled, left) ==
  /\ t = id_to_token[coid].tickerId
  /\ left = books[t].pool[id].remainingQuantity
  /\ left \in Quantity /\ canceled \in Quantity /\ canceled > 0 /\ canceled <= left
  /\ left - canceled \in Quantity
  /\ books[t].pool[id].clientOrderId = coid
  /\ books' = [books EXCEPT ![t] = SetRemaining(books[t], id, left - canceled)]
  /\ responses' = <<Response(coid, id, "CANCELED", 0, left - canceled)>>
  /\ marketUpdates' = <<Update(t, id, "CANCEL", canceled, OrderId_INVALID)>>
  /\ UNCHANGED <<taker, id_to_token>>

(* cancelOrder rejects, takes the order out, or lowers what remains of it. *)
LEMMA CancelOrderDoes ==
  ASSUME VectorInv, NEW coid \in DOMAIN id_to_token, NEW qty \in Quantity,
         CancelOrder(coid, qty)
  PROVE  /\ taker = NoTaker
         /\ \/ UNCHANGED id_to_token /\ Rejected(coid, OrderId_INVALID, 0)
            \/ \E t \in Tickers : \E id \in DOMAIN books[t].pool :
                 \/ /\ t = id_to_token[coid].tickerId /\ UNCHANGED id_to_token
                    /\ books[t].pool[id].clientOrderId = coid
                    /\ Rejected(coid, id, books[t].pool[id].remainingQuantity)
                 \/ \E canceled, left : Cancels(coid, t, id, canceled, left)
<1> DEFINE c == id_to_token[coid].clientId
           t == id_to_token[coid].tickerId
           id == books[t].orders[<<c, coid>>]
           left == books[t].pool[id].remainingQuantity
           canceled == IF qty = 0 THEN left ELSE qty
<1>1. taker = NoTaker /\ UNCHANGED id_to_token
  BY DEF CancelOrder
<1>2. t \in Tickers
  BY TokenType DEF VectorInv
<1>3. CASE <<c, coid>> \notin DOMAIN books[t].orders
  BY <1>1, <1>3 DEF CancelOrder
<1>4. CASE <<c, coid>> \in DOMAIN books[t].orders
  <2>0. Names(books[t], id, c, coid)
    BY <1>2, <1>4, NamedOrder
  <2>1. id \in DOMAIN books[t].pool /\ books[t].pool[id].clientOrderId = coid
    BY <2>0 DEF Names
  <2>2. left \in Quantity /\ left > 0
    BY <1>2, <2>1, RestingType
  <2>3. CASE canceled > left
    <3>1. ~(canceled <= left)
      <4> HIDE DEF left
      <4> QED BY <2>2, <2>3, VectorAssumption, SMTT(30), SMTT(60) DEF Quantity
    <3>2. Rejected(coid, id, left)
      BY <1>4, <3>1 DEF CancelOrder
    <3> QED BY <1>1, <1>2, <2>1, <3>2
  <2>4. CASE ~(canceled > left)
    <3>1. canceled \in Quantity /\ canceled > 0 /\ canceled <= left
      <4> HIDE DEF left
      <4> QED BY <2>2, <2>4, VectorAssumption, SMTT(30), SMTT(60) DEF Quantity
    <3>2. left - canceled \in Quantity
      BY <2>2, <3>1, QuantityMinus
    <3>3. /\ books' = [books EXCEPT ![t] = SetRemaining(books[t], id, left - canceled)]
          /\ CancelMessages(t, coid, id, qty, canceled, left)
          /\ UNCHANGED taker
      BY <1>4, <2>4 DEF CancelOrder
    <3>4. Cancels(coid, t, id, canceled, left)
      BY <1>1, <2>1, <2>2, <3>1, <3>2, <3>3 DEF Cancels, CancelMessages
    <3> HIDE DEF canceled, left
    <3> QED BY <1>1, <1>2, <2>1, <3>4
  <2> QED BY <2>3, <2>4
<1> QED BY <1>3, <1>4

(* cancelOrder preserves the invariant.                                    *)
LEMMA CancelOrderInv ==
  ASSUME VectorInv, NEW coid \in DOMAIN id_to_token, NEW qty \in Quantity,
         CancelOrder(coid, qty)
  PROVE  VectorInv'
<1>1. taker = NoTaker /\ id_to_token \in Seq(Token)
  BY CancelOrderDoes DEF VectorInv
<1>2. CASE UNCHANGED <<books, taker, id_to_token>>
  BY <1>1, <1>2, SameTokens, SameBooksInv
<1>3. CASE \E t \in Tickers : \E id \in DOMAIN books[t].pool :
             \E canceled, left : Cancels(coid, t, id, canceled, left)
  <2>0. PICK t \in Tickers : \E id \in DOMAIN books[t].pool :
             \E canceled, left : Cancels(coid, t, id, canceled, left)
    BY <1>3
  <2>1. PICK id \in DOMAIN books[t].pool : \E canceled, left : Cancels(coid, t, id, canceled, left)
    BY <2>0
  <2>a. PICK canceled, left : Cancels(coid, t, id, canceled, left)
    BY <2>1
  <2>2. /\ books' = [books EXCEPT ![t] = SetRemaining(books[t], id, left - canceled)]
        /\ left - canceled \in Quantity /\ UNCHANGED <<taker, id_to_token>>
    BY <2>a DEF Cancels
  <2>3. /\ books' = [books EXCEPT ![t] = books'[t]]
        /\ GoodBook(books'[t], t, id_to_token')
    BY <2>2, SetRemainingStep
  <2>4. id_to_token' \in Seq(Token) /\ TokensGrow(id_to_token, id_to_token') /\ taker' = NoTaker
    BY <1>1, <2>2, SameTokens
  <2> QED BY <2>3, <2>4, StepInv
<1> QED BY <1>2, <1>3, CancelOrderDoes DEF Rejected

(* replaceOrder takes the order id out of the book b and takes an id.      *)
Vacates(b, n, id) ==
  /\ BookTypeOK(n) /\ VectorBookConsistent(n)
  /\ DOMAIN n.pool = DOMAIN b.pool \ {id}
  /\ \A i \in DOMAIN n.pool :
       /\ SameOrder(b.pool[i], n.pool[i])
       /\ n.pool[i].remainingQuantity = b.pool[i].remainingQuantity
  /\ n.nextMarketOrderId = b.nextMarketOrderId + 1

(* remove followed by the next id does that.                               *)
LEMMA RemoveVacates ==
  ASSUME NEW b, BookTypeOK(b), VectorBookConsistent(b), NEW id \in DOMAIN b.pool, NEW n,
         n = [remove(b, id) EXCEPT !.nextMarketOrderId = @ + 1]
  PROVE  Vacates(b, n, id)
<1> DEFINE r == remove(b, id)
<1>1. Removed(b, r, id)
  BY Remove
<1>2. n = [r EXCEPT !.nextMarketOrderId = r.nextMarketOrderId + 1]
  OBVIOUS
<1> HIDE DEF r
<1>3. BookTypeOK(r) /\ VectorBookConsistent(r) /\ Drops(b, r, id)
  BY <1>1 DEF Removed
<1>4. TakesId(r, n)
  BY <1>2, <1>3, IdTaken
<1> QED BY <1>3, <1>4 DEF TakesId, Drops, Vacates

(* The book it leaves is good.                                             *)
LEMMA VacatesGood ==
  ASSUME NEW b, NEW n, NEW t, NEW tokens, GoodBook(b, t, tokens), NEW id, Vacates(b, n, id)
  PROVE  GoodBook(n, t, tokens)
<1>1. /\ BookTypeOK(b) /\ Known(b, t, tokens) /\ BookTypeOK(n) /\ VectorBookConsistent(n)
      /\ \A i \in DOMAIN n.pool : SameOrder(b.pool[i], n.pool[i])
      /\ DOMAIN n.pool \subseteq DOMAIN b.pool
      /\ n.nextMarketOrderId = b.nextMarketOrderId + 1
  BY DEF GoodBook, Vacates
<1>2. ASSUME NEW i \in DOMAIN n.pool PROVE n.pool[i].remainingQuantity > 0
  <2>1. n.pool[i].remainingQuantity = b.pool[i].remainingQuantity /\ i \in DOMAIN b.pool
    BY <1>1 DEF Vacates
  <2>2. b.pool[i].remainingQuantity > 0
    BY <1>1, <2>1 DEF Known
  <2> QED BY <2>1, <2>2
<1>3. b.nextMarketOrderId <= n.nextMarketOrderId
  <2>1. b.nextMarketOrderId \in Nat
    BY <1>1, BookFields
  <2> QED BY <1>1, <2>1, SMTT(30), SMTT(60)
<1>4. Known(n, t, tokens)
  BY <1>1, <1>2, <1>3, FewerKnown
<1> QED BY <1>1, <1>4 DEF GoodBook

(* What an accepted replaceOrder does: coid, of ticker t, is the order id, *)
(* whose side the replacement keeps.                                       *)
Replaces(coid, orderType, price, qty, t, id) ==
  /\ t = id_to_token[coid].tickerId /\ qty # 0
  /\ Names(books[t], id, id_to_token[coid].clientId, coid)
  /\ Vacates(books[t], books'[t], id) /\ OnlyBook(t)
  /\ books' = [books EXCEPT ![t] = books'[t]]
  /\ TokenAdded(id_to_token, id_to_token', books[t].pool[id].clientId, t)
  /\ taker' = [ticker |-> t, clientId |-> books[t].pool[id].clientId,
               clientOrderId |-> Len(id_to_token) + 1,
               marketOrderId |-> books[t].nextMarketOrderId, orderType |-> orderType,
               side |-> books[t].pool[id].side, price |-> price, remaining |-> qty,
               replacing |-> TRUE, level |-> books'[t].best[Opposite(books[t].pool[id].side)]]
  /\ responses' = <<Response(Len(id_to_token) + 1, books[t].nextMarketOrderId,
                             "MODIFIED", 0, qty)>>
  /\ marketUpdates' = <<Update(t, id, "MODIFY", qty, books[t].nextMarketOrderId)>>

(* A step of the gateway and of a handler that refuses.                    *)
Refuses(coid) ==
  /\ \E c \in Clients, t \in Tickers : TokenAdded(id_to_token, id_to_token', c, t)
  /\ Rejected(coid, OrderId_INVALID, 0)

(* replaceOrder rejects, or takes the order out and has its replacement in *)
(* hand.                                                                   *)
LEMMA ReplaceOrderDoes ==
  ASSUME VectorInv, NEW coid \in DOMAIN id_to_token, NEW orderType \in OrderType,
         NEW price \in Prices, NEW qty \in Quantity, ReplaceOrder(coid, orderType, price, qty)
  PROVE  /\ taker = NoTaker
         /\ \/ Refuses(coid)
            \/ \E t \in Tickers : \E id \in DOMAIN books[t].pool :
                 Replaces(coid, orderType, price, qty, t, id)
<1> DEFINE c == id_to_token[coid].clientId
           t == id_to_token[coid].tickerId
           id == books[t].orders[<<c, coid>>]
           n == [remove(books[t], id) EXCEPT !.nextMarketOrderId = @ + 1]
<1>1. taker = NoTaker /\ id_to_token' = Append(id_to_token, [clientId |-> c, tickerId |-> t])
  BY DEF ReplaceOrder, Register
<1>2. t \in Tickers /\ c \in Clients
  BY TokenType DEF VectorInv
<1>3. TokenAdded(id_to_token, id_to_token', c, t)
  BY <1>1, <1>2, Registered DEF VectorInv
<1>4. CASE <<c, coid>> \notin DOMAIN books[t].orders \/ qty = 0
  <2>1. Rejected(coid, OrderId_INVALID, 0)
    BY <1>4 DEF ReplaceOrder
  <2> QED BY <1>1, <1>2, <1>3, <2>1 DEF Refuses
<1>5. CASE <<c, coid>> \in DOMAIN books[t].orders /\ qty # 0
  <2>1. Names(books[t], id, c, coid)
    BY <1>2, <1>5, NamedOrder
  <2>2. /\ books' = [books EXCEPT ![t] = n]
        /\ MatchIn(n, t, c, Len(id_to_token) + 1, books[t].nextMarketOrderId, orderType,
                   books[t].pool[id].side, price, qty, TRUE)
        /\ responses' = <<Response(Len(id_to_token) + 1, books[t].nextMarketOrderId,
                                   "MODIFIED", 0, qty)>>
        /\ marketUpdates' = <<Update(t, id, "MODIFY", qty, books[t].nextMarketOrderId)>>
    BY <1>5 DEF ReplaceOrder
  <2>3. GoodBook(books[t], t, id_to_token) /\ DOMAIN books = Tickers
    BY <1>2 DEF VectorInv
  <2>4. id \in DOMAIN books[t].pool /\ books[t].pool[id].clientId = c
    BY <2>1 DEF Names
  <2>5. Vacates(books[t], n, id)
    BY <2>3, <2>4, RemoveVacates DEF GoodBook
  <2> HIDE DEF n, id
  <2>6. books'[t] = n /\ OnlyBook(t)
    BY <1>2, <2>2, <2>3 DEF OnlyBook
  <2>7. Replaces(coid, orderType, price, qty, t, id)
    BY <1>3, <1>5, <2>1, <2>2, <2>4, <2>5, <2>6 DEF Replaces, MatchIn
  <2> QED BY <1>1, <1>2, <2>4, <2>7
<1> QED BY <1>4, <1>5

(* replaceOrder, up to its call of match, preserves the invariant.         *)
LEMMA ReplaceOrderInv ==
  ASSUME VectorInv, NEW coid \in DOMAIN id_to_token, NEW orderType \in OrderType,
         NEW price \in Prices, NEW qty \in Quantity, ReplaceOrder(coid, orderType, price, qty)
  PROVE  VectorInv'
<1>1. taker = NoTaker
  BY ReplaceOrderDoes
<1>2. CASE Refuses(coid)
  <2>1. /\ id_to_token' \in Seq(Token) /\ TokensGrow(id_to_token, id_to_token')
        /\ UNCHANGED <<books, taker>>
    BY <1>2 DEF Refuses, TokenAdded, Rejected
  <2> QED BY <1>1, <2>1, SameBooksInv
<1>3. CASE \E t \in Tickers : \E id \in DOMAIN books[t].pool :
             Replaces(coid, orderType, price, qty, t, id)
  <2>1. PICK t \in Tickers : \E id \in DOMAIN books[t].pool :
             Replaces(coid, orderType, price, qty, t, id)
    BY <1>3
  <2>2. PICK id \in DOMAIN books[t].pool : Replaces(coid, orderType, price, qty, t, id)
    BY <2>1
  <2> DEFINE b == books[t]
             n == books'[t]
  <2>3. /\ Vacates(b, n, id) /\ books' = [books EXCEPT ![t] = n]
        /\ TokenAdded(id_to_token, id_to_token', b.pool[id].clientId, t)
    BY <2>2 DEF Replaces
  <2>4. GoodBook(b, t, id_to_token) /\ id_to_token \in Seq(Token)
    BY DEF VectorInv
  <2>5. b.pool[id].clientId \in Clients /\ b.pool[id].side \in Side
    BY RestingType
  <2>6. taker'.ticker = t /\ GoodTaker(taker', n, id_to_token')
    <3>1. /\ BookTypeOK(n) /\ DOMAIN n.pool \subseteq DOMAIN b.pool
          /\ \A i \in DOMAIN n.pool : SameOrder(b.pool[i], n.pool[i])
          /\ n.nextMarketOrderId = b.nextMarketOrderId + 1
      BY <2>3 DEF Vacates
    <3>2. taker' = [ticker |-> t, clientId |-> b.pool[id].clientId,
                    clientOrderId |-> Len(id_to_token) + 1,
                    marketOrderId |-> b.nextMarketOrderId, orderType |-> orderType,
                    side |-> b.pool[id].side, price |-> price, remaining |-> qty,
                    replacing |-> TRUE, level |-> n.best[Opposite(b.pool[id].side)]]
      BY <2>2 DEF Replaces
    <3>3. TRUE \in BOOLEAN
      OBVIOUS
    <3> DEFINE k == taker'
    <3> HIDE DEF b, n, k
    <3> QED BY <2>3, <2>4, <2>5, <3>1, <3>2, <3>3, TakerStarts DEF k
  <2>7. GoodBook(n, t, id_to_token) /\ TokensGrow(id_to_token, id_to_token')
    BY <2>3, <2>4, VacatesGood DEF TokenAdded
  <2>8. GoodBook(n, t, id_to_token') /\ id_to_token' \in Seq(Token)
    BY <2>3, <2>7, BookStaysGood DEF TokenAdded
  <2> QED BY <2>3, <2>6, <2>7, <2>8, StepInv
<1> QED BY <1>2, <1>3, ReplaceOrderDoes
-----------------------------------------------------------------------------
(* match.                                                                  *)

(* The fields of an order in hand.                                         *)
LEMMA TakerFields ==
  ASSUME NEW k \in Taker
  PROVE  /\ k.ticker \in Tickers /\ k.clientId \in Clients /\ k.clientOrderId \in Nat
         /\ k.marketOrderId \in Nat /\ k.side \in Side /\ k.price \in Prices
         /\ k.remaining \in Quantity /\ k.level \in Pointer(Prices)
         /\ k.orderType \in OrderType /\ Opposite(k.side) \in Side
<1>1. k.side \in Side
  BY DEF Taker
<1>2. Opposite(k.side) \in Side
  BY <1>1, OtherWay
<1> QED BY <1>2 DEF Taker

(* It is told apart from none.                                             *)
LEMMA TakerIsSome ==
  ASSUME NEW k \in Taker
  PROVE  k # NoTaker
<1>1. "side" \in DOMAIN k
  BY DEF Taker
<1>2. "side" \notin DOMAIN NoTaker
  BY DEF NoTaker
<1> QED BY <1>1, <1>2

(* Its book and what is known of both.                                     *)
LEMMA InHand ==
  ASSUME VectorInv, taker # NoTaker
  PROVE  /\ taker \in Taker /\ taker.ticker \in Tickers
         /\ GoodTaker(taker, books[taker.ticker], id_to_token)
         /\ GoodBook(books[taker.ticker], taker.ticker, id_to_token)
<1>1. GoodTaker(taker, books[taker.ticker], id_to_token)
  BY DEF VectorInv
<1>2. taker \in Taker
  BY <1>1 DEF GoodTaker
<1>3. taker.ticker \in Tickers
  BY <1>2, TakerFields
<1> QED BY <1>1, <1>2, <1>3 DEF VectorInv

(* Two nodes that come first are one.                                      *)
LEMMA LeadsOnce ==
  ASSUME NEW S, S \subseteq Nat, NEW side, NEW x, NEW y, Leads(x, S, side), Leads(y, S, side)
  PROVE  x = y
<1>1. \A u, v \in S : u = v \/ Better(side, u, v) \/ Better(side, v, u)
  BY BetterIsOrder
<1> QED BY <1>1 DEF Leads

(* The occupied prices are prices, hence numbers.                          *)
LEMMA OccupiedIsPrices ==
  ASSUME NEW b, BookTypeOK(b), NEW side
  PROVE  Occupied(b, side) \subseteq Prices /\ Occupied(b, side) \subseteq Nat
<1>1. ASSUME NEW q \in Occupied(b, side) PROVE q \in Prices
  <2>1. PICK id \in DOMAIN b.pool : q = b.pool[id].price
    BY DEF Occupied
  <2>2. b.pool[id] \in MEOrder
    BY BookFields
  <2> QED BY <2>1, <2>2 DEF MEOrder
<1> QED BY <1>1, VectorAssumption

(* The head of a level is its first order, and the level is occupied.      *)
LEMMA HeadOfLevel ==
  ASSUME NEW b, BookTypeOK(b), VectorBookConsistent(b), NEW s \in Side, NEW p \in Prices,
         b.level[s][p].head # nullptr
  PROVE  /\ b.level[s][p].head \in OrdersAt(b, s, p)
         /\ \A y \in OrdersAt(b, s, p) : ~Better("SELL", y, b.level[s][p].head)
         /\ p \in Occupied(b, s)
<1>1. Leads(b.level[s][p].head, OrdersAt(b, s, p), "SELL")
  BY DEF VectorBookConsistent, OrdersLinked, IsList
<1>2. /\ b.level[s][p].head \in OrdersAt(b, s, p)
      /\ \A y \in OrdersAt(b, s, p) : ~Better("SELL", y, b.level[s][p].head)
  BY <1>1 DEF Leads
<1>3. p \in Occupied(b, s)
  BY <1>2 DEF OrdersAt, Occupied
<1> QED BY <1>2, <1>3

(* The best level of b is the best one of n, or empty.                     *)
LevelStays(b, n, s) == b.best[s] = n.best[s] \/ n.level[s][b.best[s]].head = nullptr

(* The level match holds is still the best one after a fill, or it is      *)
(* empty.                                                                  *)
LEMMA LevelAfterFill ==
  ASSUME NEW b, NEW n, BookTypeOK(b), VectorBookConsistent(b), BookTypeOK(n),
         VectorBookConsistent(n), DOMAIN n.pool \subseteq DOMAIN b.pool,
         \A i \in DOMAIN n.pool : SameOrder(b.pool[i], n.pool[i]),
         NEW s \in Side, b.best[s] # nullptr
  PROVE  LevelStays(b, n, s)
<1> USE DEF LevelStays
<1> DEFINE p == b.best[s]
<1>1. Leads(p, Occupied(b, s), s) /\ Leads(n.best[s], Occupied(n, s), s)
  BY DEF VectorBookConsistent, LevelsLinked, IsList
<1>2. p \in Occupied(b, s) /\ \A y \in Occupied(b, s) : ~Better(s, y, p)
  BY <1>1 DEF Leads
<1>3. ASSUME NEW q \in Occupied(n, s) PROVE q \in Occupied(b, s)
  BY DEF Occupied, SameOrder
<1>4. CASE p \in Occupied(n, s)
  <2>1. Leads(p, Occupied(n, s), s)
    BY <1>2, <1>3, <1>4 DEF Leads
  <2>2. p = n.best[s]
    BY <1>1, <2>1, OccupiedIsPrices, LeadsOnce
  <2> QED BY <2>2
<1>5. CASE p \notin Occupied(n, s)
  <2>1. p \in Prices
    BY <1>2, OccupiedIsPrices
  <2>2. n.level[s][p] = EmptyLevel
    BY <1>5, <2>1 DEF VectorBookConsistent, OthersClear
  <2>3. EmptyLevel.head = nullptr
    BY DEF EmptyLevel
  <2> QED BY <2>2, <2>3
<1> QED BY <1>4, <1>5

(* What an iteration of the inner loop does: the order id, first at the    *)
(* best level of the other side, and the order in hand trade fill.         *)
Fills(t, id, fill) ==
  /\ t = taker.ticker /\ MatchGoesOn
  /\ taker.level = books[t].best[Opposite(taker.side)]
  /\ id \in OrdersAt(books[t], Opposite(taker.side), taker.level)
  /\ \A y \in OrdersAt(books[t], Opposite(taker.side), taker.level) : ~Better("SELL", y, id)
  /\ fill = IF taker.remaining <= books[t].pool[id].remainingQuantity
            THEN taker.remaining ELSE books[t].pool[id].remainingQuantity
  /\ fill \in Quantity /\ taker.remaining - fill \in Quantity
  /\ books[t].pool[id].remainingQuantity - fill \in Quantity
  /\ books' = [books EXCEPT ![t] =
                 SetRemaining(books[t], id, books[t].pool[id].remainingQuantity - fill)]
  /\ taker' = [taker EXCEPT !.remaining = taker.remaining - fill]
  /\ responses' =
       <<Response(books[t].pool[id].clientOrderId, id, "EXECUTED", fill,
                  books[t].pool[id].remainingQuantity - fill),
         Response(taker.clientOrderId, taker.marketOrderId, "EXECUTED", fill,
                  taker.remaining - fill)>>
  /\ marketUpdates' = <<Update(t, id, "TRADE", fill, OrderId_INVALID)>>
  /\ UNCHANGED id_to_token

(* An iteration of the inner loop fills against the head of the level in   *)
(* hand.                                                                   *)
LEMMA FillDoes ==
  ASSUME VectorInv, Fill
  PROVE  /\ taker # NoTaker /\ taker.ticker \in Tickers
         /\ \E id \in DOMAIN books[taker.ticker].pool : \E fill : Fills(taker.ticker, id, fill)
<1> DEFINE t == taker.ticker
           b == books[t]
           s == Opposite(taker.side)
           id == b.level[s][taker.level].head
           left == b.pool[id].remainingQuantity
           fill == IF taker.remaining <= left THEN taker.remaining ELSE left
<1>1. /\ MatchGoesOn /\ id # nullptr
      /\ books' = [books EXCEPT ![t] = SetRemaining(b, id, left - fill)]
      /\ taker' = [taker EXCEPT !.remaining = taker.remaining - fill]
      /\ responses' =
           <<Response(b.pool[id].clientOrderId, id, "EXECUTED", fill, left - fill),
             Response(taker.clientOrderId, taker.marketOrderId, "EXECUTED", fill,
                      taker.remaining - fill)>>
      /\ marketUpdates' = <<Update(t, id, "TRADE", fill, OrderId_INVALID)>>
      /\ UNCHANGED id_to_token
  BY DEF Fill, OppositeLevel
<1>2. taker # NoTaker /\ taker.level # nullptr
  BY <1>1 DEF MatchGoesOn
<1>3. taker \in Taker /\ t \in Tickers /\ GoodTaker(taker, b, id_to_token)
      /\ GoodBook(b, t, id_to_token)
  BY <1>2, InHand
<1>4. s \in Side /\ taker.level \in Prices /\ taker.remaining \in Quantity
  BY <1>2, <1>3, TakerFields DEF Pointer
<1>5. /\ id \in OrdersAt(b, s, taker.level)
      /\ \A y \in OrdersAt(b, s, taker.level) : ~Better("SELL", y, id)
  BY <1>1, <1>3, <1>4, HeadOfLevel DEF GoodBook
<1>6. taker.level = b.best[s]
  BY <1>1, <1>3 DEF GoodTaker, HoldsLevel
<1>7. id \in DOMAIN b.pool
  BY <1>5 DEF OrdersAt
<1>8. left \in Quantity
  BY <1>3, <1>7, RestingType
<1>9. fill \in Quantity /\ taker.remaining - fill \in Quantity /\ left - fill \in Quantity
  <2> HIDE DEF left
  <2> QED BY <1>4, <1>8, FillQuantity
<1> HIDE DEF id
<1>10. Fills(t, id, fill)
  BY <1>1, <1>5, <1>6, <1>9 DEF Fills
<1> HIDE DEF fill
<1> QED BY <1>2, <1>3, <1>7, <1>10

(* An iteration of the inner loop preserves the invariant.                 *)
LEMMA FillInv ==
  ASSUME VectorInv, Fill
  PROVE  VectorInv'
<1> DEFINE t == taker.ticker
           b == books[t]
           n == books'[t]
           s == Opposite(taker.side)
<1>1. /\ taker # NoTaker /\ t \in Tickers
      /\ \E id \in DOMAIN b.pool : \E fill : Fills(t, id, fill)
  BY FillDoes
<1>2. PICK id \in DOMAIN b.pool : \E fill : Fills(t, id, fill)
  BY <1>1
<1>3. PICK fill : Fills(t, id, fill)
  BY <1>2
<1>4. /\ b.pool[id].remainingQuantity - fill \in Quantity
      /\ books' = [books EXCEPT ![t] =
                     SetRemaining(b, id, b.pool[id].remainingQuantity - fill)]
      /\ taker.remaining - fill \in Quantity
      /\ taker' = [taker EXCEPT !.remaining = taker.remaining - fill]
      /\ UNCHANGED id_to_token /\ taker.level = b.best[s]
      /\ taker.level # nullptr /\ ~Better(s, taker.price, taker.level)
  BY <1>3 DEF Fills, MatchGoesOn
<1>5. /\ books' = [books EXCEPT ![t] = n] /\ GoodBook(n, t, id_to_token)
      /\ DOMAIN n.pool \subseteq DOMAIN b.pool
      /\ \A i \in DOMAIN n.pool : SameOrder(b.pool[i], n.pool[i])
      /\ OneLeaves(t, id, b.pool[id].remainingQuantity - fill)
  BY <1>1, <1>4, SetRemainingStep
<1>6. /\ taker \in Taker /\ GoodTaker(taker, b, id_to_token) /\ GoodBook(b, t, id_to_token)
  BY <1>1, InHand
<1>7. n.nextMarketOrderId = b.nextMarketOrderId
  BY <1>5 DEF OneLeaves, Leaves
<1> DEFINE k == taker'
<1>8. /\ k \in Taker /\ k.ticker = t /\ k.clientId = taker.clientId
      /\ k.clientOrderId = taker.clientOrderId /\ k.marketOrderId = taker.marketOrderId
      /\ k.side = taker.side /\ k.price = taker.price /\ k.level = taker.level
  <2> DEFINE left == taker.remaining - fill
  <2> HIDE DEF left
  <2>1. k = [taker EXCEPT !.remaining = left] /\ left \in Quantity
    BY <1>4 DEF left
  <2> QED BY <1>6, <2>1 DEF Taker
<1> HIDE DEF k
<1>9. NewerThan(k, n)
  <2>1. NewerThan(taker, b)
    BY <1>6 DEF GoodTaker
  <2> QED BY <1>5, <1>8, <2>1 DEF NewerThan, SameOrder
<1>10. HoldsLevel(k, n)
  <2>1. s \in Side
    BY <1>6, TakerFields
  <2>2. LevelStays(b, n, s)
    BY <1>4, <1>5, <1>6, <2>1, LevelAfterFill DEF GoodBook
  <2> QED BY <1>4, <1>8, <2>2 DEF HoldsLevel, LevelStays
<1>11. GoodTaker(k, n, id_to_token)
  BY <1>6, <1>7, <1>8, <1>9, <1>10 DEF GoodTaker
<1>12. id_to_token' \in Seq(Token) /\ TokensGrow(id_to_token, id_to_token')
  BY <1>4, SameTokens DEF VectorInv
<1>13. GoodTaker(taker', n, id_to_token') /\ taker'.ticker = t /\ GoodBook(n, t, id_to_token')
  BY <1>4, <1>5, <1>8, <1>11 DEF k
<1> QED BY <1>1, <1>5, <1>12, <1>13, StepInv

(* Fetching the best level again preserves it.                             *)
LEMMA NextLevelInv ==
  ASSUME VectorInv, NextLevel
  PROVE  VectorInv'
<1> DEFINE b == books[taker.ticker]
           k == taker'
           best == b.best[Opposite(taker.side)]
<1>1. /\ taker # NoTaker /\ UNCHANGED <<books, id_to_token>>
      /\ k = [taker EXCEPT !.level = best]
  BY DEF NextLevel, MatchGoesOn
<1>2. /\ taker \in Taker /\ GoodTaker(taker, b, id_to_token)
      /\ GoodBook(b, taker.ticker, id_to_token)
  BY <1>1, InHand
<1>3. best \in Pointer(Prices)
  <2>1. b.best \in [Side -> Pointer(Prices)] /\ Opposite(taker.side) \in Side
    BY <1>2, BookFields, TakerFields DEF GoodBook
  <2> QED BY <2>1
<1>4. /\ k \in Taker /\ k.ticker = taker.ticker /\ k.clientId = taker.clientId
      /\ k.clientOrderId = taker.clientOrderId /\ k.marketOrderId = taker.marketOrderId
      /\ k.side = taker.side /\ k.price = taker.price /\ k.level = best
  <2> HIDE DEF best
  <2> QED BY <1>1, <1>2, <1>3 DEF Taker
<1> HIDE DEF k
<1>5. HoldsLevel(k, b)
  BY <1>4 DEF HoldsLevel
<1>6. GoodTaker(k, b, id_to_token)
  BY <1>2, <1>4, <1>5 DEF GoodTaker, NewerThan
<1>7. GoodTaker(taker', books[taker'.ticker], id_to_token')
  BY <1>1, <1>4, <1>6 DEF k
<1>8. id_to_token' \in Seq(Token) /\ TokensGrow(id_to_token, id_to_token')
  BY <1>1, SameTokens DEF VectorInv
<1> QED BY <1>1, <1>7, <1>8, SameBooksInv

(* The order in hand as insert links it.                                   *)
RestingOrder(k) ==
  [clientId |-> k.clientId, clientOrderId |-> k.clientOrderId, side |-> k.side,
   price |-> k.price, remainingQuantity |-> k.remaining, next |-> nullptr, prev |-> nullptr]

(* insert puts the order in hand into its book.                            *)
LEMMA RestDoes ==
  ASSUME VectorInv, Rest
  PROVE  /\ taker # NoTaker /\ taker \in Taker /\ taker.ticker \in Tickers
         /\ taker.remaining > 0 /\ OnlyBook(taker.ticker)
         /\ books' = [books EXCEPT ![taker.ticker] = books'[taker.ticker]]
         /\ Inserted(books[taker.ticker], books'[taker.ticker], taker.marketOrderId,
                     RestingOrder(taker))
<1> DEFINE t == taker.ticker
           b == books[t]
           order == RestingOrder(taker)
           n == insert(b, taker.marketOrderId, order)
<1>1. taker # NoTaker /\ taker.remaining > 0 /\ books' = [books EXCEPT ![t] = n]
  BY DEF Rest, HandlerEnds, RestingOrder
<1>2. /\ taker \in Taker /\ t \in Tickers /\ GoodTaker(taker, b, id_to_token)
      /\ GoodBook(b, t, id_to_token) /\ DOMAIN books = Tickers
  BY <1>1, InHand DEF VectorInv
<1>3. /\ order \in MEOrder /\ order.next = nullptr
      /\ KeyOf(order) = <<taker.clientId, taker.clientOrderId>>
  <2>1. nullptr \in Pointer(Nat)
    BY DEF Pointer
  <2>2. order \in MEOrder /\ order.next = nullptr
    BY <1>2, <2>1, TakerFields DEF RestingOrder, MEOrder
  <2>3. KeyOf(order) = <<taker.clientId, taker.clientOrderId>>
    BY DEF RestingOrder, KeyOf
  <2> QED BY <2>2, <2>3
<1>4. taker.marketOrderId \in Nat /\ \A i \in DOMAIN b.pool : i < taker.marketOrderId
  BY <1>2, TakerFields DEF GoodTaker, NewerThan
<1>5. KeyOf(order) \notin DOMAIN b.orders
  <2>1. SUFFICES ASSUME <<taker.clientId, taker.clientOrderId>> \in DOMAIN b.orders
                 PROVE  FALSE
    BY <1>3
  <2> DEFINE id == b.orders[<<taker.clientId, taker.clientOrderId>>]
  <2>2. Names(b, id, taker.clientId, taker.clientOrderId)
    BY <1>2, <2>1, NamedOrder
  <2> QED BY <1>2, <2>2 DEF Names, GoodTaker, NewerThan
<1> HIDE DEF order
<1>6. Inserted(b, n, taker.marketOrderId, order)
  BY <1>2, <1>3, <1>4, <1>5, Insert DEF GoodBook
<1> HIDE DEF n
<1>7. books'[t] = n /\ OnlyBook(t)
  BY <1>1, <1>2 DEF OnlyBook
<1> QED BY <1>1, <1>2, <1>6, <1>7 DEF order

(* The rest of addOrder and replaceOrder preserves the invariant.          *)
LEMMA RestInv ==
  ASSUME VectorInv, Rest
  PROVE  VectorInv'
<1> DEFINE t == taker.ticker
           b == books[t]
           n == books'[t]
           id == taker.marketOrderId
           order == RestingOrder(taker)
<1>1. /\ taker # NoTaker /\ taker \in Taker /\ t \in Tickers /\ taker.remaining > 0
      /\ books' = [books EXCEPT ![t] = n] /\ Inserted(b, n, id, order)
  BY RestDoes
<1>2. taker' = NoTaker /\ UNCHANGED id_to_token
  BY DEF Rest, HandlerEnds
<1>3. GoodTaker(taker, b, id_to_token) /\ GoodBook(b, t, id_to_token)
  BY <1>1, InHand
<1>4. /\ BookTypeOK(n) /\ VectorBookConsistent(n) /\ Adds(b, n, id, order)
  BY <1>1 DEF Inserted
<1>5. /\ order.clientId = taker.clientId /\ order.clientOrderId = taker.clientOrderId
      /\ order.remainingQuantity = taker.remaining
  BY DEF RestingOrder
<1> HIDE DEF order
<1>6. ASSUME NEW i \in DOMAIN n.pool
      PROVE  /\ i < n.nextMarketOrderId /\ n.pool[i].remainingQuantity > 0
             /\ n.pool[i].clientOrderId \in DOMAIN id_to_token
             /\ id_to_token[n.pool[i].clientOrderId] =
                  [clientId |-> n.pool[i].clientId, tickerId |-> t]
  <2>1. CASE i = id
    <3>1. /\ n.pool[i].clientId = taker.clientId
          /\ n.pool[i].clientOrderId = taker.clientOrderId
          /\ n.pool[i].remainingQuantity = taker.remaining
          /\ n.nextMarketOrderId = b.nextMarketOrderId
      BY <1>4, <1>5, <2>1 DEF Adds, SameOrder
    <3>2. /\ id < b.nextMarketOrderId /\ taker.clientOrderId \in DOMAIN id_to_token
          /\ id_to_token[taker.clientOrderId] = [clientId |-> taker.clientId, tickerId |-> t]
      BY <1>3 DEF GoodTaker
    <3> QED BY <1>1, <2>1, <3>1, <3>2
  <2>2. CASE i # id
    <3>1. i \in DOMAIN b.pool
      BY <1>4, <2>2 DEF Adds
    <3>2. /\ n.pool[i].clientId = b.pool[i].clientId
          /\ n.pool[i].clientOrderId = b.pool[i].clientOrderId
          /\ n.pool[i].remainingQuantity = b.pool[i].remainingQuantity
          /\ n.nextMarketOrderId = b.nextMarketOrderId
      BY <1>4, <3>1 DEF Adds, SameOrder
    <3>3. /\ i < b.nextMarketOrderId /\ b.pool[i].remainingQuantity > 0
          /\ b.pool[i].clientOrderId \in DOMAIN id_to_token
          /\ id_to_token[b.pool[i].clientOrderId] =
               [clientId |-> b.pool[i].clientId, tickerId |-> t]
      BY <1>3, <3>1 DEF GoodBook, Known
    <3> QED BY <3>2, <3>3
  <2> QED BY <2>1, <2>2
<1>7. GoodBook(n, t, id_to_token)
  BY <1>4, <1>6 DEF GoodBook, Known
<1>8. /\ id_to_token' \in Seq(Token) /\ TokensGrow(id_to_token, id_to_token')
      /\ GoodBook(n, t, id_to_token')
  BY <1>2, <1>7, SameTokens DEF VectorInv
<1> QED BY <1>1, <1>2, <1>8, StepInv

(* And so does the end of a handler that leaves nothing to rest.           *)
LEMMA EndInv ==
  ASSUME VectorInv, Kill \/ Filled
  PROVE  VectorInv'
<1>1. taker' = NoTaker /\ UNCHANGED <<books, id_to_token>>
  BY DEF Kill, Filled, HandlerEnds
<1>2. id_to_token' \in Seq(Token) /\ TokensGrow(id_to_token, id_to_token')
  BY <1>1, SameTokens DEF VectorInv
<1> QED BY <1>1, <1>2, SameBooksInv

(* The engine starts with empty books.                                     *)
LEMMA InitInv == Init => VectorInv
<1> SUFFICES ASSUME Init PROVE VectorInv
  OBVIOUS
<1>1. /\ books = [t \in Tickers |-> EmptyBook] /\ id_to_token = <<>> /\ taker = NoTaker
  BY DEF Init
<1>2. BookTypeOK(EmptyBook) /\ VectorBookConsistent(EmptyBook) /\ DOMAIN EmptyBook.pool = {}
  BY EmptyBookGood
<1>3. \A t \in Tickers : GoodBook(EmptyBook, t, id_to_token)
  BY <1>2 DEF GoodBook, Known
<1>4. id_to_token \in Seq(Token)
  BY <1>1, SMTT(30), SMTT(60)
<1> HIDE DEF Init
<1> QED BY <1>1, <1>3, <1>4 DEF VectorInv

(* Every step of the engine preserves the invariant.                       *)
LEMMA NextInv == VectorInv /\ [Next]_vars => VectorInv'
<1> SUFFICES ASSUME VectorInv, [Next]_vars PROVE VectorInv'
  OBVIOUS
<1>1. CASE UNCHANGED vars
  BY <1>1 DEF vars, VectorInv
<1>2. CASE Request
  BY <1>2, AddOrderInv, CancelOrderInv, ReplaceOrderInv DEF Request
<1>3. CASE Handler
  BY <1>3, FillInv, NextLevelInv, RestInv, EndInv DEF Handler
<1> QED BY <1>1, <1>2, <1>3 DEF Next

(* The invariant holds throughout.                                         *)
LEMMA SpecInv == Spec => []VectorInv
BY InitInv, NextInv, PTL DEF Spec

(* The pointers of every book describe the orders in its pool after every  *)
(* step: insertPricelevel, removePriceLevel, insert and remove keep the    *)
(* list of levels, the lists of orders, the cached best levels and the     *)
(* index right, whatever the requests.                                     *)
THEOREM VectorBooksStayConsistent == Spec => []VectorBooksConsistent
<1>1. VectorInv => VectorBooksConsistent
  BY InvIsSupport
<1> QED BY <1>1, SpecInv, PTL

(* What makes that inductive: resting orders are registered and have       *)
(* something left, the order in hand is the newest, and the level match    *)
(* holds is the best one or one it has emptied itself.                     *)
THEOREM VectorSupportHolds == Spec => []VectorSupport
<1>1. VectorInv => VectorSupport
  BY InvIsSupport
<1> QED BY <1>1, SpecInv, PTL
=============================================================================
