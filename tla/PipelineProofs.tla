--------------------------- MODULE PipelineProofs ---------------------------
(***************************************************************************)
(* That no request is lost between the gateway and the engine and none is  *)
(* worked on twice, whatever the capacities of the queues, the timestamps, *)
(* the outputs of the requests and the moment of the signal.               *)
(*                                                                         *)
(* RequestsKept speaks of all that waits as one sequence; PInv says the    *)
(* same place by place, since each step moves a request from one place to  *)
(* the next.  It adds that onRecv holds a request just while it publishes  *)
(* to make room for it, and that the request the engine works on is still  *)
(* in requestQ, so that updateNextRead takes out that one.                 *)
(***************************************************************************)
EXTENDS Pipeline, TLAPS

(* A leaf that names no prover is tried with each of these in turn.        *)
USE SMT, ZenonT(30), SMTT(60)

StampedRequest == [number : Nat, time : Nat]

Held == IF held = nil THEN {} ELSE {held.number}

(* The four places of a request, and that it is in one of them.            *)
Apart(done, q, p, h, n) ==
  /\ IsInjective(q) /\ IsInjective(p)
  /\ Range(q) \cap Range(p) = {} /\ Range(q) \cap h = {} /\ Range(p) \cap h = {}
  /\ done \cap Range(q) = {} /\ done \cap Range(p) = {} /\ done \cap h = {}
  /\ done \cup Range(q) \cup Range(p) \cup h = 1 .. n

PInv ==
  /\ received \in Nat /\ requestQ \in Seq(Nat)
  /\ pending \in Seq(StampedRequest) /\ held \in StampedRequest
  /\ held # nil <=> gateway = "overflow"
  /\ engine = "process" => requestQ # <<>>
  /\ Apart(processed, requestQ, Numbers(pending), Held, received)

-----------------------------------------------------------------------------
(* Sequences without repetition, as the queues and pending_orders_ use     *)
(* them.                                                                   *)

(* A new element at the end.                                               *)
LEMMA AppendApart ==
  ASSUME NEW s \in Seq(Nat), NEW x \in Nat, IsInjective(s), x \notin Range(s)
  PROVE  IsInjective(Append(s, x)) /\ Range(Append(s, x)) = Range(s) \cup {x}
<1> DEFINE t == Append(s, x)
<1>1. /\ DOMAIN s = 1 .. Len(s) /\ Len(s) \in Nat
      /\ DOMAIN t = 1 .. Len(s) + 1
      /\ t[Len(s) + 1] = x /\ \A i \in 1 .. Len(s) : t[i] = s[i]
  OBVIOUS
<1> HIDE DEF t
<1>2. 1 .. Len(s) + 1 = (1 .. Len(s)) \cup {Len(s) + 1} /\ Len(s) + 1 \notin 1 .. Len(s)
  BY <1>1
<1>3. Range(t) = Range(s) \cup {x}
  BY <1>1, <1>2, ZenonT(60) DEF Range
<1>4. ASSUME NEW i \in DOMAIN t, NEW j \in DOMAIN t, t[i] = t[j] PROVE i = j
  <2>1. \A k \in 1 .. Len(s) : s[k] # x
    BY <1>1, ZenonT(60) DEF Range
  <2>2. i \in 1 .. Len(s) \/ i = Len(s) + 1
    BY <1>1, <1>2, ZenonT(60)
  <2>3. j \in 1 .. Len(s) \/ j = Len(s) + 1
    BY <1>1, <1>2, ZenonT(60)
  <2>4. CASE i \in 1 .. Len(s) /\ j \in 1 .. Len(s)
    BY <1>1, <1>4, <2>4, ZenonT(60) DEF IsInjective
  <2> QED BY <1>1, <1>4, <2>1, <2>2, <2>3, <2>4, ZenonT(60)
<1>5. IsInjective(t)
  BY <1>4, ZenonT(60) DEF IsInjective
<1> QED BY <1>3, <1>5 DEF t

(* The first element goes.                                                 *)
LEMMA TailApart ==
  ASSUME NEW s \in Seq(Nat), IsInjective(s), s # <<>>
  PROVE  /\ IsInjective(Tail(s)) /\ Head(s) \in Range(s)
         /\ Range(Tail(s)) = Range(s) \ {Head(s)}
<1> DEFINE t == Tail(s)
           h == Head(s)
<1>1. /\ DOMAIN s = 1 .. Len(s) /\ Len(s) \in Nat /\ 1 \in 1 .. Len(s) /\ h = s[1]
      /\ DOMAIN t = 1 .. Len(s) - 1
      /\ \A i \in 1 .. Len(s) - 1 : t[i] = s[i + 1] /\ i + 1 \in 1 .. Len(s)
      /\ \A i \in 1 .. Len(s) - 1 : i + 1 # 1
      /\ \A i, j \in 1 .. Len(s) - 1 : i + 1 = j + 1 => i = j
      /\ \A i \in 1 .. Len(s) : i # 1 => i - 1 \in 1 .. Len(s) - 1 /\ (i - 1) + 1 = i
  OBVIOUS
<1> HIDE DEF t, h
<1>2. IsInjective(t)
  <2>1. ASSUME NEW i \in 1 .. Len(s) - 1, NEW j \in 1 .. Len(s) - 1, t[i] = t[j]
        PROVE  i = j
    <3>1. s[i + 1] = s[j + 1] /\ i + 1 \in DOMAIN s /\ j + 1 \in DOMAIN s
      BY <1>1, <2>1, ZenonT(60)
    <3>2. i + 1 = j + 1
      BY <3>1, ZenonT(60) DEF IsInjective
    <3> QED BY <1>1, <3>2, ZenonT(60)
  <2> QED BY <1>1, <2>1, ZenonT(60) DEF IsInjective
<1>3. h \in Range(s)
  BY <1>1, ZenonT(60) DEF Range
<1>4. ASSUME NEW y PROVE y \in Range(t) <=> y \in Range(s) /\ y # h
  <2>1. ASSUME y \in Range(t) PROVE y \in Range(s) /\ y # h
    <3>1. PICK i \in 1 .. Len(s) - 1 : y = t[i]
      BY <1>1, <2>1, ZenonT(60) DEF Range
    <3> QED BY <1>1, <3>1, ZenonT(60) DEF Range, IsInjective
  <2>2. ASSUME y \in Range(s), y # h PROVE y \in Range(t)
    <3>1. PICK i \in 1 .. Len(s) : y = s[i]
      BY <1>1, <2>2, ZenonT(60) DEF Range
    <3>2. i - 1 \in 1 .. Len(s) - 1 /\ y = t[i - 1]
      BY <1>1, <2>2, <3>1
    <3> QED BY <1>1, <3>2, ZenonT(60) DEF Range
  <2> QED BY <2>1, <2>2
<1>5. Range(t) = Range(s) \ {h}
  BY <1>4, ZenonT(60)
<1> QED BY <1>2, <1>3, <1>5 DEF t, h

(* One after the other.                                                    *)
LEMMA ConcatApart ==
  ASSUME NEW s \in Seq(Nat), NEW t \in Seq(Nat), IsInjective(s), IsInjective(t),
         Range(s) \cap Range(t) = {}
  PROVE  /\ s \o t \in Seq(Nat) /\ IsInjective(s \o t)
         /\ Range(s \o t) = Range(s) \cup Range(t)
<1> DEFINE u == s \o t
           n == Len(s)
           m == Len(t)
<1>1. /\ u \in Seq(Nat) /\ n \in Nat /\ m \in Nat
      /\ DOMAIN s = 1 .. n /\ DOMAIN t = 1 .. m /\ DOMAIN u = 1 .. n + m
      /\ \A i \in 1 .. n : i \in 1 .. n + m /\ u[i] = s[i]
      /\ \A i \in 1 .. m : n + i \in 1 .. n + m /\ u[n + i] = t[i]
  OBVIOUS
<1> HIDE DEF u, n, m
<1>2. /\ \A i \in 1 .. n + m : i \in 1 .. n \/ \E j \in 1 .. m : i = n + j
      /\ \A i, j \in 1 .. m : n + i = n + j => i = j
  <2>1. ASSUME NEW i \in 1 .. n + m, i \notin 1 .. n
        PROVE  i - n \in 1 .. m /\ i = n + (i - n)
    BY <1>1, <2>1
  <2>2. \A i, j \in 1 .. m : n + i = n + j => i = j
    BY <1>1
  <2> QED BY <2>1, <2>2, ZenonT(60)
<1>3. Range(u) = Range(s) \cup Range(t)
  <2>1. ASSUME NEW y \in Range(u) PROVE y \in Range(s) \cup Range(t)
    <3>1. PICK i \in 1 .. n + m : y = u[i]
      BY <1>1, ZenonT(60) DEF Range
    <3>2. CASE i \in 1 .. n
      BY <1>1, <3>1, <3>2, ZenonT(60) DEF Range
    <3>3. ASSUME NEW j \in 1 .. m, i = n + j PROVE y \in Range(t)
      BY <1>1, <3>1, <3>3, ZenonT(60) DEF Range
    <3> QED BY <1>2, <3>2, <3>3, ZenonT(60)
  <2>2. ASSUME NEW y \in Range(s) PROVE y \in Range(u)
    BY <1>1, ZenonT(60) DEF Range
  <2>3. ASSUME NEW y \in Range(t) PROVE y \in Range(u)
    BY <1>1, ZenonT(60) DEF Range
  <2> QED BY <2>1, <2>2, <2>3, ZenonT(60)
<1>4. ASSUME NEW i \in 1 .. n + m, NEW j \in 1 .. n + m, u[i] = u[j]
      PROVE  i = j
  <2>1. CASE i \in 1 .. n /\ j \in 1 .. n
    BY <1>1, <1>4, <2>1, ZenonT(60) DEF IsInjective
  <2>2. ASSUME NEW k \in 1 .. m, i \in 1 .. n, j = n + k PROVE FALSE
    BY <1>1, <1>4, <2>2, ZenonT(60) DEF Range
  <2>3. ASSUME NEW k \in 1 .. m, j \in 1 .. n, i = n + k PROVE FALSE
    BY <1>1, <1>4, <2>3, ZenonT(60) DEF Range
  <2>4. ASSUME NEW k \in 1 .. m, NEW l \in 1 .. m, i = n + k, j = n + l PROVE i = j
    BY <1>1, <1>4, <2>4, ZenonT(60) DEF IsInjective
  <2> QED BY <1>2, <2>1, <2>2, <2>3, <2>4, ZenonT(60)
<1>5. IsInjective(u)
  BY <1>1, <1>4, ZenonT(60) DEF IsInjective
<1> QED BY <1>1, <1>3, <1>5 DEF u

-----------------------------------------------------------------------------
(* The numbers of pending_orders_ when addToPending, the push loop or the  *)
(* sort changes it.                                                        *)

(* They are a sequence of the same length.                                 *)
LEMMA NumbersSeq ==
  ASSUME NEW p \in Seq(StampedRequest)
  PROVE  Numbers(p) \in Seq(Nat) /\ Len(Numbers(p)) = Len(p)
<1>1. /\ Len(p) \in Nat /\ DOMAIN p = 1 .. Len(p)
      /\ \A i \in 1 .. Len(p) : p[i] \in StampedRequest
  OBVIOUS
<1>2. \A r \in StampedRequest : r.number \in Nat
  BY DEF StampedRequest
<1>3. \A i \in 1 .. Len(p) : p[i].number \in Nat
  BY <1>1, <1>2, ZenonT(60)
<1> QED BY <1>1, <1>3, SMTT(30), SMTT(60) DEF Numbers

(* Two sequences are the same when their elements are.                     *)
LEMMA SameSeq ==
  ASSUME NEW a \in Seq(Nat), NEW b \in Seq(Nat), Len(a) = Len(b),
         \A i \in 1 .. Len(a) : a[i] = b[i]
  PROVE  a = b
OBVIOUS

(* addToPending.                                                           *)
LEMMA NumbersAppend ==
  ASSUME NEW p \in Seq(StampedRequest), NEW r \in StampedRequest
  PROVE  Numbers(Append(p, r)) = Append(Numbers(p), r.number)
<1> DEFINE a == Numbers(Append(p, r))
           b == Append(Numbers(p), r.number)
<1>1. r.number \in Nat /\ Append(p, r) \in Seq(StampedRequest) /\ Len(p) \in Nat
      /\ Len(Append(p, r)) = Len(p) + 1
  BY DEF StampedRequest
<1>2. /\ a \in Seq(Nat) /\ Len(a) = Len(p) + 1
      /\ Numbers(p) \in Seq(Nat) /\ Len(Numbers(p)) = Len(p)
  BY <1>1, NumbersSeq
<1>3. b \in Seq(Nat) /\ Len(b) = Len(p) + 1
  BY <1>1, <1>2
<1>4. ASSUME NEW i \in 1 .. Len(p) + 1 PROVE a[i] = b[i]
  <2>1. CASE i \in 1 .. Len(p)
    <3>1. a[i] = Append(p, r)[i].number
      BY <1>1 DEF Numbers
    <3>2. Append(p, r)[i] = p[i] /\ b[i] = Numbers(p)[i]
      BY <1>1, <1>2, <2>1
    <3> QED BY <2>1, <3>1, <3>2 DEF Numbers
  <2>2. CASE i = Len(p) + 1
    <3>1. a[i] = Append(p, r)[i].number
      BY <1>1 DEF Numbers
    <3>2. Append(p, r)[i] = r /\ b[i] = r.number
      BY <1>1, <1>2, <2>2
    <3> QED BY <3>1, <3>2
  <2>3. i \in 1 .. Len(p) \/ i = Len(p) + 1
    BY <1>1
  <2> QED BY <2>1, <2>2, <2>3, ZenonT(60)
<1> HIDE DEF a, b
<1>5. a = b
  BY <1>2, <1>3, <1>4, SameSeq, ZenonT(60)
<1> QED BY <1>5 DEF a, b

(* A request is pushed to requestQ, and those behind it move up.           *)
LEMMA NumbersTail ==
  ASSUME NEW p \in Seq(StampedRequest), p # <<>>
  PROVE  /\ Numbers(p) # <<>> /\ Head(Numbers(p)) = Head(p).number
         /\ Numbers(Tail(p)) = Tail(Numbers(p))
<1> DEFINE a == Numbers(Tail(p))
           b == Tail(Numbers(p))
<1>1. /\ Tail(p) \in Seq(StampedRequest) /\ Len(p) \in Nat /\ Len(p) >= 1
      /\ Len(Tail(p)) = Len(p) - 1 /\ Head(p) = p[1]
  OBVIOUS
<1>2. /\ a \in Seq(Nat) /\ Len(a) = Len(p) - 1
      /\ Numbers(p) \in Seq(Nat) /\ Len(Numbers(p)) = Len(p)
  BY <1>1, NumbersSeq
<1>3. /\ Numbers(p) # <<>> /\ b \in Seq(Nat) /\ Len(b) = Len(p) - 1
      /\ Head(Numbers(p)) = Numbers(p)[1]
  BY <1>1, <1>2
<1>4. ASSUME NEW i \in 1 .. Len(p) - 1 PROVE a[i] = b[i]
  <2>1. a[i] = Tail(p)[i].number
    BY <1>1 DEF Numbers
  <2>2. Tail(p)[i] = p[i + 1] /\ b[i] = Numbers(p)[i + 1] /\ i + 1 \in 1 .. Len(p)
    BY <1>1, <1>2
  <2> QED BY <2>1, <2>2 DEF Numbers
<1>5. Numbers(p)[1] = p[1].number
  BY <1>1 DEF Numbers
<1> HIDE DEF a, b
<1>6. a = b
  BY <1>2, <1>3, <1>4, SameSeq, ZenonT(60)
<1> QED BY <1>1, <1>3, <1>5, <1>6 DEF a, b

(* std::sort leaves the same requests in another order.                    *)
LEMMA NumbersSorted ==
  ASSUME NEW p \in Seq(StampedRequest), NEW q \in Sorts(p), IsInjective(Numbers(p))
  PROVE  /\ q \in Seq(StampedRequest) /\ IsInjective(Numbers(q))
         /\ Range(Numbers(q)) = Range(Numbers(p))
<1>1. PICK f \in Bijection(DOMAIN p, DOMAIN p) : q = [i \in DOMAIN p |-> p[f[i]]]
  BY ZenonT(60) DEF Sorts
<1>2. /\ f \in [DOMAIN p -> DOMAIN p]
      /\ \A i, j \in DOMAIN p : f[i] = f[j] => i = j
      /\ \A i \in DOMAIN p : \E j \in DOMAIN p : f[j] = i
  BY ZenonT(60) DEF Bijection, Injection, Surjection, IsInjective
<1>3. \A i \in DOMAIN p : f[i] \in DOMAIN p
  BY <1>2, ZenonT(60)
<1>4. DOMAIN q = DOMAIN p /\ \A i \in DOMAIN p : q[i] = p[f[i]]
  BY <1>1, ZenonT(60)
<1>5. q \in Seq(StampedRequest)
  <2>1. DOMAIN p = 1 .. Len(p) /\ Len(p) \in Nat
    OBVIOUS
  <2>2. \A i \in 1 .. Len(p) : p[f[i]] \in StampedRequest
    BY <1>3, <2>1
  <2> QED BY <1>1, <2>1, <2>2
<1>6. /\ DOMAIN Numbers(p) = DOMAIN p /\ DOMAIN Numbers(q) = DOMAIN p
      /\ \A i \in DOMAIN p : Numbers(q)[i] = Numbers(p)[f[i]]
  BY <1>3, <1>4, ZenonT(60) DEF Numbers
<1>7. IsInjective(Numbers(q))
  <2>1. ASSUME NEW i \in DOMAIN p, NEW j \in DOMAIN p,
               Numbers(q)[i] = Numbers(q)[j]
        PROVE  i = j
    <3>1. f[i] \in DOMAIN Numbers(p) /\ f[j] \in DOMAIN Numbers(p)
      BY <1>3, <1>6, ZenonT(60)
    <3>2. Numbers(p)[f[i]] = Numbers(p)[f[j]]
      BY <1>6, <2>1, ZenonT(60)
    <3>3. f[i] = f[j]
      BY <3>1, <3>2, ZenonT(60) DEF IsInjective
    <3> QED BY <1>2, <3>3, ZenonT(60)
  <2> QED BY <1>6, <2>1, ZenonT(60) DEF IsInjective
<1>8. Range(Numbers(q)) = Range(Numbers(p))
  <2>1. ASSUME NEW y \in Range(Numbers(q)) PROVE y \in Range(Numbers(p))
    <3>1. PICK i \in DOMAIN p : y = Numbers(q)[i]
      BY <1>6, ZenonT(60) DEF Range
    <3>2. f[i] \in DOMAIN Numbers(p) /\ y = Numbers(p)[f[i]]
      BY <1>3, <1>6, <3>1, ZenonT(60)
    <3> QED BY <3>2, ZenonT(60) DEF Range
  <2>2. ASSUME NEW y \in Range(Numbers(p)) PROVE y \in Range(Numbers(q))
    <3>1. PICK i \in DOMAIN p : y = Numbers(p)[i]
      BY <1>6, ZenonT(60) DEF Range
    <3>2. PICK j \in DOMAIN p : f[j] = i
      BY <1>2, ZenonT(60)
    <3>3. j \in DOMAIN Numbers(q) /\ y = Numbers(q)[j]
      BY <1>6, <3>1, <3>2, ZenonT(60)
    <3> QED BY <3>3, ZenonT(60) DEF Range
  <2> QED BY <2>1, <2>2, ZenonT(60)
<1> QED BY <1>5, <1>7, <1>8

(* main starts the gateway once.                                           *)
Unstarted ==
  main \in {"startPublisher", "startEngine", "startGateway"} => gateway = "unstarted"

-----------------------------------------------------------------------------
(* One step of each kind, as it moves a request from place to place.       *)

(* Nothing moves.                                                          *)
LEMMA StaysApart ==
  ASSUME PInv, UNCHANGED <<received, requestQ, pending, held, processed>>,
         held # nil <=> gateway' = "overflow",
         engine' = "process" => engine = "process" \/ requestQ # <<>>
  PROVE  PInv'
<1>1. /\ received' = received /\ requestQ' = requestQ /\ pending' = pending
      /\ held' = held /\ processed' = processed
  OBVIOUS
<1>2. Held' = Held /\ Numbers(pending)' = Numbers(pending)
  BY <1>1, ZenonT(60) DEF Held, nil, Numbers
<1>3. Apart(processed, requestQ, Numbers(pending), Held, received)'
  BY <1>1, <1>2, ZenonT(60) DEF PInv, Apart
<1>4. held' # nil <=> gateway' = "overflow"
  BY <1>1, ZenonT(60)
<1> QED BY <1>1, <1>3, <1>4, ZenonT(60) DEF PInv, nil

(* addToPending of a new request, or the request is held.                  *)
LEMMA ReceiveApart ==
  ASSUME PInv, NEW time \in 1 .. MaxTime, Receive(time)
  PROVE  PInv'
<1> DEFINE r == [number |-> received + 1, time |-> time]
           n == Numbers(pending)
<1>1. /\ gateway = "receive" /\ received' = received + 1
      /\ UNCHANGED <<requestQ, processed, engine>>
  BY ZenonT(60) DEF Receive, engineVars, queueVars
<1>2. /\ received \in Nat /\ requestQ \in Seq(Nat)
      /\ pending \in Seq(StampedRequest) /\ held = nil /\ Held = {}
      /\ Apart(processed, requestQ, n, {}, received)
  BY <1>1, ZenonT(60) DEF PInv, Held
<1>3. r \in StampedRequest /\ r.number = received + 1 /\ r # nil
  BY <1>2, PipelineAssumption DEF StampedRequest, nil
<1>4. received + 1 \notin 1 .. received /\ received + 1 \in Nat
      /\ 1 .. received + 1 = (1 .. received) \cup {received + 1}
  BY <1>2
<1>5. n \in Seq(Nat)
  BY <1>2, NumbersSeq, ZenonT(60)
<1>6. received + 1 \notin Range(n) /\ received + 1 \notin Range(requestQ)
      /\ received + 1 \notin processed
  BY <1>2, <1>4, ZenonT(60) DEF Apart
<1>7. CASE pending' = Append(pending, r) /\ UNCHANGED <<gateway, held>>
  <2>1. pending' \in Seq(StampedRequest) /\ held' = nil /\ gateway' = "receive"
    BY <1>1, <1>2, <1>3, <1>7
  <2>2. Numbers(pending)' = Append(n, received + 1)
    <3>1. Numbers(Append(pending, r)) = Append(n, r.number)
      BY <1>2, <1>3, NumbersAppend, ZenonT(60)
    <3>2. Numbers(pending)' = Numbers(Append(pending, r))
      BY <1>7, ZenonT(60) DEF Numbers
    <3> QED BY <1>3, <3>1, <3>2, ZenonT(60)
  <2>3. /\ IsInjective(Numbers(pending)')
        /\ Range(Numbers(pending)') = Range(n) \cup {received + 1}
    BY <1>2, <1>4, <1>5, <1>6, <2>2, AppendApart, ZenonT(60) DEF Apart
  <2>4. Held' = {}
    BY <2>1, ZenonT(60) DEF Held, nil
  <2> HIDE DEF n
  <2>5. Apart(processed', requestQ', Numbers(pending)', {}, received')
    BY <1>1, <1>2, <1>4, <1>6, <2>3, SMTT(30), SMTT(60) DEF Apart
  <2> QED BY <1>1, <1>2, <1>4, <2>1, <2>4, <2>5, ZenonT(60) DEF PInv, StampedRequest, nil
<1>8. CASE held' = r /\ gateway' = "overflow" /\ UNCHANGED pending
  <2>1. Held' = {received + 1} /\ Numbers(pending)' = n
    BY <1>3, <1>8, ZenonT(60) DEF Held, nil, Numbers
  <2>2. held' \in StampedRequest /\ held' # nil
    BY <1>3, <1>8, ZenonT(60)
  <2> HIDE DEF n, r
  <2>3. Apart(processed', requestQ', n, {received + 1}, received')
    BY <1>1, <1>2, <1>4, <1>6, SMTT(30), SMTT(60) DEF Apart
  <2> QED BY <1>1, <1>2, <1>4, <1>8, <2>1, <2>2, <2>3, ZenonT(60)
            DEF PInv, StampedRequest, nil
<1> QED BY <1>7, <1>8, ZenonT(60) DEF Receive

(* The held request is added.                                              *)
LEMMA AddHeldApart ==
  ASSUME PInv, AddHeld
  PROVE  PInv'
<1> DEFINE n == Numbers(pending)
<1>1. /\ held # nil /\ pending' = Append(pending, held) /\ held' = nil
      /\ gateway' = "receive" /\ UNCHANGED <<received, requestQ, processed, engine>>
  BY ZenonT(60) DEF AddHeld, PInv, engineVars, queueVars
<1>2. /\ received \in Nat /\ requestQ \in Seq(Nat)
      /\ pending \in Seq(StampedRequest) /\ held \in StampedRequest
      /\ Apart(processed, requestQ, n, {held.number}, received)
  BY <1>1, ZenonT(60) DEF PInv, Held
<1>3. held.number \in Nat /\ n \in Seq(Nat) /\ held.number \notin Range(n)
  <2>1. held.number \in Nat
    BY <1>2 DEF StampedRequest
  <2> QED BY <1>2, <2>1, NumbersSeq, ZenonT(60) DEF Apart
<1>4. Numbers(pending)' = Append(n, held.number)
  <2>1. Numbers(Append(pending, held)) = Append(n, held.number)
    BY <1>2, NumbersAppend, ZenonT(60)
  <2>2. Numbers(pending)' = Numbers(Append(pending, held))
    BY <1>1, ZenonT(60) DEF Numbers
  <2> QED BY <2>1, <2>2, ZenonT(60)
<1>5. /\ IsInjective(Numbers(pending)')
      /\ Range(Numbers(pending)') = Range(n) \cup {held.number}
  <2>1. IsInjective(n)
    BY <1>2, ZenonT(60) DEF Apart
  <2>2. /\ IsInjective(Append(n, held.number))
        /\ Range(Append(n, held.number)) = Range(n) \cup {held.number}
    BY <1>3, <2>1, AppendApart, ZenonT(60)
  <2> QED BY <1>4, <2>2, ZenonT(60)
<1>6. Held' = {}
  BY <1>1, ZenonT(60) DEF Held, nil
<1>7. pending' \in Seq(StampedRequest) /\ nil \in StampedRequest
  BY <1>1, <1>2 DEF nil, StampedRequest
<1> HIDE DEF n
<1>8. Apart(processed', requestQ', Numbers(pending)', {}, received')
  BY <1>1, <1>2, <1>5, SMTT(30), SMTT(60) DEF Apart
<1> QED BY <1>1, <1>2, <1>6, <1>7, <1>8, ZenonT(60) DEF PInv, nil, StampedRequest

(* std::sort.                                                              *)
LEMMA SortApart ==
  ASSUME PInv, SortPending
  PROVE  PInv'
<1>1. /\ pending' \in Sorts(pending)
      /\ UNCHANGED <<received, requestQ, processed, engine, held, gateway>>
  BY ZenonT(60) DEF SortPending, engineVars, queueVars
<1>2. /\ pending \in Seq(StampedRequest)
      /\ Apart(processed, requestQ, Numbers(pending), Held, received)
  BY ZenonT(60) DEF PInv
<1>3. /\ pending' \in Seq(StampedRequest) /\ IsInjective(Numbers(pending'))
      /\ Range(Numbers(pending')) = Range(Numbers(pending))
  BY <1>1, <1>2, NumbersSorted, ZenonT(60) DEF Apart
<1>4. Held' = Held /\ Numbers(pending)' = Numbers(pending')
  BY <1>1, ZenonT(60) DEF Held, nil, Numbers
<1>5. Apart(processed, requestQ, Numbers(pending'), Held, received)
  BY <1>2, <1>3, ZenonT(60) DEF Apart
<1>6. Apart(processed', requestQ', Numbers(pending)', Held', received')
  BY <1>1, <1>4, <1>5, ZenonT(60)
<1> QED BY <1>1, <1>3, <1>6, ZenonT(60) DEF PInv, nil

(* A request is pushed to requestQ.                                        *)
LEMMA PublishApart ==
  ASSUME PInv, PublishPending
  PROVE  PInv'
<1> DEFINE n == Numbers(pending)
           x == Head(pending).number
<1>1. /\ pending # <<>> /\ pending' = Tail(pending) /\ requestQ' = Append(requestQ, x)
      /\ UNCHANGED <<received, processed, engine, held, gateway>>
  BY ZenonT(60) DEF PublishPending, engineVars
<1>2. /\ requestQ \in Seq(Nat) /\ pending \in Seq(StampedRequest)
      /\ Apart(processed, requestQ, n, Held, received)
  BY ZenonT(60) DEF PInv
<1>3. n \in Seq(Nat) /\ n # <<>> /\ Head(n) = x /\ Numbers(Tail(pending)) = Tail(n)
  BY <1>1, <1>2, NumbersSeq, NumbersTail, ZenonT(60)
<1>4. x \in Nat
  BY <1>3
<1>5. /\ IsInjective(Tail(n)) /\ x \in Range(n) /\ Range(Tail(n)) = Range(n) \ {x}
  BY <1>2, <1>3, TailApart, ZenonT(60) DEF Apart
<1>6. x \notin Range(requestQ)
  BY <1>2, <1>5, ZenonT(60) DEF Apart
<1>7. IsInjective(requestQ') /\ Range(requestQ') = Range(requestQ) \cup {x}
  BY <1>1, <1>2, <1>4, <1>6, AppendApart, ZenonT(60) DEF Apart
<1>8. Held' = Held /\ Numbers(pending)' = Tail(n)
  <2>1. Numbers(pending)' = Numbers(Tail(pending)) /\ Held' = Held
    BY <1>1, ZenonT(60) DEF Held, nil, Numbers
  <2> QED BY <1>3, <2>1, ZenonT(60)
<1>9. requestQ' \in Seq(Nat) /\ requestQ' # <<>> /\ pending' \in Seq(StampedRequest)
  <2>1. pending' \in Seq(StampedRequest)
    BY <1>1, <1>2
  <2> HIDE DEF x
  <2>2. Append(requestQ, x) \in Seq(Nat) /\ Append(requestQ, x) # <<>>
    BY <1>2, <1>4
  <2> QED BY <1>1, <2>1, <2>2, ZenonT(60)
<1> HIDE DEF n, x
<1>10. Apart(processed, requestQ', Tail(n), Held, received)
  BY <1>2, <1>5, <1>7, SMTT(30), SMTT(60) DEF Apart
<1>11. Apart(processed', requestQ', Numbers(pending)', Held', received')
  BY <1>1, <1>8, <1>10, ZenonT(60)
<1> QED BY <1>1, <1>9, <1>11, ZenonT(60) DEF PInv, nil

(* updateNextRead: the engine has done the request.                        *)
LEMMA EngineDoneApart ==
  ASSUME PInv, EngineDone
  PROVE  PInv'
<1> DEFINE x == Head(requestQ)
<1>1. /\ requestQ # <<>> /\ requestQ' = Tail(requestQ) /\ engine' = "head"
      /\ processed' = processed \cup {x}
      /\ UNCHANGED <<received, pending, held, gateway>>
  BY ZenonT(60) DEF EngineDone, gatewayVars, fifoVars, PInv
<1>2. requestQ \in Seq(Nat) /\ Apart(processed, requestQ, Numbers(pending), Held, received)
  BY ZenonT(60) DEF PInv
<1>3. /\ IsInjective(requestQ') /\ x \in Range(requestQ)
      /\ Range(requestQ') = Range(requestQ) \ {x}
  BY <1>1, <1>2, TailApart, ZenonT(60) DEF Apart
<1>4. requestQ' \in Seq(Nat)
  BY <1>1, <1>2
<1>5. Held' = Held /\ Numbers(pending)' = Numbers(pending)
  BY <1>1, ZenonT(60) DEF Held, nil, Numbers
<1> HIDE DEF x
<1>6. Apart(processed', requestQ', Numbers(pending), Held, received)
  BY <1>1, <1>2, <1>3, SMTT(30), SMTT(60) DEF Apart
<1>7. Apart(processed', requestQ', Numbers(pending)', Held', received')
  BY <1>1, <1>5, <1>6, ZenonT(60)
<1> QED BY <1>1, <1>4, <1>7, ZenonT(60) DEF PInv, nil

-----------------------------------------------------------------------------
(* Receiving, sorting, retaining, publishing and processing keep every     *)
(* request, and none is handed to the engine twice: not when requestQ is   *)
(* full, nor when pending_orders_ overflows in the middle of a round and   *)
(* has to grow, nor when the threads are stopped (addToPending,            *)
(* publishPendingOrders and growPending; getNextRead and updateNextRead).  *)
THEOREM RequestsNeverLost == Spec => []RequestsKept
<1>1. Init => PInv
  <2> SUFFICES ASSUME Init PROVE PInv
    OBVIOUS
  <2>1. /\ received = 0 /\ requestQ = <<>> /\ pending = <<>> /\ held = nil
        /\ processed = {} /\ gateway = "unstarted" /\ engine = "unstarted"
    BY ZenonT(60) DEF Init
  <2>2. DOMAIN requestQ = {} /\ DOMAIN Numbers(pending) = {} /\ 1 .. received = {}
    BY <2>1 DEF Numbers
  <2>3. Held = {} /\ nil \in StampedRequest /\ pending \in Seq(StampedRequest)
    BY <2>1 DEF Held, nil, StampedRequest
  <2>4. Apart(processed, requestQ, Numbers(pending), Held, received)
    BY <2>1, <2>2, <2>3, ZenonT(60) DEF Apart, IsInjective, Range
  <2>5. received \in Nat /\ requestQ \in Seq(Nat)
    BY <2>1
  <2> QED BY <2>1, <2>3, <2>4, <2>5, ZenonT(60) DEF PInv
<1>2. PInv /\ Unstarted /\ [Next]_vars => PInv'
  <2> SUFFICES ASSUME PInv, Unstarted, [Next]_vars PROVE PInv'
    OBVIOUS
  <2>1. CASE SortPending
    BY <2>1, SortApart, ZenonT(60)
  <2>2. CASE PublishPending
    BY <2>2, PublishApart, ZenonT(60)
  <2>3. CASE \E time \in 1 .. MaxTime : Receive(time)
    BY <2>3, ReceiveApart, ZenonT(60)
  <2>4. CASE AddHeld
    BY <2>4, AddHeldApart, ZenonT(60)
  <2>5. CASE EngineDone
    BY <2>5, EngineDoneApart, ZenonT(60)
  <2>6. CASE GatewayHead \/ DrainResponse \/ ResponsesDrained \/ PublishEnds \/ ReceiveEnds
    <3>1. /\ UNCHANGED <<received, requestQ, pending, held, processed, engine>>
          /\ gateway # "overflow" /\ gateway' # "overflow"
      BY <2>6 DEF GatewayHead, DrainResponse, ResponsesDrained, PublishEnds,
           ReceiveEnds, fifoVars, engineVars, queueVars
    <3> QED BY <3>1, StaysApart, ZenonT(60) DEF PInv
  <2>7. CASE (\E o \in Outputs : EngineReads(o)) \/ SendResponse \/ SendUpdate \/ EngineExits
    <3>1. /\ UNCHANGED <<received, requestQ, pending, held, processed, gateway>>
          /\ engine' = "process" => engine = "process" \/ requestQ # <<>>
      BY <2>7 DEF EngineReads, SendResponse, SendUpdate, EngineExits, gatewayVars,
           fifoVars, queueVars
    <3> QED BY <3>1, StaysApart, ZenonT(60) DEF PInv
  <2>8. CASE Publisher \/ Start \/ Signal \/ Join \/ UNCHANGED vars
    <3>1. /\ UNCHANGED <<received, requestQ, pending, held, processed>>
          /\ gateway' = gateway \/ (gateway = "unstarted" /\ gateway' = "head")
          /\ engine' = "process" => engine = "process"
      BY <2>8 DEF Unstarted, Publisher, Publish, PublisherExits, Start, Signal, Join, vars,
           gatewayVars, fifoVars, engineVars, queueVars
    <3> QED BY <3>1, StaysApart, ZenonT(60) DEF PInv
  <2> QED BY <2>1, <2>2, <2>3, <2>4, <2>5, <2>6, <2>7, <2>8, ZenonT(60)
            DEF Next, Gateway, Engine
<1>3. PInv => RequestsKept
  <2> SUFFICES ASSUME PInv PROVE RequestsKept
    OBVIOUS
  <2> DEFINE n == Numbers(pending)
             h == IF held = nil THEN <<>> ELSE <<held.number>>
  <2>1. /\ requestQ \in Seq(Nat) /\ pending \in Seq(StampedRequest)
        /\ held \in StampedRequest
        /\ Apart(processed, requestQ, n, Held, received)
    BY ZenonT(60) DEF PInv
  <2>2. n \in Seq(Nat)
    BY <2>1, NumbersSeq, ZenonT(60)
  <2>3. h \in Seq(Nat) /\ IsInjective(h) /\ Range(h) = Held
    <3>1. held.number \in Nat
      BY <2>1 DEF StampedRequest
    <3>2. CASE held = nil
      BY <3>2 DEF Held, IsInjective, Range
    <3>3. CASE held # nil
      BY <3>1, <3>3 DEF Held, IsInjective, Range
    <3> QED BY <3>2, <3>3
  <2> HIDE DEF n, h
  <2>4. /\ requestQ \o n \in Seq(Nat) /\ IsInjective(requestQ \o n)
        /\ Range(requestQ \o n) = Range(requestQ) \cup Range(n)
    BY <2>1, <2>2, ConcatApart, ZenonT(60) DEF Apart
  <2>5. Range(requestQ \o n) \cap Range(h) = {}
    BY <2>1, <2>3, <2>4, ZenonT(60) DEF Apart
  <2>6. /\ IsInjective((requestQ \o n) \o h)
        /\ Range((requestQ \o n) \o h) = Range(requestQ) \cup Range(n) \cup Held
    BY <2>3, <2>4, <2>5, ConcatApart, ZenonT(60)
  <2>7. Waiting = (requestQ \o n) \o h
    BY ZenonT(60) DEF Waiting, n, h
  <2> QED BY <2>1, <2>6, <2>7, SMTT(30), SMTT(60) DEF RequestsKept, Apart
<1>4. Init => Unstarted
  BY DEF Init, Unstarted
<1>5. Unstarted /\ [Next]_vars => Unstarted'
  <2> SUFFICES ASSUME Unstarted, [Next]_vars PROVE Unstarted'
    OBVIOUS
  <2>1. CASE Gateway
    BY <2>1 DEF Unstarted, Gateway, GatewayHead, DrainResponse, ResponsesDrained,
         SortPending, PublishPending, PublishEnds, Publishing, Receive, AddHeld,
         ReceiveEnds
  <2>2. CASE Engine \/ Publisher \/ Signal \/ Join \/ UNCHANGED vars
    BY <2>2 DEF Unstarted, Engine, EngineReads, SendResponse, SendUpdate, EngineDone,
         EngineExits, Publisher, Publish, PublisherExits, Signal, Join, vars, gatewayVars
  <2>3. CASE Start
    BY <2>3 DEF Unstarted, Start
  <2> QED BY <2>1, <2>2, <2>3 DEF Next
<1> QED BY <1>1, <1>2, <1>3, <1>4, <1>5, PTL DEF Spec
=============================================================================
