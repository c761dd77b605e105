--------------------------- MODULE GatewayProofs ---------------------------
(***************************************************************************)
(* Responses reach their owners; no request is lost, requests enter        *)
(* requestQ in the order the README promises, and cancels and replaces     *)
(* name the orders their sessions meant: for every number of sessions,     *)
(* descriptors, tokens and messages and every size of the queues, of the   *)
(* pending buffer and of the token pool.                                   *)
(*                                                                         *)
(* ResponsesReachOwner and SocketsOpen speak of the end of a chain: a      *)
(* response carries the client of a request, the request that of its       *)
(* order's token, and the client's socket that of the session which        *)
(* registered the token.  The inductive invariant GInv has a conjunct for  *)
(* every link: the two client maps agree and follow the open sockets, a    *)
(* client id is never given twice, a token's owner is its client, and what *)
(* travels through the sequencer, the queues and the engine names an order *)
(* of its own client.  The properties of the sequencer and of the tokens   *)
(* have inductive invariants of their own, relative to GInv; their proofs  *)
(* are the second half of the module.                                      *)
(***************************************************************************)
EXTENDS Gateway, TLAPS

(* A leaf that names no prover is tried with each of these in turn.        *)
USE SMT, ZenonT(30), SMTT(60)

TokenInfo == [token : Tokens, clientId : Nat, session : Sessions]

Request ==
  [action : {"NEW", "CANCEL", "MODIFY"}, named : Tokens, id : Nat, newId : Nat,
   client : Nat, time : Nat, session : Sessions, round : Nat, n : Nat]

Response == [client : Nat, id : Nat]

(* The session s registered as client c: its socket is the client's, if    *)
(* the client still has one.                                               *)
RegisteredAs(c, s) ==
  /\ c \in Nat /\ c < nextClientId
  /\ c \in DOMAIN clientToSocket => clientToSocket[c] = s

(* The order id is one of client c.                                        *)
OrderOf(c, id) ==
  id \in DOMAIN id_to_token /\ id_to_token[id].clientId = c

(* Requests and responses that name orders of their client.                *)
Owned ==
  {r \in Request : /\ OrderOf(r.client, r.id)
                   /\ r.action = "MODIFY" => OrderOf(r.client, r.newId)}
Answer == {r \in Response : OrderOf(r.client, r.id)}

(* A response of the engine to some request it has taken.                  *)
EngineAnswers ==
  \E r \in Range(taken) : \E id \in OrdersOf(r) : EngineResponds(r, id)

(* The types of the state the argument touches.                            *)
TypeOK ==
  /\ nextClientId \in Nat /\ round \in Nat /\ received \in Nat
  /\ id_to_token \in Seq(TokenInfo)

(* The sockets and the two client maps.                                    *)
ClientsFollowSockets ==
  /\ ready \subseteq DOMAIN socket
  /\ \A fd \in DOMAIN socket : socket[fd] \in accepted \cap Sessions
  /\ \A f, g \in DOMAIN socket : socket[f] = socket[g] => f = g
  /\ DOMAIN fdToClientId \subseteq DOMAIN socket
  /\ \A fd \in DOMAIN fdToClientId :
       /\ fdToClientId[fd] \in Nat /\ fdToClientId[fd] < nextClientId
       /\ fdToClientId[fd] \in DOMAIN clientToSocket
       /\ clientToSocket[fdToClientId[fd]] = socket[fd]
  /\ SocketsOpen

(* Tokens belong to the client that registered them.                       *)
TokensOwned ==
  /\ \A i \in DOMAIN id_to_token :
       RegisteredAs(id_to_token[i].clientId, id_to_token[i].session)
  /\ \A k \in DOMAIN token_to_id : OrderOf(k[1], token_to_id[k])

(* What onRecv is reading comes from a registered session.                 *)
ReadingRegistered ==
  pc \in {"decode", "overflow"} =>
    /\ reading.session \in Sessions /\ reading.time \in Nat
    /\ RegisteredAs(reading.client, reading.session)

(* What travels names an order of its client.                              *)
RequestsOwned ==
  /\ pc = "overflow" => held \in Owned
  /\ pending_orders \in Seq(Owned)
  /\ requestQ \in Seq(Owned) /\ taken \in Seq(Owned)
  /\ responseQ \in Seq(Answer)

(* The response just sent is one to a known order, and reached its owner.  *)
SentToOwner ==
  sent # nil => sent[2] \in DOMAIN id_to_token /\ ResponsesReachOwner

GInv ==
  /\ TypeOK /\ ClientsFollowSockets /\ TokensOwned
  /\ ReadingRegistered /\ RequestsOwned /\ SentToOwner

-----------------------------------------------------------------------------
(* A longer type of elements is a type of the sequence.                    *)
LEMMA SeqWidens ==
  ASSUME NEW S, NEW T, S \subseteq T, NEW q \in Seq(S)
  PROVE  q \in Seq(T)
OBVIOUS

(* What the sequencer and the queues carry are requests and responses.     *)
LEMMA Carried ==
  ASSUME GInv
  PROVE  /\ pending_orders \in Seq(Request)
         /\ requestQ \in Seq(Request) /\ taken \in Seq(Request)
         /\ responseQ \in Seq(Response)
<1>1. Owned \subseteq Request /\ Answer \subseteq Response
  BY Zenon DEF Owned, Answer
<1>2. /\ pending_orders \in Seq(Owned) /\ requestQ \in Seq(Owned)
      /\ taken \in Seq(Owned) /\ responseQ \in Seq(Answer)
  BY Zenon DEF GInv, RequestsOwned
<1> QED BY <1>1, <1>2, SeqWidens

(* The step leaves the sockets, the clients and the tokens alone, and does *)
(* not begin to read.                                                      *)
ClientsStill ==
  /\ UNCHANGED <<socket, accepted, fdToClientId, clientToSocket, nextClientId,
                 id_to_token, token_to_id>>
  /\ ready' \subseteq DOMAIN socket
  /\ pc' \in {"decode", "overflow"} =>
       pc \in {"decode", "overflow"} /\ reading' = reading

(* Such a step keeps what the invariant says of them.                      *)
LEMMA StillKeeps ==
  ASSUME GInv, ClientsStill
  PROVE  /\ ClientsFollowSockets' /\ TokensOwned' /\ ReadingRegistered'
         /\ Owned' = Owned /\ Answer' = Answer
         /\ nextClientId' \in Nat /\ id_to_token' \in Seq(TokenInfo)
         /\ sent' \in {nil, sent} => SentToOwner'
<1>1. /\ ClientsFollowSockets /\ TokensOwned /\ ReadingRegistered
      /\ SentToOwner /\ TypeOK
  BY Zenon DEF GInv
<1>2. ClientsFollowSockets'
  BY <1>1, Zenon DEF ClientsStill, ClientsFollowSockets, SocketsOpen
<1>3. TokensOwned'
  BY <1>1, Zenon DEF ClientsStill, TokensOwned, RegisteredAs, OrderOf
<1>4. ReadingRegistered'
  BY <1>1, Zenon DEF ClientsStill, ReadingRegistered, RegisteredAs
<1>5. Owned' = Owned /\ Answer' = Answer
  BY Zenon DEF ClientsStill, Owned, Answer, OrderOf
<1>6. sent' \in {nil, sent} => SentToOwner'
  BY <1>1, Zenon DEF ClientsStill, SentToOwner, ResponsesReachOwner
<1>7. nextClientId' \in Nat /\ id_to_token' \in Seq(TokenInfo)
  BY <1>1, Zenon DEF ClientsStill, TypeOK
<1> QED BY <1>2, <1>3, <1>4, <1>5, <1>6, <1>7, Zenon

(* Taking responses and requests from the queues, and sorting, publishing  *)
(* and retaining requests (drainResponses, publishPendingOrders, the       *)
(* engine) keep the invariant, as does every stutter.                      *)
LEMMA QueueSteps ==
  ASSUME GInv,
         \/ DrainResponse \/ Drained \/ SortPending \/ PushPending
         \/ Retried \/ Received \/ EndRecv \/ RoundFinished \/ AddHeld
         \/ EngineTakes \/ EngineAnswers
         \/ Polled \/ UNCHANGED vars
  PROVE  GInv'
<1>1. /\ ClientsFollowSockets /\ TokensOwned /\ TypeOK
      /\ pc = "overflow" => held \in Owned
      /\ pending_orders \in Seq(Owned) /\ requestQ \in Seq(Owned)
      /\ taken \in Seq(Owned) /\ responseQ \in Seq(Answer)
  BY Zenon DEF GInv, RequestsOwned
<1>2. ready \subseteq DOMAIN socket
  BY <1>1, Zenon DEF ClientsFollowSockets
<1>3. ASSUME ClientsStill, SentToOwner', round' \in Nat, received' \in Nat,
             pc' = "overflow" => held' \in Owned,
             pending_orders' \in Seq(Owned), requestQ' \in Seq(Owned),
             taken' \in Seq(Owned), responseQ' \in Seq(Answer)
      PROVE  GInv'
  <2>1. RequestsOwned'
    BY <1>3, StillKeeps, Zenon DEF RequestsOwned
  <2>2. TypeOK'
    BY <1>3, StillKeeps, Zenon DEF TypeOK
  <2> QED BY <1>3, <2>1, <2>2, StillKeeps, Zenon DEF GInv
<1>4. ASSUME UNCHANGED <<socketVars, clientVars, tokenVars>>,
             ready' = ready \/ ready' \in SUBSET DOMAIN socket,
             \/ pc' \notin {"decode", "overflow"}
             \/ pc \in {"decode", "overflow"} /\ UNCHANGED reading
      PROVE  ClientsStill
  BY <1>2, <1>4, Zenon DEF ClientsStill, socketVars, clientVars, tokenVars
<1>5. CASE DrainResponse
  <2> DEFINE r == Head(responseQ)
  <2>1. /\ responseQ # <<>>
        /\ responseQ' = Tail(responseQ)
        /\ sent' = IF r.client \in DOMAIN clientToSocket
                   THEN <<clientToSocket[r.client], r.id>> ELSE nil
        /\ UNCHANGED <<pc, ready, reading, held, socketVars, clientVars,
                       tokenVars, fifoVars, requestQ, taken, received, round>>
    BY <1>5, Zenon DEF DrainResponse
  <2>2. ClientsStill
    BY <1>4, <2>1, Zenon
  <2>3. responseQ' \in Seq(Answer) /\ r \in Answer
    BY <1>1, <2>1
  <2>4. OrderOf(r.client, r.id)
    BY <2>3, Zenon DEF Answer
  <2>5. SentToOwner'
    <3>1. ASSUME r.client \in DOMAIN clientToSocket
          PROVE  SentToOwner'
      <4>1. clientToSocket[r.client] = id_to_token[r.id].session
        BY <1>1, <2>4, <3>1, Zenon DEF OrderOf, TokensOwned, RegisteredAs
      <4>2. sent'[1] = clientToSocket[r.client] /\ sent'[2] = r.id
        BY <2>1, <3>1
      <4> QED BY <2>1, <2>4, <4>1, <4>2, Zenon
              DEF SentToOwner, ResponsesReachOwner, OrderOf, tokenVars
    <3>2. ASSUME r.client \notin DOMAIN clientToSocket
          PROVE  SentToOwner'
      BY <2>1, <3>2, Zenon DEF SentToOwner
    <3> QED BY <3>1, <3>2, Zenon
  <2> QED BY <1>1, <1>3, <2>1, <2>2, <2>3, <2>5, Zenon DEF TypeOK, fifoVars
<1>6. ASSUME ClientsStill, UNCHANGED <<received, round>>, sent' \in {nil, sent},
             pc' = "overflow" => pc = "overflow" /\ held' = held,
             UNCHANGED responseQ, pending_orders' \in Seq(Owned),
             requestQ' \in Seq(Owned), taken' \in Seq(Owned)
      PROVE  GInv'
  BY <1>1, <1>3, <1>6, StillKeeps, Zenon DEF TypeOK
<1>7. CASE SortPending
  <2>1. /\ pending_orders' \in Sorts(pending_orders)
        /\ UNCHANGED <<pc, ready, reading, held, socketVars, clientVars,
                       tokenVars, queueVars, received, sent, round>>
    BY <1>7, Zenon DEF SortPending
  <2>2. PICK f \in Bijection(DOMAIN pending_orders, DOMAIN pending_orders) :
          pending_orders' = [i \in DOMAIN pending_orders |-> pending_orders[f[i]]]
    BY <2>1, Zenon DEF Sorts
  <2>3. f \in [DOMAIN pending_orders -> DOMAIN pending_orders]
    BY Zenon DEF Bijection, Injection
  <2>4. pending_orders' \in Seq(Owned)
    <3>1. DOMAIN pending_orders = 1 .. Len(pending_orders)
          /\ Len(pending_orders) \in Nat
      BY <1>1
    <3>2. pending_orders' \in [1 .. Len(pending_orders) -> Owned]
      BY <1>1, <2>2, <2>3, <3>1
    <3> QED BY <3>1, <3>2
  <2>5. ClientsStill
    BY <1>4, <2>1, Zenon
  <2> QED BY <1>1, <1>6, <2>1, <2>4, <2>5, Zenon DEF queueVars
<1>8. CASE PushPending
  <2>1. /\ pending_orders # <<>>
        /\ requestQ' = Append(requestQ, Head(pending_orders))
        /\ pending_orders' = Tail(pending_orders)
        /\ UNCHANGED <<pc, ready, reading, held, socketVars, clientVars,
                       tokenVars, responseQ, taken, received, sent, round>>
    BY <1>8, Zenon DEF PushPending
  <2>2. pending_orders' \in Seq(Owned) /\ Head(pending_orders) \in Owned
    BY <1>1, <2>1
  <2>3. requestQ' \in Seq(Owned)
    BY <1>1, <2>1, <2>2
  <2>4. ClientsStill
    BY <1>4, <2>1, Zenon
  <2> QED BY <1>1, <1>6, <2>1, <2>2, <2>3, <2>4, Zenon
<1>9. CASE Drained \/ Retried \/ Received \/ EndRecv \/ Polled \/ UNCHANGED vars
  <2>1. /\ UNCHANGED <<socketVars, clientVars, tokenVars, fifoVars, queueVars,
                       received, round>>
        /\ sent' \in {nil, sent}
        /\ ready' = ready \/ ready' \in SUBSET DOMAIN socket
        /\ \/ pc' \notin {"decode", "overflow"}
           \/ UNCHANGED <<pc, reading, held>>
    BY <1>9, SMTT(30), SMTT(60) DEF Drained, Retried, Received, EndRecv, Polled, vars, history
  <2>2. ClientsStill
    BY <1>4, <2>1, Zenon DEF ClientsStill, socketVars, clientVars, tokenVars
  <2> QED BY <1>1, <1>6, <2>1, <2>2, ZenonT(60) DEF fifoVars, queueVars
<1>10. CASE RoundFinished
  <2>1. /\ pc' = "drain"
        /\ UNCHANGED <<ready, reading, held, socketVars, clientVars, tokenVars,
                       fifoVars, queueVars, received, sent>>
    BY <1>10, Zenon DEF RoundFinished
  <2>2. round' \in Nat
    BY <1>1, <1>10 DEF RoundFinished, TypeOK
  <2>3. ClientsStill
    BY <1>4, <2>1, SMTT(30), SMTT(60)
  <2> QED BY <1>1, <1>3, <2>1, <2>2, <2>3, StillKeeps, SMTT(30), SMTT(60)
          DEF TypeOK, fifoVars, queueVars
<1>11. CASE AddHeld
  <2>1. /\ pc = "overflow" /\ pc' = "decode"
        /\ pending_orders' = Append(pending_orders, held)
        /\ UNCHANGED <<ready, reading, socketVars, clientVars, tokenVars,
                       queueVars, received, sent, round>>
    BY <1>11, Zenon DEF AddHeld, addToPending, history
  <2>2. pending_orders' \in Seq(Owned)
    BY <1>1, <2>1
  <2>3. ClientsStill
    BY <1>4, <2>1, Zenon
  <2> QED BY <1>1, <1>6, <2>1, <2>2, <2>3, SMTT(30), SMTT(60) DEF queueVars
<1>12. CASE EngineTakes
  <2>1. /\ requestQ # <<>>
        /\ taken' = Append(taken, Head(requestQ)) /\ requestQ' = Tail(requestQ)
        /\ UNCHANGED <<pc, ready, reading, held, socketVars, clientVars,
                       tokenVars, fifoVars, responseQ, received, sent, round>>
    BY <1>12, Zenon DEF EngineTakes, history
  <2>2. requestQ' \in Seq(Owned) /\ Head(requestQ) \in Owned
    BY <1>1, <2>1, SMTT(30), SMTT(60)
  <2>3. taken' \in Seq(Owned)
    BY <1>1, <2>1, <2>2
  <2>4. ClientsStill
    BY <1>4, <2>1, Zenon
  <2> QED BY <1>1, <1>6, <2>1, <2>2, <2>3, <2>4, Zenon DEF fifoVars
<1>13. CASE EngineAnswers
  <2>0. PICK k \in DOMAIN taken : \E i \in OrdersOf(taken[k]) : EngineResponds(taken[k], i)
    BY <1>13, Zenon DEF EngineAnswers, Range
  <2>1. PICK id \in OrdersOf(taken[k]) : EngineResponds(taken[k], id)
    BY <2>0
  <2> DEFINE resp == [client |-> taken[k].client, id |-> id]
  <2>2. /\ responseQ' = Append(responseQ, resp)
        /\ UNCHANGED <<pc, ready, reading, held, socketVars, clientVars,
                       tokenVars, fifoVars, requestQ, taken, received, sent, round>>
    BY <2>1, Zenon DEF EngineResponds, history
  <2>3. taken[k] \in Owned
    BY <1>1, SMTT(30), SMTT(60)
  <2>4. taken[k] \in Request /\ OrderOf(resp.client, resp.id)
    BY <2>3, SMTT(30), SMTT(60) DEF Owned, OrdersOf
  <2>5. resp \in Response
    <3>1. taken[k].id \in Nat /\ taken[k].newId \in Nat /\ taken[k].client \in Nat
      BY <2>4, SMTT(30), SMTT(60) DEF Request
    <3>2. id \in Nat
      BY <3>1, SMTT(30), SMTT(60) DEF OrdersOf
    <3> QED BY <3>1, <3>2, SMTT(30), SMTT(60) DEF Response
  <2>6. resp \in Answer
    BY <2>4, <2>5, Zenon DEF Answer
  <2> HIDE DEF resp
  <2>7. responseQ' \in Seq(Answer)
    BY <1>1, <2>2, <2>6
  <2>8. ClientsStill
    BY <1>4, <2>2, Zenon
  <2>9. SentToOwner'
    BY <2>2, <2>8, StillKeeps
  <2> QED BY <1>1, <1>3, <2>2, <2>7, <2>8, <2>9, Zenon DEF TypeOK, fifoVars
<1> QED BY <1>5, <1>7, <1>8, <1>9, <1>10, <1>11, <1>12, <1>13, Zenon

(* A step that leaves the tokens and the queues alone keeps the invariant  *)
(* if it keeps clients and sockets in agreement and gives no client away.  *)
LEMMA ClientSteps ==
  ASSUME GInv, UNCHANGED <<held, tokenVars, fifoVars, queueVars, history>>,
         ClientsFollowSockets', ReadingRegistered',
         nextClientId' \in Nat, pc' # "overflow",
         \A c, s : RegisteredAs(c, s) => RegisteredAs(c, s)'
  PROVE  GInv'
<1>1. TypeOK /\ TokensOwned /\ RequestsOwned /\ SentToOwner
  BY Zenon DEF GInv
<1>2. UNCHANGED <<id_to_token, token_to_id, pending_orders, requestQ, taken,
                  responseQ, received, sent, round>>
  BY Zenon DEF tokenVars, fifoVars, queueVars, history
<1>3. Owned' = Owned /\ Answer' = Answer
  BY <1>2, Zenon DEF Owned, Answer, OrderOf
<1>4. RequestsOwned'
  BY <1>1, <1>2, <1>3, Zenon DEF RequestsOwned
<1>5. TokensOwned'
  <2>1. \A i \in DOMAIN id_to_token :
          RegisteredAs(id_to_token[i].clientId, id_to_token[i].session)'
    BY <1>1, <1>2, Zenon DEF TokensOwned, RegisteredAs
  <2>2. \A k \in DOMAIN token_to_id : OrderOf(k[1], token_to_id[k])
    BY <1>1, Zenon DEF TokensOwned
  <2> QED BY <1>2, <2>1, <2>2, Zenon DEF TokensOwned, OrderOf
<1>6. SentToOwner'
  BY <1>1, <1>2, Zenon DEF SentToOwner, ResponsesReachOwner
<1>7. TypeOK'
  BY <1>1, <1>2, Zenon DEF TypeOK
<1> QED BY <1>4, <1>5, <1>6, <1>7, Zenon DEF GInv

(* TCPServer::poll accepts a connection.                                   *)
LEMMA AcceptKeeps ==
  ASSUME GInv, NEW s \in Sessions, NEW fd \in Fds, Accept(s, fd)
  PROVE  GInv'
<1>1. ClientsFollowSockets /\ ReadingRegistered /\ nextClientId \in Nat
  BY Zenon DEF GInv, TypeOK
<1>2. /\ pc = "poll" /\ s \notin accepted /\ fd \notin DOMAIN socket
      /\ accepted' = accepted \cup {s}
      /\ socket' = Assign(socket, fd, s)
      /\ UNCHANGED <<pc, ready, reading, held, clientVars, tokenVars, fifoVars,
                     queueVars, history>>
  BY Zenon DEF Accept
<1>3. /\ DOMAIN socket' = DOMAIN socket \cup {fd}
      /\ socket'[fd] = s
      /\ \A f \in DOMAIN socket : socket'[f] = socket[f]
  BY <1>2 DEF Assign
<1>4. UNCHANGED <<fdToClientId, clientToSocket, nextClientId>>
  BY <1>2, Zenon DEF clientVars
<1>5. ClientsFollowSockets'
  <2>1. SocketsOpen'
    BY <1>1, <1>3, <1>4, ZenonT(60) DEF ClientsFollowSockets, SocketsOpen
  <2> QED BY <1>1, <1>2, <1>3, <1>4, <2>1 DEF ClientsFollowSockets
<1>6. \A c, t : RegisteredAs(c, t) => RegisteredAs(c, t)'
  BY <1>4, Zenon DEF RegisteredAs
<1>7. pc' = "poll"
  BY <1>2, Zenon
<1>8. ReadingRegistered'
  BY <1>7 DEF ReadingRegistered
<1>9. nextClientId' \in Nat /\ pc' # "overflow"
  BY <1>1, <1>4, <1>7
<1> QED BY <1>2, <1>5, <1>6, <1>8, <1>9, ClientSteps, Zenon

(* The clients a read finds or registers.                                  *)
LEMMA RegisterKeeps ==
  ASSUME GInv, NEW fd \in DOMAIN socket, UNCHANGED <<socket, accepted>>,
         ready' \subseteq ready,
         IF fd \in DOMAIN fdToClientId THEN UNCHANGED clientVars
         ELSE registerClient(fd, socket[fd])
  PROVE  /\ ClientsFollowSockets' /\ nextClientId' \in Nat
         /\ fd \in DOMAIN fdToClientId'
         /\ \A c, s : RegisteredAs(c, s) => RegisteredAs(c, s)'
<1>1. ClientsFollowSockets /\ nextClientId \in Nat
  BY Zenon DEF GInv, TypeOK
<1>2. ready' \subseteq DOMAIN socket
  BY <1>1, Zenon DEF ClientsFollowSockets
<1>3. ASSUME fd \in DOMAIN fdToClientId
      PROVE  /\ ClientsFollowSockets' /\ nextClientId' \in Nat
             /\ fd \in DOMAIN fdToClientId'
             /\ \A c, s : RegisteredAs(c, s) => RegisteredAs(c, s)'
  <2>1. UNCHANGED <<fdToClientId, clientToSocket, nextClientId>>
    BY <1>3, Zenon DEF clientVars
  <2>2. ClientsFollowSockets'
    BY <1>1, <1>2, <2>1, Zenon DEF ClientsFollowSockets, SocketsOpen
  <2>3. \A c, s : RegisteredAs(c, s) => RegisteredAs(c, s)'
    BY <2>1, Zenon DEF RegisteredAs
  <2> QED BY <1>1, <1>3, <2>1, <2>2, <2>3, Zenon
<1>4. ASSUME fd \notin DOMAIN fdToClientId
      PROVE  /\ ClientsFollowSockets' /\ nextClientId' \in Nat
             /\ fd \in DOMAIN fdToClientId'
             /\ \A c, s : RegisteredAs(c, s) => RegisteredAs(c, s)'
  <2>1. /\ fdToClientId' = Assign(fdToClientId, fd, nextClientId)
        /\ clientToSocket' = Assign(clientToSocket, nextClientId, socket[fd])
        /\ nextClientId' = nextClientId + 1
    BY <1>4, Zenon DEF registerClient
  <2>2. /\ DOMAIN fdToClientId' = DOMAIN fdToClientId \cup {fd}
        /\ fdToClientId'[fd] = nextClientId
        /\ \A f \in DOMAIN fdToClientId : fdToClientId'[f] = fdToClientId[f]
    BY <1>4, <2>1 DEF Assign
  <2>3. \A f \in DOMAIN fdToClientId :
          /\ fdToClientId[f] \in Nat /\ fdToClientId[f] < nextClientId
          /\ fdToClientId[f] \in DOMAIN clientToSocket
          /\ clientToSocket[fdToClientId[f]] = socket[f]
    BY <1>1, Zenon DEF ClientsFollowSockets
  <2>4. \A c \in DOMAIN clientToSocket :
          \E f \in DOMAIN socket : /\ socket[f] = clientToSocket[c]
                                   /\ f \in DOMAIN fdToClientId
                                   /\ fdToClientId[f] = c
    BY <1>1, Zenon DEF ClientsFollowSockets, SocketsOpen
  <2>5. nextClientId \notin DOMAIN clientToSocket
    BY <1>1, <2>3, <2>4
  <2>6. /\ DOMAIN clientToSocket' = DOMAIN clientToSocket \cup {nextClientId}
        /\ clientToSocket'[nextClientId] = socket[fd]
        /\ \A c \in DOMAIN clientToSocket : clientToSocket'[c] = clientToSocket[c]
    BY <2>1, <2>5, SMTT(30), SMTT(60) DEF Assign
  <2>7. SocketsOpen'
    <3> SUFFICES ASSUME NEW c \in DOMAIN clientToSocket'
                 PROVE  \E f \in DOMAIN socket : /\ socket[f] = clientToSocket'[c]
                                                 /\ f \in DOMAIN fdToClientId'
                                                 /\ fdToClientId'[f] = c
      BY Zenon DEF SocketsOpen
    <3>1. ASSUME c = nextClientId
          PROVE  \E f \in DOMAIN socket : /\ socket[f] = clientToSocket'[c]
                                          /\ f \in DOMAIN fdToClientId'
                                          /\ fdToClientId'[f] = c
      BY <2>2, <2>6, <3>1
    <3>2. ASSUME c \in DOMAIN clientToSocket
          PROVE  \E f \in DOMAIN socket : /\ socket[f] = clientToSocket'[c]
                                          /\ f \in DOMAIN fdToClientId'
                                          /\ fdToClientId'[f] = c
      BY <2>2, <2>4, <2>6, <3>2, SMTT(30), SMTT(60)
    <3> QED BY <2>6, <3>1, <3>2
  <2>8. \A f \in DOMAIN fdToClientId' :
          /\ fdToClientId'[f] \in Nat /\ fdToClientId'[f] < nextClientId'
          /\ fdToClientId'[f] \in DOMAIN clientToSocket'
          /\ clientToSocket'[fdToClientId'[f]] = socket[f]
    BY <1>1, <2>1, <2>2, <2>3, <2>6
  <2>9. /\ \A f \in DOMAIN socket : socket[f] \in accepted \cap Sessions
        /\ \A f, g \in DOMAIN socket : socket[f] = socket[g] => f = g
        /\ DOMAIN fdToClientId' \subseteq DOMAIN socket
    BY <1>1, <2>2, Zenon DEF ClientsFollowSockets
  <2>10. ClientsFollowSockets'
    BY <1>2, <2>7, <2>8, <2>9, Zenon DEF ClientsFollowSockets
  <2>11. \A c, s : RegisteredAs(c, s) => RegisteredAs(c, s)'
    BY <1>1, <2>1, <2>6 DEF RegisteredAs
  <2>12. nextClientId' \in Nat
    BY <1>1, <2>1
  <2> QED BY <2>2, <2>10, <2>11, <2>12, Zenon
<1> QED BY <1>3, <1>4, Zenon

(* onRecv begins.                                                          *)
LEMMA BeginRecvKeeps ==
  ASSUME GInv, NEW fd \in ready, NEW time \in 1 .. MaxTime, BeginRecv(fd, time)
  PROVE  GInv'
<1>1. /\ pc' = "decode" /\ ready' = ready \ {fd}
      /\ reading' = [session |-> socket[fd], client |-> fdToClientId'[fd],
                     time |-> time]
      /\ IF fd \in DOMAIN fdToClientId THEN UNCHANGED clientVars
         ELSE registerClient(fd, socket[fd])
      /\ UNCHANGED <<held, socket, accepted, tokenVars, fifoVars, queueVars,
                     history>>
  BY Zenon DEF BeginRecv
<1>2. fd \in DOMAIN socket /\ socket[fd] \in Sessions
  BY Zenon DEF GInv, ClientsFollowSockets
<1>3. time \in Nat
  BY GatewayAssumption
<1>4. /\ ClientsFollowSockets' /\ nextClientId' \in Nat
      /\ fd \in DOMAIN fdToClientId'
      /\ \A c, s : RegisteredAs(c, s) => RegisteredAs(c, s)'
  <2>1. ready' \subseteq ready
    BY <1>1
  <2> QED BY <1>1, <1>2, <2>1, RegisterKeeps, Zenon
<1>5. /\ fdToClientId'[fd] \in Nat /\ fdToClientId'[fd] < nextClientId'
      /\ clientToSocket'[fdToClientId'[fd]] = socket[fd]
  BY <1>1, <1>4, Zenon DEF ClientsFollowSockets
<1>6. ReadingRegistered'
  <2>1. /\ reading'.session = socket[fd] /\ reading'.client = fdToClientId'[fd]
        /\ reading'.time = time
    BY <1>1, SMTT(30), SMTT(60)
  <2> QED BY <1>2, <1>3, <1>5, <2>1, Zenon DEF ReadingRegistered, RegisteredAs
<1>7. pc' # "overflow"
  BY <1>1
<1> QED BY <1>1, <1>4, <1>6, <1>7, ClientSteps, Zenon

(* onDisconnect.                                                           *)
LEMMA DisconnectKeeps ==
  ASSUME GInv, NEW fd \in ready, Disconnect(fd)
  PROVE  GInv'
<1>1. ClientsFollowSockets /\ nextClientId \in Nat
  BY Zenon DEF GInv, TypeOK
<1>2. /\ pc = "receive" /\ ready' = ready \ {fd} /\ onDisconnect(fd)
      /\ socket' = Erase(socket, fd)
      /\ UNCHANGED <<pc, reading, held, accepted, tokenVars, fifoVars, queueVars,
                     history>>
  BY Zenon DEF Disconnect
<1>3. /\ DOMAIN socket' = DOMAIN socket \ {fd}
      /\ \A f \in DOMAIN socket' : socket'[f] = socket[f]
  BY <1>2 DEF Erase, Restrict
<1>4. nextClientId' = nextClientId
  BY <1>2, Zenon DEF onDisconnect, clientVars
<1>5. /\ DOMAIN fdToClientId' = DOMAIN fdToClientId \ {fd}
      /\ \A f \in DOMAIN fdToClientId' : fdToClientId'[f] = fdToClientId[f]
      /\ \A c \in DOMAIN clientToSocket' : /\ c \in DOMAIN clientToSocket
                                           /\ clientToSocket'[c] = clientToSocket[c]
      /\ \A c \in DOMAIN clientToSocket :
           \/ c \in DOMAIN clientToSocket'
           \/ fd \in DOMAIN fdToClientId /\ c = fdToClientId[fd]
      /\ fd \in DOMAIN fdToClientId => fdToClientId[fd] \notin DOMAIN clientToSocket'
  <2>1. CASE fd \in DOMAIN fdToClientId
    <3>1. /\ clientToSocket' = Erase(clientToSocket, fdToClientId[fd])
          /\ fdToClientId' = Erase(fdToClientId, fd)
      BY <1>2, <2>1, Zenon DEF onDisconnect
    <3>2. /\ DOMAIN clientToSocket' = DOMAIN clientToSocket \ {fdToClientId[fd]}
          /\ \A c \in DOMAIN clientToSocket' : clientToSocket'[c] = clientToSocket[c]
      BY <3>1 DEF Erase, Restrict
    <3>3. /\ DOMAIN fdToClientId' = DOMAIN fdToClientId \ {fd}
          /\ \A f \in DOMAIN fdToClientId' : fdToClientId'[f] = fdToClientId[f]
      BY <3>1, SMTT(30), SMTT(60) DEF Erase, Restrict
    <3> QED BY <2>1, <3>2, <3>3, Zenon
  <2>2. CASE fd \notin DOMAIN fdToClientId
    BY <1>2, <2>2, SMTT(30), SMTT(60) DEF onDisconnect, clientVars
  <2> QED BY <2>1, <2>2, Zenon
<1>6. SocketsOpen'
  <2>1. \A c \in DOMAIN clientToSocket :
          \E f \in DOMAIN socket : /\ socket[f] = clientToSocket[c]
                                   /\ f \in DOMAIN fdToClientId
                                   /\ fdToClientId[f] = c
    BY <1>1, Zenon DEF ClientsFollowSockets, SocketsOpen
  <2> QED BY <1>3, <1>5, <2>1, SMTT(30), SMTT(60) DEF SocketsOpen
<1>7. \A f \in DOMAIN fdToClientId :
        /\ f \in DOMAIN socket
        /\ fdToClientId[f] \in Nat /\ fdToClientId[f] < nextClientId
        /\ fdToClientId[f] \in DOMAIN clientToSocket
        /\ clientToSocket[fdToClientId[f]] = socket[f]
  BY <1>1, Zenon DEF ClientsFollowSockets
<1>8. /\ \A f \in DOMAIN socket : socket[f] \in accepted \cap Sessions
      /\ \A f, g \in DOMAIN socket : socket[f] = socket[g] => f = g
      /\ ready \subseteq DOMAIN socket
  BY <1>1, Zenon DEF ClientsFollowSockets
<1>9. \A f \in DOMAIN fdToClientId' :
        /\ f \in DOMAIN socket'
        /\ fdToClientId'[f] \in Nat /\ fdToClientId'[f] < nextClientId
        /\ fdToClientId'[f] \in DOMAIN clientToSocket'
        /\ clientToSocket'[fdToClientId'[f]] = socket'[f]
  BY <1>3, <1>5, <1>7, <1>8, SMTT(30), SMTT(60)
<1>10. /\ ready' \subseteq DOMAIN socket'
       /\ \A f \in DOMAIN socket' : socket'[f] \in accepted \cap Sessions
       /\ \A f, g \in DOMAIN socket' : socket'[f] = socket'[g] => f = g
  BY <1>2, <1>3, <1>8
<1>11. ClientsFollowSockets'
  BY <1>2, <1>4, <1>6, <1>9, <1>10, Zenon DEF ClientsFollowSockets
<1>12. \A c, s : RegisteredAs(c, s) => RegisteredAs(c, s)'
  BY <1>4, <1>5, Zenon DEF RegisteredAs
<1>13. pc' = "receive" /\ nextClientId' \in Nat
  BY <1>1, <1>2, <1>4, Zenon
<1>14. ReadingRegistered' /\ pc' # "overflow"
  BY <1>13 DEF ReadingRegistered
<1> QED BY <1>2, <1>11, <1>12, <1>13, <1>14, ClientSteps, Zenon

(* Registering a token, or none, leaves the others as they are.            *)
LEMMA TokensGrow ==
  ASSUME GInv, pc = "decode", NEW m \in Message, NEW req, RegisterTokens(m, req)
  PROVE  /\ id_to_token' \in Seq(TokenInfo)
         /\ \A i \in DOMAIN id_to_token :
              i \in DOMAIN id_to_token' /\ id_to_token'[i] = id_to_token[i]
         /\ \A i \in DOMAIN id_to_token' :
              \/ i \in DOMAIN id_to_token
              \/ /\ id_to_token'[i].clientId = reading.client
                 /\ id_to_token'[i].session = reading.session
         /\ \A k \in DOMAIN token_to_id' :
              \/ k \in DOMAIN token_to_id /\ token_to_id'[k] = token_to_id[k]
              \/ /\ k[1] = reading.client
                 /\ token_to_id'[k] \in DOMAIN id_to_token'
                 /\ token_to_id'[k] \notin DOMAIN id_to_token
         /\ req # nil /\ m.action # "CANCEL" =>
              /\ Len(id_to_token) + 1 \in DOMAIN id_to_token'
              /\ Len(id_to_token) + 1 \notin DOMAIN id_to_token
<1> DEFINE token == IF m.action = "NEW" THEN m.token ELSE m.replacement
           info == [token |-> token, clientId |-> reading.client,
                    session |-> reading.session]
           next == Len(id_to_token) + 1
<1>1. id_to_token \in Seq(TokenInfo)
  BY Zenon DEF GInv, TypeOK
<1>2. reading.session \in Sessions /\ reading.client \in Nat
  BY DEF GInv, ReadingRegistered, RegisteredAs
<1>3. CASE req = nil \/ m.action = "CANCEL"
  <2>1. UNCHANGED <<id_to_token, token_to_id>>
    BY <1>3, Zenon DEF RegisterTokens, tokenVars
  <2> QED BY <1>1, <1>3, <2>1, Zenon
<1>4. CASE ~(req = nil \/ m.action = "CANCEL")
  <2>1. /\ id_to_token' = Append(id_to_token, info)
        /\ token_to_id' = Assign(token_to_id, <<reading.client, token>>, next)
    BY <1>4, Zenon DEF RegisterTokens, registerNewToken
  <2>2. token \in Tokens
    BY <1>4, SMTT(30), SMTT(60) DEF Message
  <2>3. info \in TokenInfo /\ info.clientId = reading.client
        /\ info.session = reading.session
    BY <1>2, <2>2, SMTT(30), SMTT(60) DEF TokenInfo
  <2> HIDE DEF info, token
  <2>4. /\ id_to_token' \in Seq(TokenInfo)
        /\ next \in DOMAIN id_to_token' /\ next \notin DOMAIN id_to_token
        /\ id_to_token'[next] = info
        /\ \A i \in DOMAIN id_to_token :
             i \in DOMAIN id_to_token' /\ id_to_token'[i] = id_to_token[i]
        /\ \A i \in DOMAIN id_to_token' : i \in DOMAIN id_to_token \/ i = next
    BY <1>1, <2>1, <2>3, SMTT(30), SMTT(60)
  <2> HIDE DEF next
  <2>5. \A k \in DOMAIN token_to_id' :
          \/ k \in DOMAIN token_to_id /\ token_to_id'[k] = token_to_id[k]
          \/ k = <<reading.client, token>> /\ token_to_id'[k] = next
    BY <2>1 DEF Assign
  <2>6. \A k : k = <<reading.client, token>> => k[1] = reading.client
    OBVIOUS
  <2> QED BY <2>3, <2>4, <2>5, <2>6, Zenon DEF next
<1> QED BY <1>3, <1>4, Zenon

(* The request decodeOuch makes names an order of its client, the one just *)
(* entered or the one its token stands for.                                *)
LEMMA DecodeOwned ==
  ASSUME GInv, pc = "decode", NEW m \in Message, decodeOuch(m) # nil,
         RegisterTokens(m, decodeOuch(m))
  PROVE  decodeOuch(m) \in Owned'
<1> DEFINE req == decodeOuch(m)
           c == reading.client
           next == Len(id_to_token) + 1
           id == IF m.action = "NEW" THEN next ELSE getID(c, m.token)
<1>1. /\ id # 0
      /\ req = [action |-> m.action, named |-> m.token, id |-> id,
                newId |-> IF m.action = "MODIFY" THEN next ELSE 0,
                client |-> c, time |-> reading.time,
                session |-> reading.session, round |-> round,
                n |-> received + 1]
  BY Zenon DEF decodeOuch
<1>2. /\ reading.session \in Sessions /\ reading.time \in Nat /\ c \in Nat
  BY DEF GInv, ReadingRegistered, RegisteredAs
<1>3. id_to_token \in Seq(TokenInfo) /\ round \in Nat /\ received \in Nat
  BY Zenon DEF GInv, TypeOK
<1>4. next \in Nat /\ DOMAIN id_to_token \subseteq Nat
  BY <1>3
<1>5. m.action \in {"NEW", "CANCEL", "MODIFY"} /\ m.token \in Tokens
  BY DEF Message
<1>6. id \in Nat /\ id \in DOMAIN id_to_token' /\ id_to_token'[id].clientId = c
  <2>1. CASE m.action = "NEW"
    <3>1. next \in DOMAIN id_to_token' /\ next \notin DOMAIN id_to_token
      BY <2>1, TokensGrow
    <3>2. id_to_token'[next].clientId = c
      BY <3>1, TokensGrow, Zenon
    <3> QED BY <1>4, <2>1, <3>1, <3>2, Zenon
  <2>2. CASE m.action # "NEW"
    <3>1. <<c, m.token>> \in DOMAIN token_to_id /\ id = token_to_id[<<c, m.token>>]
      BY <1>1, <2>2, Zenon DEF getID
    <3>2. \A k \in DOMAIN token_to_id : OrderOf(k[1], token_to_id[k])
      BY Zenon DEF GInv, TokensOwned
    <3>3. OrderOf(c, id)
      <4>1. <<c, m.token>>[1] = c
        OBVIOUS
      <4> HIDE DEF c, id
      <4> QED BY <3>1, <3>2, <4>1, Zenon
    <3>4. id \in DOMAIN id_to_token /\ id_to_token[id].clientId = c
      BY <3>3, Zenon DEF OrderOf
    <3>5. id \in DOMAIN id_to_token' /\ id_to_token'[id] = id_to_token[id]
      BY <3>4, TokensGrow, Zenon
    <3> QED BY <1>4, <3>4, <3>5, Zenon
  <2> QED BY <2>1, <2>2, Zenon
<1> HIDE DEF id
<1>7. /\ req.client = c /\ req.id = id /\ req.action = m.action
      /\ m.action = "MODIFY" => req.newId = next
  BY <1>1, SMTT(30), SMTT(60)
<1>8. req \in Request
  BY <1>1, <1>2, <1>3, <1>4, <1>5, <1>6, SMTT(30), SMTT(60) DEF Request
<1>9. m.action = "MODIFY" =>
        next \in DOMAIN id_to_token' /\ id_to_token'[next].clientId = c
  <2>1. SUFFICES ASSUME m.action = "MODIFY"
                 PROVE  next \in DOMAIN id_to_token' /\ id_to_token'[next].clientId = c
    OBVIOUS
  <2>2. m.action # "CANCEL"
    BY <2>1
  <2>3. next \in DOMAIN id_to_token' /\ next \notin DOMAIN id_to_token
    BY <2>2, TokensGrow
  <2> QED BY <2>3, TokensGrow, Zenon
<1> HIDE DEF req, next
<1>10. req \in Owned'
  BY <1>6, <1>7, <1>8, <1>9 DEF Owned, OrderOf
<1> QED BY <1>10, Zenon DEF req

(* An iteration of onRecv's loop.                                          *)
LEMMA DecodeKeeps ==
  ASSUME GInv, NEW m \in Message, DecodeMessage(m)
  PROVE  GInv'
<1> DEFINE req == decodeOuch(m)
<1>1. /\ pc = "decode"
      /\ RegisterTokens(m, req)
      /\ received' = IF req = nil THEN received ELSE received + 1
      /\ \/ UNCHANGED <<pc, pending_orders>>
         \/ /\ req # nil /\ pc' = pc
            /\ pending_orders' = Append(pending_orders, req)
         \/ /\ req # nil /\ pc' = "overflow" /\ held' = req
            /\ UNCHANGED pending_orders
      /\ UNCHANGED <<ready, reading, socketVars, clientVars, queueVars, sent, round>>
  BY Zenon DEF DecodeMessage, addToPending
<1>2. req # nil => req \in Owned'
  BY <1>1, DecodeOwned, Zenon
<1> HIDE DEF req
<1>3. /\ id_to_token' \in Seq(TokenInfo)
      /\ \A i \in DOMAIN id_to_token :
           i \in DOMAIN id_to_token' /\ id_to_token'[i] = id_to_token[i]
  BY <1>1, TokensGrow, Zenon
<1>4. Owned \subseteq Owned' /\ Answer \subseteq Answer'
  <2>1. \A c, i : OrderOf(c, i) => OrderOf(c, i)'
    BY <1>3, Zenon DEF OrderOf
  <2>2. Owned \subseteq Owned'
    BY <2>1 DEF Owned
  <2>3. Answer \subseteq Answer'
    BY <2>1 DEF Answer
  <2> QED BY <2>2, <2>3, Zenon
<1>5. /\ pending_orders \in Seq(Owned') /\ requestQ \in Seq(Owned')
      /\ taken \in Seq(Owned') /\ responseQ \in Seq(Answer')
  <2>1. /\ pending_orders \in Seq(Owned) /\ requestQ \in Seq(Owned)
        /\ taken \in Seq(Owned) /\ responseQ \in Seq(Answer)
    BY Zenon DEF GInv, RequestsOwned
  <2> QED BY <1>4, <2>1, SeqWidens
<1>6. pending_orders' \in Seq(Owned')
  <2>1. CASE UNCHANGED pending_orders
    BY <1>5, <2>1
  <2>2. CASE req # nil /\ pending_orders' = Append(pending_orders, req)
    BY <1>2, <1>5, <2>2
  <2> QED BY <1>1, <2>1, <2>2, Zenon
<1>7. pc' = "overflow" => held' \in Owned'
  BY <1>1, <1>2
<1>8. RequestsOwned'
  <2>1. UNCHANGED <<requestQ, taken, responseQ>>
    BY <1>1, Zenon DEF queueVars
  <2> QED BY <1>5, <1>6, <1>7, <2>1 DEF RequestsOwned
<1>9. UNCHANGED <<socket, accepted, fdToClientId, clientToSocket, nextClientId>>
  BY <1>1, Zenon DEF socketVars, clientVars
<1>10. ClientsFollowSockets'
  BY <1>1, <1>9, ZenonT(60) DEF GInv, ClientsFollowSockets, SocketsOpen
<1>11. ReadingRegistered'
  BY <1>1, <1>9, SMTT(30), SMTT(60) DEF GInv, ReadingRegistered, RegisteredAs
<1>12. TypeOK'
  <2>1. nextClientId \in Nat /\ round \in Nat /\ received \in Nat
    BY Zenon DEF GInv, TypeOK
  <2>2. received' \in Nat
    BY <1>1, <2>1
  <2> QED BY <1>1, <1>3, <1>9, <2>1, <2>2, Zenon DEF TypeOK
<1>13. TokensOwned'
  <2>1. \A c, s : RegisteredAs(c, s) => RegisteredAs(c, s)'
    BY <1>9, Zenon DEF RegisteredAs
  <2>2. RegisteredAs(reading.client, reading.session)
    BY <1>1 DEF GInv, ReadingRegistered
  <2>3. /\ \A i \in DOMAIN id_to_token' :
             \/ i \in DOMAIN id_to_token
             \/ /\ id_to_token'[i].clientId = reading.client
                /\ id_to_token'[i].session = reading.session
        /\ \A k \in DOMAIN token_to_id' :
             \/ k \in DOMAIN token_to_id /\ token_to_id'[k] = token_to_id[k]
             \/ /\ k[1] = reading.client
                /\ token_to_id'[k] \in DOMAIN id_to_token'
                /\ token_to_id'[k] \notin DOMAIN id_to_token
    BY <1>1, TokensGrow, Zenon
  <2>4. TokensOwned
    BY Zenon DEF GInv
  <2>5. \A i \in DOMAIN id_to_token' :
          RegisteredAs(id_to_token'[i].clientId, id_to_token'[i].session)
    BY <1>3, <2>2, <2>3, <2>4, Zenon DEF TokensOwned
  <2>6. \A k \in DOMAIN token_to_id' : /\ token_to_id'[k] \in DOMAIN id_to_token'
                                       /\ id_to_token'[token_to_id'[k]].clientId = k[1]
    <3>1. \A k \in DOMAIN token_to_id :
            /\ token_to_id[k] \in DOMAIN id_to_token
            /\ id_to_token[token_to_id[k]].clientId = k[1]
      BY <2>4, Zenon DEF TokensOwned, OrderOf
    <3> QED BY <1>3, <2>3, <3>1, SMTT(30), SMTT(60)
  <2> QED BY <1>9, <2>5, <2>6, Zenon DEF TokensOwned, OrderOf, RegisteredAs
<1>14. SentToOwner'
  <2>1. sent' = sent
    BY <1>1, Zenon
  <2>2. sent # nil => sent[2] \in DOMAIN id_to_token
                      /\ id_to_token[sent[2]].session = sent[1]
    BY Zenon DEF GInv, SentToOwner, ResponsesReachOwner
  <2> QED BY <1>3, <2>1, <2>2, Zenon DEF SentToOwner, ResponsesReachOwner
<1> QED BY <1>8, <1>10, <1>11, <1>12, <1>13, <1>14, Zenon DEF GInv

(* Every reachable state of the gateway satisfies the invariant.           *)
LEMMA GatewayInvariant == Spec => []GInv
<1>1. Init => GInv
  <2> SUFFICES ASSUME Init PROVE GInv
    OBVIOUS
  <2>1. TypeOK /\ RequestsOwned
    BY DEF Init, TypeOK, RequestsOwned
  <2>2. ClientsFollowSockets
    BY DEF Init, ClientsFollowSockets, SocketsOpen, EmptyMap
  <2>3. TokensOwned /\ ReadingRegistered /\ SentToOwner
    BY DEF Init, TokensOwned, ReadingRegistered, SentToOwner, EmptyMap, nil
  <2> QED BY <2>1, <2>2, <2>3, Zenon DEF GInv
<1>2. GInv /\ [Next]_vars => GInv'
  BY QueueSteps, AcceptKeeps, BeginRecvKeeps, DecodeKeeps, DisconnectKeeps, Zenon
  DEF Next, Gateway, EngineAnswers
<1> QED BY <1>1, <1>2, PTL DEF Spec

(* drainResponses sends a response to the session that entered the order   *)
(* or to nobody, whatever number of clients come, go and inherit           *)
(* descriptors while responses and fills of their orders are on the way.   *)
THEOREM ResponsesToOwners == Spec => []ResponsesReachOwner
<1>1. GInv => ResponsesReachOwner
  BY ZenonT(60) DEF GInv, SentToOwner, ResponsesReachOwner
<1> QED BY <1>1, GatewayInvariant, PTL

(* registerClient and onDisconnect keep clientToSocket_ free of pointers   *)
(* to closed sockets, and the two client maps in agreement.                *)
THEOREM NoStaleSockets == Spec => []SocketsOpen
<1>1. GInv => SocketsOpen
  BY ZenonT(60) DEF GInv, ClientsFollowSockets
<1> QED BY <1>1, GatewayInvariant, PTL

-----------------------------------------------------------------------------
(* The sequencer and the tokens.                                           *)

(* The inductive invariants, relative to GInv: what the gateway's sequencer*)
(* and its tokens keep to, with the properties themselves.                 *)
SequencerInv == SequencerSupport /\ NothingLost /\ RoundSorted /\ ClientFifo

TokenInv == TokenSupport /\ TokensResolve

-----------------------------------------------------------------------------
(* Sequences.                                                              *)

(* What a concatenation holds.                                             *)
LEMMA ConcatHolds ==
  ASSUME NEW R, NEW s \in Seq(R), NEW t \in Seq(R)
  PROVE  /\ s \o t \in Seq(R)
         /\ Len(s \o t) = Len(s) + Len(t)
         /\ Range(s \o t) = Range(s) \cup Range(t)
<1>1. /\ s \o t \in Seq(R) /\ Len(s \o t) = Len(s) + Len(t)
      /\ Len(s) \in Nat /\ Len(t) \in Nat
      /\ DOMAIN s = 1 .. Len(s) /\ DOMAIN t = 1 .. Len(t)
      /\ DOMAIN (s \o t) = 1 .. (Len(s) + Len(t))
  OBVIOUS
<1>2. \A i \in 1 .. Len(s) : (s \o t)[i] = s[i]
  OBVIOUS
<1>3. \A i \in 1 .. Len(t) : (s \o t)[Len(s) + i] = t[i]
  OBVIOUS
<1>4. ASSUME NEW i \in 1 .. (Len(s) + Len(t))
      PROVE  (s \o t)[i] \in Range(s) \cup Range(t)
  <2>1. CASE i <= Len(s)
    BY <1>1, <1>2, <2>1 DEF Range
  <2>2. CASE i > Len(s)
    <3>1. i - Len(s) \in 1 .. Len(t) /\ Len(s) + (i - Len(s)) = i
      BY <1>1, <2>2
    <3>2. (s \o t)[i] = t[i - Len(s)]
      BY <1>3, <3>1, Zenon
    <3> QED BY <1>1, <3>1, <3>2, Zenon DEF Range
  <2> QED BY <1>1, <2>1, <2>2, SMTT(30), SMTT(60)
<1>5. ASSUME NEW i \in 1 .. Len(s) PROVE s[i] \in Range(s \o t)
  <2>1. i \in 1 .. (Len(s) + Len(t))
    BY <1>1
  <2> QED BY <1>1, <1>2, <2>1, Zenon DEF Range
<1>6. ASSUME NEW i \in 1 .. Len(t) PROVE t[i] \in Range(s \o t)
  <2>1. Len(s) + i \in 1 .. (Len(s) + Len(t))
    BY <1>1
  <2> QED BY <1>1, <1>3, <2>1, Zenon DEF Range
<1> QED BY <1>1, <1>4, <1>5, <1>6, Zenon DEF Range

(* What a longer sequence holds.                                           *)
LEMMA AppendHolds ==
  ASSUME NEW R, NEW s \in Seq(R), NEW e \in R
  PROVE  /\ Append(s, e) \in Seq(R)
         /\ Len(Append(s, e)) = Len(s) + 1
         /\ Range(Append(s, e)) = Range(s) \cup {e}
         /\ \A i \in DOMAIN s : Append(s, e)[i] = s[i]
         /\ Append(s, e)[Len(s) + 1] = e
         /\ DOMAIN s = 1 .. Len(s) /\ Len(s) \in Nat
         /\ DOMAIN Append(s, e) = 1 .. (Len(s) + 1)
<1>1. /\ Append(s, e) \in Seq(R)
      /\ Len(Append(s, e)) = Len(s) + 1
      /\ \A i \in DOMAIN s : Append(s, e)[i] = s[i]
      /\ Append(s, e)[Len(s) + 1] = e
      /\ DOMAIN s = 1 .. Len(s) /\ Len(s) \in Nat
      /\ DOMAIN Append(s, e) = 1 .. (Len(s) + 1)
  OBVIOUS
<1>2. \A i \in 1 .. (Len(s) + 1) : i \in DOMAIN s \/ i = Len(s) + 1
  BY <1>1
<1>3. \A i \in DOMAIN s : i \in 1 .. (Len(s) + 1)
  BY <1>1
<1>4. Len(s) + 1 \in 1 .. (Len(s) + 1)
  BY <1>1
<1> QED BY <1>1, <1>2, <1>3, <1>4, Zenon DEF Range

(* Taking the first of a sequence over to the end of the one before it     *)
(* changes nothing of the two together.                                    *)
LEMMA HeadMovesOver ==
  ASSUME NEW R, NEW s \in Seq(R), NEW t \in Seq(R), t # <<>>
  PROVE  Append(s, Head(t)) \o Tail(t) = s \o t
BY SMTT(30), SMTT(60)

(* Concatenation and the end of a sequence.                                *)
LEMMA ConcatEnds ==
  ASSUME NEW R, NEW s \in Seq(R), NEW t \in Seq(R), NEW e \in R
  PROVE  /\ s \o Append(t, e) = Append(s \o t, e)
         /\ s \o <<e>> = Append(s, e)
         /\ s \o <<>> = s
OBVIOUS

-----------------------------------------------------------------------------
(* Where the requests are.                                                 *)

HeldSeq == IF held = nil THEN <<>> ELSE <<held>>

(* The places of a request, as sequences of requests.                      *)
LEMMA Places ==
  ASSUME GInv, HeldInOverflow
  PROVE  /\ taken \in Seq(Request) /\ requestQ \in Seq(Request)
         /\ pending_orders \in Seq(Request) /\ HeldSeq \in Seq(Request)
         /\ Entered \in Seq(Request) /\ Entered \o pending_orders \in Seq(Request)
         /\ Decoded \in Seq(Request) /\ Decoded = (Entered \o pending_orders) \o HeldSeq
         /\ Seen \subseteq Request
         /\ Seen = Past \cup Waiting
<1>1. /\ taken \in Seq(Request) /\ requestQ \in Seq(Request)
      /\ pending_orders \in Seq(Request)
  BY Carried, Zenon
<1>2. /\ HeldSeq \in Seq(Request)
      /\ Range(HeldSeq) = IF held = nil THEN {} ELSE {held}
  <2>1. CASE held = nil
    BY <2>1 DEF HeldSeq, Range
  <2>2. CASE held # nil
    <3>1. held \in Request
      BY <2>2, Zenon DEF HeldInOverflow, GInv, RequestsOwned, Owned
    <3> QED BY <2>2, <3>1 DEF HeldSeq, Range
  <2> QED BY <2>1, <2>2, Zenon
<1>3. Entered \in Seq(Request)
  BY <1>1, ConcatHolds, Zenon DEF Entered
<1>4. /\ Entered \o pending_orders \in Seq(Request)
      /\ Range(Entered \o pending_orders) = Range(Entered) \cup Range(pending_orders)
  BY <1>1, <1>3, ConcatHolds
<1>5. Decoded = (Entered \o pending_orders) \o HeldSeq
  BY Zenon DEF Decoded, HeldSeq
<1>6. /\ Decoded \in Seq(Request)
      /\ Range(Decoded) = Range(Entered \o pending_orders) \cup Range(HeldSeq)
  <2> DEFINE a == Entered \o pending_orders
             h == HeldSeq
  <2>1. a \in Seq(Request) /\ h \in Seq(Request) /\ Decoded = a \o h
    BY <1>2, <1>4, <1>5, Zenon
  <2> HIDE DEF a, h
  <2>2. Decoded \in Seq(Request) /\ Range(Decoded) = Range(a) \cup Range(h)
    BY <2>1, ConcatHolds
  <2> QED BY <2>2, Zenon DEF a, h
<1>7. Seen \subseteq Request
  <2>1. \A i \in DOMAIN Decoded : Decoded[i] \in Request
    BY <1>6
  <2> QED BY <2>1, Zenon DEF Seen, Range
<1>8. Seen = Past \cup Waiting
  BY <1>2, <1>4, <1>6, Zenon DEF Seen, Past, Waiting
<1> QED BY <1>1, <1>2, <1>3, <1>4, <1>5, <1>6, <1>7, <1>8, Zenon

(* What has entered requestQ, what waits and how many there are, stays.    *)
PlacesKept ==
  /\ Entered' = Entered /\ UNCHANGED <<pending_orders, held>>

(* A step that moves no request, or lets the engine take one, keeps what   *)
(* was decoded.                                                            *)
LEMMA KeptPlaces ==
  ASSUME PlacesKept
  PROVE  Decoded' = Decoded /\ Seen' = Seen /\ Past' = Past /\ Waiting' = Waiting
<1>1. Decoded' = Decoded /\ Waiting' = Waiting
  BY Zenon DEF PlacesKept, Decoded, Waiting
<1> QED BY <1>1, Zenon DEF PlacesKept, Seen, Past

(* What is taken by the engine was at the head of requestQ.                *)
LEMMA TakingKeepsPlaces ==
  ASSUME GInv, EngineTakes PROVE PlacesKept
<1>1. taken \in Seq(Request) /\ requestQ \in Seq(Request) /\ requestQ # <<>>
  BY Carried, Zenon DEF EngineTakes
<1>2. Entered' = Append(taken, Head(requestQ)) \o Tail(requestQ)
  BY Zenon DEF Entered, EngineTakes
<1>3. Entered' = Entered
  BY <1>1, <1>2, HeadMovesOver, Zenon DEF Entered
<1> QED BY <1>3, Zenon DEF PlacesKept, EngineTakes, fifoVars

(* publishPendingOrders pushes the first of pending_orders_.               *)
LEMMA PushMoves ==
  ASSUME GInv, HeldInOverflow, PushPending
  PROVE  /\ Entered' = Append(Entered, Head(pending_orders))
         /\ Past' = Past \cup {Head(pending_orders)}
         /\ Decoded' = Decoded /\ Seen' = Seen
         /\ Waiting' \subseteq Waiting
         /\ Head(pending_orders) \in Waiting
<1> DEFINE h == Head(pending_orders)
<1>1. /\ pending_orders # <<>> /\ requestQ' = Append(requestQ, h)
      /\ pending_orders' = Tail(pending_orders) /\ UNCHANGED <<taken, held>>
  BY Zenon DEF PushPending
<1>2. h \in Request
  BY <1>1, Places
<1>3. Entered' = Append(Entered, h)
  BY <1>1, <1>2, Places, ConcatEnds, SMTT(30), SMTT(60) DEF Entered
<1>4. Entered' \o pending_orders' = Entered \o pending_orders
  BY <1>1, <1>3, Places, HeadMovesOver, Zenon
<1>5. Decoded' = Decoded
  BY <1>1, <1>4, Zenon DEF Decoded
<1>6. Past' = Past \cup {h}
  BY <1>2, <1>3, Places, AppendHolds, SMTT(30), SMTT(60) DEF Past
<1>7. Range(pending_orders') \subseteq Range(pending_orders) /\ h \in Range(pending_orders)
  <2>1. /\ \A i \in DOMAIN pending_orders' : i + 1 \in DOMAIN pending_orders
             /\ pending_orders'[i] = pending_orders[i + 1]
        /\ 1 \in DOMAIN pending_orders /\ h = pending_orders[1]
    BY <1>1, Places, SMTT(30), SMTT(60)
  <2> QED BY <2>1 DEF Range
<1>8. Waiting' \subseteq Waiting /\ h \in Waiting
  BY <1>1, <1>7, Zenon DEF Waiting
<1> QED BY <1>3, <1>5, <1>6, <1>8, Zenon DEF Seen

(* The held request goes to the end of pending_orders_, where it was in    *)
(* the order of the requests anyway.                                       *)
LEMMA AddHeldMoves ==
  ASSUME GInv, HeldInOverflow, AddHeld
  PROVE  /\ Entered' = Entered /\ Past' = Past
         /\ Decoded' = Decoded /\ Seen' = Seen /\ Waiting' = Waiting
         /\ held # nil /\ held \in Request /\ held' = nil
         /\ pending_orders' = Append(pending_orders, held)
<1>1. /\ pc = "overflow" /\ held' = nil
      /\ pending_orders' = Append(pending_orders, held)
      /\ UNCHANGED <<taken, requestQ>>
  BY Zenon DEF AddHeld, addToPending, queueVars
<1>2. held # nil /\ held \in Request
  BY <1>1, Zenon DEF HeldInOverflow, GInv, RequestsOwned, Owned
<1>3. Entered' = Entered
  BY <1>1, Zenon DEF Entered
<1>4. Decoded = Append(Entered \o pending_orders, held)
  <2>1. Decoded = (Entered \o pending_orders) \o <<held>>
    BY <1>2, Places, Zenon DEF HeldSeq
  <2> DEFINE a == Entered \o pending_orders
  <2>2. a \in Seq(Request) /\ Decoded = a \o <<held>>
    BY <2>1, Places, Zenon
  <2> HIDE DEF a
  <2>3. Decoded = Append(a, held)
    BY <1>2, <2>2, ConcatEnds, Zenon
  <2> QED BY <2>3, Zenon DEF a
<1>5. Decoded' = Entered \o Append(pending_orders, held)
  <2> DEFINE a == Entered \o Append(pending_orders, held)
  <2>1. a \in Seq(Request)
    BY <1>2, Places, AppendHolds, ConcatHolds, Zenon
  <2>2. Decoded' = a \o <<>>
    BY <1>1, <1>3, Zenon DEF Decoded
  <2> HIDE DEF a
  <2>3. Decoded' = a
    BY <1>2, <2>1, <2>2, ConcatEnds, Zenon
  <2> QED BY <2>3, Zenon DEF a
<1>6. Decoded' = Decoded
  BY <1>2, <1>4, <1>5, Places, ConcatEnds, SMTT(30), SMTT(60)
<1>7. Waiting' = Waiting
  <2>1. Range(pending_orders') = Range(pending_orders) \cup {held}
    BY <1>1, <1>2, Places, AppendHolds
  <2> QED BY <1>1, <1>2, <2>1, Zenon DEF Waiting
<1> QED BY <1>1, <1>2, <1>3, <1>6, <1>7, Zenon DEF Seen, Past

(* std::sort rearranges pending_orders_ and nothing else.                  *)
LEMMA SortMoves ==
  ASSUME GInv, HeldInOverflow, SortPending
  PROVE  /\ Entered' = Entered /\ Past' = Past
         /\ Len(Decoded') = Len(Decoded) /\ Seen' = Seen /\ Waiting' = Waiting
         /\ \E f \in Bijection(DOMAIN pending_orders, DOMAIN pending_orders) :
              /\ SortedBy(pending_orders, f)
              /\ pending_orders' = [i \in DOMAIN pending_orders |-> pending_orders[f[i]]]
<1> DEFINE p == pending_orders
           q == pending_orders'
<1>1. q \in Sorts(p) /\ UNCHANGED <<held, taken, requestQ>>
  BY Zenon DEF SortPending, queueVars
<1>2. PICK f \in Bijection(DOMAIN p, DOMAIN p) :
        SortedBy(p, f) /\ q = [i \in DOMAIN p |-> p[f[i]]]
  BY <1>1, Zenon DEF Sorts
<1>3. /\ f \in [DOMAIN p -> DOMAIN p]
      /\ \A j \in DOMAIN p : \E i \in DOMAIN p : f[i] = j
  BY Zenon DEF Bijection, Injection, Surjection
<1>4. DOMAIN q = DOMAIN p /\ Range(q) = Range(p)
  BY <1>2, <1>3, Zenon DEF Range
<1>5. p \in Seq(Request) /\ DOMAIN p = 1 .. Len(p) /\ Len(p) \in Nat
  BY Places
<1>6. q \in Seq(Request) /\ Len(q) = Len(p)
  <2>1. q \in [1 .. Len(p) -> Request]
    BY <1>2, <1>3, <1>5, SMTT(30), SMTT(60)
  <2> QED BY <1>5, <2>1
<1>7. Entered' = Entered /\ Waiting' = Waiting
  BY <1>1, <1>4, Zenon DEF Entered, Waiting
<1>8. Len(Decoded') = Len(Decoded) /\ Range(Decoded') = Range(Decoded)
  <2> DEFINE a == Entered \o p
             b == Entered \o q
             h == HeldSeq
  <2>1. /\ a \in Seq(Request) /\ Len(a) = Len(Entered) + Len(p)
        /\ Range(a) = Range(Entered) \cup Range(p)
    <3>1. Entered \in Seq(Request)
      BY Places, Zenon
    <3> QED BY <1>5, <3>1, ConcatHolds
  <2>2. /\ b \in Seq(Request) /\ Len(b) = Len(Entered) + Len(q)
        /\ Range(b) = Range(Entered) \cup Range(q)
    <3>1. Entered \in Seq(Request)
      BY Places, Zenon
    <3> HIDE DEF q
    <3> QED BY <1>6, <3>1, ConcatHolds
  <2>3. Len(a) = Len(b) /\ Range(a) = Range(b)
    BY <1>4, <1>6, <2>1, <2>2, Zenon
  <2>4. Decoded = a \o h /\ Decoded' = b \o h /\ h \in Seq(Request)
    <3>1. h \in Seq(Request) /\ Decoded = a \o h
      BY Places, Zenon
    <3>2. Decoded' = b \o h
      BY <1>1, <1>7, Zenon DEF Decoded, HeldSeq
    <3> QED BY <3>1, <3>2, Zenon
  <2> HIDE DEF a, b, h
  <2>5. Len(a \o h) = Len(a) + Len(h) /\ Range(a \o h) = Range(a) \cup Range(h)
    <3>1. a \in Seq(Request) /\ h \in Seq(Request)
      BY <2>1, <2>4, Zenon
    <3> QED BY ONLY <3>1, ConcatHolds
  <2>6. Len(b \o h) = Len(b) + Len(h) /\ Range(b \o h) = Range(b) \cup Range(h)
    <3>1. b \in Seq(Request) /\ h \in Seq(Request)
      BY <2>2, <2>4, Zenon
    <3> QED BY ONLY <3>1, ConcatHolds
  <2> QED BY <2>3, <2>4, <2>5, <2>6, Zenon
<1> QED BY <1>2, <1>7, <1>8, Zenon DEF Seen, Past

(* A decoded request joins the others at the end.                          *)
LEMMA DecodeMoves ==
  ASSUME GInv, HeldInOverflow, NEW m \in Message, DecodeMessage(m),
         NEW req \in Request, req = decodeOuch(m), req # nil
  PROVE  /\ Entered' = Entered /\ Past' = Past
         /\ Decoded' = Append(Decoded, req)
         /\ Seen' = Seen \cup {req} /\ Waiting' = Waiting \cup {req}
         /\ received' = received + 1
         /\ \/ /\ pc' = "decode" /\ held' = nil /\ pending_sorted' = FALSE
               /\ pending_orders' = Append(pending_orders, req)
            \/ /\ pc' = "overflow" /\ held' = req
               /\ UNCHANGED <<pending_orders, pending_sorted>>
<1>1. /\ pc = "decode" /\ received' = received + 1 /\ UNCHANGED <<taken, requestQ>>
      /\ \/ /\ UNCHANGED <<pc, held>> /\ pending_sorted' = FALSE
            /\ pending_orders' = Append(pending_orders, req)
         \/ /\ pc' = "overflow" /\ held' = req
            /\ UNCHANGED <<pending_orders, pending_sorted>>
  BY Zenon DEF DecodeMessage, addToPending, queueVars
<1>2. held = nil
  BY <1>1, Zenon DEF HeldInOverflow
<1>3. Entered' = Entered
  BY <1>1, Zenon DEF Entered
<1> DEFINE a == Entered \o pending_orders
<1>4. a \in Seq(Request)
  BY Places, Zenon
<1>5. Decoded = a
  <2>1. Decoded = a \o <<>>
    BY <1>2, Places, Zenon DEF HeldSeq
  <2> HIDE DEF a
  <2> QED BY <1>4, <2>1, ConcatEnds, Zenon
<1>6. Decoded' = Append(a, req)
  <2>1. CASE held' = nil /\ pending_orders' = Append(pending_orders, req)
    <3>1. Entered \o Append(pending_orders, req) = Append(a, req)
      BY Places, ConcatEnds, SMTT(30), SMTT(60)
    <3>2. Decoded' = Append(a, req) \o <<>>
      BY <1>3, <2>1, <3>1, Zenon DEF Decoded
    <3> HIDE DEF a
    <3>3. Append(a, req) \in Seq(Request)
      BY <1>4
    <3> QED BY <3>2, <3>3, ConcatEnds, Zenon
  <2>2. CASE held' = req /\ pending_orders' = pending_orders
    <3>1. Decoded' = a \o <<req>>
      BY <1>3, <2>2, Zenon DEF Decoded
    <3> HIDE DEF a
    <3> QED BY <1>4, <3>1, ConcatEnds, Zenon
  <2> QED BY <1>1, <1>2, <2>1, <2>2, Zenon
<1> HIDE DEF a
<1>7. Seen' = Seen \cup {req}
  BY <1>4, <1>5, <1>6, AppendHolds DEF Seen
<1>8. Waiting' = Waiting \cup {req}
  <2>1. Range(Append(pending_orders, req)) = Range(pending_orders) \cup {req}
    BY Places, AppendHolds
  <2> QED BY <1>1, <1>2, <2>1, ZenonT(60) DEF Waiting
<1> QED BY <1>1, <1>2, <1>3, <1>5, <1>6, <1>7, <1>8, Zenon DEF Past

-----------------------------------------------------------------------------
(* Order.                                                                  *)

(* MayPrecede, where the sort has been unstable and rounds have overflowed *)
(* as given.                                                               *)
Precedes(x, y, u, o) ==
  /\ x.session = y.session /\ x.n > y.n => u /\ x.time = y.time
  /\ x.round = y.round /\ x.time > y.time => x.round \in o

(* A sequence in which every request may precede the later ones.           *)
InOrder(s, u, o) == \A i, j \in DOMAIN s : i < j => Precedes(s[i], s[j], u, o)

(* RoundSorted and ClientFifo say this of what has entered requestQ.       *)
LEMMA EnteredInOrder ==
  /\ RoundSorted /\ ClientFifo <=> InOrder(Entered, unstable, overflowed)
  /\ RoundSorted' /\ ClientFifo' <=> InOrder(Entered', unstable', overflowed')
BY Zenon DEF RoundSorted, ClientFifo, InOrder, Precedes

(* The numbers of the requests, whatever their order.                      *)
LEMMA NumbersOfSeen ==
  NothingLost <=> Len(Decoded) = received /\ {x.n : x \in Seen} = 1 .. received
<1>1. {Decoded[i].n : i \in DOMAIN Decoded} = {x.n : x \in Seen}
  BY Zenon DEF Seen, Range
<1> QED BY <1>1, Zenon DEF NothingLost

(* Sorts and overflows that have happened are never taken back.            *)
OnlyMore == (unstable => unstable') /\ overflowed \subseteq overflowed'

(* What may precede may do so ever after.                                  *)
LEMMA PrecedesForGood ==
  ASSUME OnlyMore, NEW x, NEW y, Precedes(x, y, unstable, overflowed)
  PROVE  Precedes(x, y, unstable', overflowed')
BY Zenon DEF OnlyMore, Precedes

(* The gateway's steps that move no request and stamp none                 *)
(* (drainResponses, poll, sendAndRecv) and the engine's keep the           *)
(* invariant.                                                              *)
LEMMA StillSteps ==
  ASSUME SequencerInv, PlacesKept,
         UNCHANGED <<received, round, lastTime, pending_sorted, unstable, overflowed>>,
         (pc' = "overflow") <=> (pc = "overflow"),
         pc' \in {"decode", "overflow"} =>
           pc \in {"decode", "overflow"} /\ reading' = reading,
         pc' \in {"drain", "retry", "poll"} => pc \in {"drain", "retry", "poll"},
         pc = "finish" => pc' = "finish"
  PROVE  SequencerInv'
<1>1. Decoded' = Decoded /\ Seen' = Seen /\ Past' = Past /\ Waiting' = Waiting
      /\ Entered' = Entered /\ UNCHANGED <<pending_orders, held>>
  BY KeptPlaces, Zenon DEF PlacesKept
<1>2. HeldInOverflow' /\ HeldIsLast' /\ NothingLost'
  BY <1>1, Zenon DEF SequencerInv, SequencerSupport, HeldInOverflow, HeldIsLast, NothingLost
<1>3. StampsFollow'
  BY <1>1, Zenon DEF SequencerInv, SequencerSupport, StampsFollow
<1>4. PendingInOrder'
  BY <1>1, ZenonT(60) DEF SequencerInv, SequencerSupport, PendingInOrder
<1>5. EnteredFirst'
  BY <1>1, ZenonT(60) DEF SequencerInv, SequencerSupport, EnteredFirst, MayPrecede
<1>6. RoundSorted' /\ ClientFifo'
  BY <1>1, ZenonT(60) DEF SequencerInv, SequencerSupport, RoundSorted, ClientFifo
<1> QED BY <1>2, <1>3, <1>4, <1>5, <1>6, Zenon DEF SequencerInv, SequencerSupport

(* A read begins, with a timestamp later than the session's last.          *)
LEMMA BeginRecvInOrder ==
  ASSUME GInv, SequencerInv, NEW fd \in ready, NEW time \in 1 .. MaxTime,
         BeginRecv(fd, time)
  PROVE  SequencerInv'
<1> DEFINE s == socket[fd]
<1>1. /\ pc = "receive" /\ pc' = "decode" /\ time > lastTime[s]
      /\ reading'.session = s /\ reading'.time = time
      /\ lastTime' = [lastTime EXCEPT ![s] = time]
      /\ UNCHANGED <<held, pending_orders, pending_sorted, taken, requestQ, received,
                     round, overflowed, unstable>>
  BY Zenon DEF BeginRecv, fifoVars, queueVars, history
<1>2. PlacesKept
  BY <1>1, Zenon DEF PlacesKept, Entered
<1>3. Decoded' = Decoded /\ Seen' = Seen /\ Past' = Past /\ Waiting' = Waiting
      /\ Entered' = Entered
  BY <1>2, KeptPlaces, Zenon DEF PlacesKept
<1>4. s \in Sessions /\ time \in Nat /\ lastTime \in [Sessions -> Nat]
  BY GatewayAssumption DEF GInv, ClientsFollowSockets, SequencerInv, SequencerSupport, StampsFollow
<1>5. /\ lastTime' \in [Sessions -> Nat] /\ lastTime'[s] = time
      /\ \A u \in Sessions : lastTime[u] <= lastTime'[u]
  BY <1>1, <1>4
<1>6. HeldInOverflow' /\ HeldIsLast' /\ NothingLost'
  BY <1>1, <1>3, Zenon DEF SequencerInv, SequencerSupport, HeldInOverflow, HeldIsLast, NothingLost
<1>7. StampsFollow'
  <2>1. ASSUME NEW x \in Seen PROVE x.time <= lastTime'[x.session]
    <3>1. x \in Request
      BY Places, Zenon DEF SequencerInv, SequencerSupport
    <3>2. x.session \in Sessions /\ x.time \in Nat /\ x.time <= lastTime[x.session]
      BY <3>1, Zenon DEF Request, SequencerInv, SequencerSupport, StampsFollow
    <3>3. lastTime[x.session] \in Nat /\ lastTime'[x.session] \in Nat
      BY <1>4, <1>5, <3>2, Zenon
    <3> QED BY <1>5, <3>2, <3>3
  <2> QED BY <1>1, <1>3, <1>5, <2>1, ZenonT(60) DEF SequencerInv, SequencerSupport, StampsFollow
<1>8. PendingInOrder'
  BY <1>1, ZenonT(60) DEF SequencerInv, SequencerSupport, PendingInOrder
<1>9. EnteredFirst'
  BY <1>1, <1>3, ZenonT(60) DEF SequencerInv, SequencerSupport, EnteredFirst, MayPrecede
<1>10. RoundSorted' /\ ClientFifo'
  BY <1>1, <1>3, ZenonT(60) DEF SequencerInv, SequencerSupport, RoundSorted, ClientFifo
<1> QED BY <1>6, <1>7, <1>8, <1>9, <1>10, Zenon DEF SequencerInv, SequencerSupport

(* A round ends: a new one begins if it had requests.                      *)
LEMMA RoundFinishedInOrder ==
  ASSUME GInv, SequencerInv, RoundFinished
  PROVE  SequencerInv'
<1>1. /\ pc = "finish" /\ pc' = "drain"
      /\ round' = IF \E r \in Range(Decoded) : r.round = round THEN round + 1
                  ELSE round
      /\ UNCHANGED <<held, lastTime, pending_orders, pending_sorted, taken, requestQ,
                     received, overflowed, unstable>>
  BY Zenon DEF RoundFinished, socketVars, fifoVars, queueVars
<1>2. PlacesKept
  BY <1>1, Zenon DEF PlacesKept, Entered
<1>3. Decoded' = Decoded /\ Seen' = Seen /\ Past' = Past /\ Waiting' = Waiting
      /\ Entered' = Entered
  BY <1>2, KeptPlaces, Zenon DEF PlacesKept
<1>4. \A x \in Seen : x.round \in Nat /\ x.round <= round
  BY Places, Zenon DEF Request, SequencerInv, SequencerSupport, StampsFollow
<1>5. \A x \in Seen : x.round <= round' /\ x.round # round'
  <2>1. round \in Nat
    BY Zenon DEF GInv, TypeOK
  <2>2. CASE \E r \in Seen : r.round = round
    BY <1>1, <1>4, <2>1, <2>2 DEF Seen
  <2>3. CASE ~ \E r \in Seen : r.round = round
    BY <1>1, <1>4, <2>1, <2>3, Zenon DEF Seen
  <2> QED BY <2>2, <2>3, Zenon
<1>6. HeldInOverflow' /\ HeldIsLast' /\ NothingLost'
  BY <1>1, <1>3, Zenon DEF SequencerInv, SequencerSupport, HeldInOverflow, HeldIsLast, NothingLost
<1>7. StampsFollow'
  BY <1>1, <1>3, <1>5, Zenon DEF SequencerInv, SequencerSupport, StampsFollow
<1>8. PendingInOrder'
  BY <1>1, ZenonT(60) DEF SequencerInv, SequencerSupport, PendingInOrder
<1>9. EnteredFirst'
  <2>1. \A x \in Past : x \in Seen
    BY Places, ZenonT(60) DEF SequencerInv, SequencerSupport
  <2> QED BY <1>1, <1>3, <1>5, <2>1 DEF SequencerInv, SequencerSupport, EnteredFirst, MayPrecede
<1>10. RoundSorted' /\ ClientFifo'
  BY <1>1, <1>3 DEF SequencerInv, SequencerSupport, RoundSorted, ClientFifo
<1> QED BY <1>6, <1>7, <1>8, <1>9, <1>10, Zenon DEF SequencerInv, SequencerSupport

(* Publishing pushes the first of a sorted pending_orders_ after all that  *)
(* may precede it.                                                         *)
LEMMA PushInOrder ==
  ASSUME GInv, SequencerInv, PushPending
  PROVE  SequencerInv'
<1> DEFINE h == Head(pending_orders)
<1>1. /\ pc \in {"retry", "overflow", "finish"} /\ pending_sorted
      /\ pending_orders # <<>> /\ pending_orders' = Tail(pending_orders)
      /\ overflowed' = IF pc = "overflow" THEN overflowed \cup {h.round} ELSE overflowed
      /\ UNCHANGED <<pc, reading, held, lastTime, pending_sorted, received, round,
                     unstable>>
  BY Zenon DEF PushPending, Publishing, socketVars
<1>2. OnlyMore
  BY <1>1, Zenon DEF OnlyMore
<1>3. /\ Entered' = Append(Entered, h) /\ Past' = Past \cup {h}
      /\ Decoded' = Decoded /\ Seen' = Seen
      /\ Waiting' \subseteq Waiting /\ h \in Waiting
  BY PushMoves, Zenon DEF SequencerInv, SequencerSupport
<1>4. /\ pending_orders \in Seq(Request) /\ Entered \in Seq(Request)
      /\ Seen \subseteq Request /\ Seen = Past \cup Waiting
  BY Places, Zenon DEF SequencerInv, SequencerSupport
<1>5. /\ h = pending_orders[1] /\ h \in Request
      /\ \A i \in DOMAIN pending_orders' :
           /\ i + 1 \in DOMAIN pending_orders /\ 1 < i + 1 /\ i \in Nat
           /\ pending_orders'[i] = pending_orders[i + 1]
      /\ 1 \in DOMAIN pending_orders
  BY <1>1, <1>4
<1> HIDE DEF h
<1>6. ASSUME NEW y \in Range(pending_orders') PROVE Precedes(h, y, unstable', overflowed')
  <2>1. PICK j \in DOMAIN pending_orders : 1 < j /\ y = pending_orders[j]
    BY <1>5, Zenon DEF Range
  <2>2. /\ h.time <= y.time
        /\ h.session = y.session /\ h.time = y.time /\ h.n > y.n => unstable
    BY <1>1, <1>5, <2>1, Zenon DEF SequencerInv, SequencerSupport, PendingInOrder
  <2>3. y \in Seen /\ h \in Seen /\ y \in Request
    BY <1>4, <1>3, <2>1, Zenon DEF Waiting, Range
  <2>4. h.time \in Nat /\ y.time \in Nat /\ h.n \in Nat /\ y.n \in Nat
    BY <1>5, <2>3, Zenon DEF Request
  <2>5. h.session = y.session /\ y.n < h.n => y.time <= h.time
    BY <2>3, Zenon DEF SequencerInv, SequencerSupport, StampsFollow
  <2>6. h.session = y.session /\ h.n > y.n => unstable /\ h.time = y.time
    BY <2>2, <2>4, <2>5, SMTT(30), SMTT(60)
  <2>7. ~ (h.time > y.time)
    BY <2>2, <2>4
  <2> QED BY <1>1, <2>6, <2>7, Zenon DEF Precedes
<1>7. ASSUME held # nil PROVE Precedes(h, held, unstable', overflowed')
  <2>1. pc = "overflow" /\ held \in Request
    BY <1>7, Zenon DEF SequencerInv, SequencerSupport, HeldInOverflow, GInv, RequestsOwned, Owned
  <2>2. h.n < held.n /\ h.n \in Nat /\ held.n \in Nat
    BY <1>5, <1>7, <2>1, Zenon DEF SequencerInv, SequencerSupport, HeldIsLast, Range, Request
  <2>3. h.round \in overflowed'
    BY <1>1, <2>1, Zenon
  <2>4. ~ (h.n > held.n)
    BY <2>2
  <2> QED BY <1>1, <2>3, <2>4, Zenon DEF Precedes
<1>8. HeldInOverflow' /\ HeldIsLast' /\ NothingLost' /\ StampsFollow'
  <2>1. \A y \in Range(pending_orders') : y \in Range(pending_orders)
    BY <1>5, Zenon DEF Range
  <2> QED BY <1>1, <1>3, <2>1, Zenon DEF SequencerInv, SequencerSupport, HeldInOverflow, HeldIsLast, NothingLost,
          StampsFollow
<1>9. PendingInOrder'
  <2> SUFFICES ASSUME NEW i \in DOMAIN pending_orders', NEW j \in DOMAIN pending_orders',
                      i < j
               PROVE  LET x == pending_orders'[i]
                          y == pending_orders'[j]
                      IN  /\ pending_sorted => x.time <= y.time
                          /\ x.session = y.session /\ x.time = y.time /\ x.n > y.n
                             => unstable
    BY <1>1 DEF PendingInOrder
  <2>1. i + 1 \in DOMAIN pending_orders /\ j + 1 \in DOMAIN pending_orders
        /\ i + 1 < j + 1
    BY <1>5
  <2> QED BY <1>5, <2>1, ZenonT(60) DEF SequencerInv, SequencerSupport, PendingInOrder
<1>10. \A x \in Past, y \in Waiting : Precedes(x, y, unstable', overflowed')
  <2>1. \A x \in Past, y \in Waiting : Precedes(x, y, unstable, overflowed)
    BY Zenon DEF SequencerInv, SequencerSupport, EnteredFirst, MayPrecede, Precedes
  <2> QED BY <1>2, <2>1, PrecedesForGood, Zenon
<1>11. EnteredFirst'
  <2>1. \A x \in Past', y \in Waiting' : Precedes(x, y, unstable', overflowed')
    <3>1. \A y \in Waiting' : Precedes(h, y, unstable', overflowed')
      BY <1>1, <1>6, <1>7, Zenon DEF Waiting
    <3> QED BY <1>3, <1>10, <3>1, Zenon
  <2>2. pc # "finish" => \A x \in Past' : x.round = round => round \in overflowed'
    <3>1. ASSUME pc # "finish", h.round = round PROVE round \in overflowed'
      <4>1. CASE pc = "overflow"
        BY <1>1, <3>1, <4>1, Zenon
      <4>2. CASE pc = "retry"
        BY <1>3, <1>4, <3>1, <4>2, Zenon DEF SequencerInv, SequencerSupport, StampsFollow
      <4> QED BY <1>1, <3>1, <4>1, <4>2, Zenon
    <3> QED BY <1>2, <1>3, <3>1, Zenon DEF SequencerInv, SequencerSupport, EnteredFirst, OnlyMore
  <2> QED BY <1>1, <2>1, <2>2, Zenon DEF EnteredFirst, MayPrecede, Precedes
<1>12. InOrder(Entered', unstable', overflowed')
  <2>1. InOrder(Entered, unstable, overflowed)
    BY EnteredInOrder, Zenon DEF SequencerInv, SequencerSupport
  <2> DEFINE s == Entered
             z == Entered'
  <2>2. /\ z = Append(s, h) /\ s \in Seq(Request) /\ \A i \in DOMAIN s : s[i] \in Past
    BY <1>3, <1>4, Zenon DEF Past, Range
  <2> HIDE DEF s, z
  <2>3. /\ \A i \in DOMAIN z : \/ i \in DOMAIN s /\ z[i] = s[i]
                               \/ i = Len(s) + 1 /\ z[i] = h
        /\ \A i, j \in DOMAIN z : i < j => i \in DOMAIN s
    <3>1. /\ DOMAIN s = 1 .. Len(s) /\ Len(s) \in Nat
          /\ DOMAIN z = 1 .. (Len(s) + 1)
          /\ \A i \in DOMAIN s : z[i] = s[i]
          /\ z[Len(s) + 1] = h
      BY <1>5, <2>2, AppendHolds
    <3> QED BY <3>1, SMTT(30), SMTT(60)
  <2>4. ASSUME NEW i \in DOMAIN z, NEW j \in DOMAIN z, i < j
        PROVE  Precedes(z[i], z[j], unstable', overflowed')
    <3>1. i \in DOMAIN s /\ z[i] = s[i] /\ s[i] \in Past
      BY <1>5, <2>2, <2>3, <2>4
    <3>2. CASE j \in DOMAIN s /\ z[j] = s[j]
      <4>1. Precedes(s[i], s[j], unstable, overflowed)
        BY <2>1, <2>4, <3>1, <3>2, Zenon DEF InOrder, s
      <4> QED BY <1>2, <3>1, <3>2, <4>1, PrecedesForGood, Zenon
    <3>3. CASE z[j] = h
      BY <1>3, <1>10, <3>1, <3>3, Zenon
    <3> QED BY <2>3, <3>2, <3>3, Zenon
  <2> QED BY <2>4, Zenon DEF InOrder, z
<1> QED BY <1>8, <1>9, <1>11, <1>12, EnteredInOrder, Zenon DEF SequencerInv, SequencerSupport

(* The held request joins pending_orders_, of which it was decoded last.   *)
LEMMA AddHeldInOrder ==
  ASSUME GInv, SequencerInv, AddHeld
  PROVE  SequencerInv'
<1> DEFINE p == pending_orders
           z == pending_orders'
<1>1. /\ pc = "overflow" /\ pc' = "decode" /\ pending_sorted' = FALSE
      /\ UNCHANGED <<reading, lastTime, received, round, overflowed, unstable>>
  BY Zenon DEF AddHeld, addToPending, socketVars, history
<1>2. /\ Entered' = Entered /\ Past' = Past
      /\ Decoded' = Decoded /\ Seen' = Seen /\ Waiting' = Waiting
      /\ held # nil /\ held \in Request /\ held' = nil /\ z = Append(p, held)
  BY AddHeldMoves, Zenon DEF SequencerInv, SequencerSupport
<1>3. HeldInOverflow' /\ HeldIsLast' /\ NothingLost'
  BY <1>1, <1>2, Zenon DEF SequencerInv, SequencerSupport, HeldInOverflow, HeldIsLast, NothingLost
<1>4. StampsFollow' /\ EnteredFirst'
  BY <1>1, <1>2, ZenonT(60) DEF SequencerInv, SequencerSupport, StampsFollow, EnteredFirst, MayPrecede
<1>5. RoundSorted' /\ ClientFifo'
  BY <1>1, <1>2 DEF SequencerInv, SequencerSupport, RoundSorted, ClientFifo
<1>6. PendingInOrder'
  <2>1. p \in Seq(Request)
    BY Places, ZenonT(60) DEF SequencerInv, SequencerSupport
  <2>2. /\ DOMAIN p = 1 .. Len(p) /\ Len(p) \in Nat /\ DOMAIN z = 1 .. (Len(p) + 1)
        /\ \A i \in DOMAIN p : z[i] = p[i] /\ p[i] \in Request /\ p[i].n < held.n
        /\ z[Len(p) + 1] = held
    <3>1. \A i \in DOMAIN p : p[i] \in Request /\ p[i].n < held.n
      BY <1>2, <2>1, SMTT(30), SMTT(60) DEF SequencerInv, SequencerSupport, HeldIsLast, Range
    <3> QED BY <1>2, <2>1, <3>1, AppendHolds, SMTT(30), SMTT(60)
  <2> HIDE DEF p, z
  <2>3. ASSUME NEW i \in DOMAIN z, NEW j \in DOMAIN z, i < j
        PROVE  z[i].session = z[j].session /\ z[i].time = z[j].time /\ z[i].n > z[j].n
               => unstable
    <3>1. i \in DOMAIN p
      BY <2>2, <2>3
    <3>2. CASE j \in DOMAIN p
      BY <2>2, <2>3, <3>1, <3>2, ZenonT(60) DEF SequencerInv, SequencerSupport, PendingInOrder, p
    <3>3. CASE j = Len(p) + 1
      <4>1. z[i].n < z[j].n /\ z[i].n \in Nat /\ z[j].n \in Nat
        BY <1>2, <2>2, <3>1, <3>3, Zenon DEF Request
      <4> QED BY <4>1
    <3> QED BY <2>2, <3>2, <3>3, SMTT(30), SMTT(60)
  <2> QED BY <1>1, <2>3, Zenon DEF PendingInOrder, z
<1> QED BY <1>3, <1>4, <1>5, <1>6, Zenon DEF SequencerInv, SequencerSupport

(* Sorting puts pending_orders_ in the order of the timestamps, and up to  *)
(* the limit of insertion sort keeps equal ones as they are.               *)
LEMMA SortInOrder ==
  ASSUME GInv, SequencerInv, SortPending
  PROVE  SequencerInv'
<1> DEFINE p == pending_orders
           z == pending_orders'
<1>1. /\ pending_sorted' = TRUE /\ pc \in {"retry", "overflow", "finish"}
      /\ unstable' = (unstable \/ Len(p) > StableSortLimit)
      /\ UNCHANGED <<pc, reading, held, lastTime, received, round, overflowed>>
  BY Zenon DEF SortPending, Publishing, socketVars
<1>2. OnlyMore
  BY <1>1, Zenon DEF OnlyMore
<1>3. /\ Entered' = Entered /\ Past' = Past
      /\ Len(Decoded') = Len(Decoded) /\ Seen' = Seen /\ Waiting' = Waiting
  BY SortMoves, Zenon DEF SequencerInv, SequencerSupport
<1>4. PICK f \in Bijection(DOMAIN p, DOMAIN p) :
        SortedBy(p, f) /\ z = [i \in DOMAIN p |-> p[f[i]]]
  BY SortMoves, Zenon DEF SequencerInv, SequencerSupport
<1>5. f \in [DOMAIN p -> DOMAIN p]
  BY Zenon DEF Bijection, Injection
<1>6. HeldInOverflow' /\ HeldIsLast'
  <2>1. \A x \in Range(z) : x \in Range(p)
    BY <1>4, <1>5, Zenon DEF Range
  <2> QED BY <1>1, <2>1, Zenon DEF SequencerInv, SequencerSupport, HeldInOverflow, HeldIsLast
<1>7. NothingLost'
  <2>1. Len(Decoded') = received' /\ {x.n : x \in Seen'} = 1 .. received'
    BY <1>1, <1>3, NumbersOfSeen, Zenon DEF SequencerInv, SequencerSupport
  <2>2. {Decoded'[i].n : i \in DOMAIN Decoded'} = {x.n : x \in Seen'}
    BY Zenon DEF Seen, Range
  <2> QED BY <2>1, <2>2, Zenon DEF NothingLost
<1>8. StampsFollow'
  BY <1>1, <1>3, Zenon DEF SequencerInv, SequencerSupport, StampsFollow
<1>9. EnteredFirst'
  <2>1. \A x \in Past, y \in Waiting : Precedes(x, y, unstable, overflowed)
    BY Zenon DEF SequencerInv, SequencerSupport, EnteredFirst, MayPrecede, Precedes
  <2>2. \A x \in Past, y \in Waiting : Precedes(x, y, unstable', overflowed')
    BY <1>2, <2>1, PrecedesForGood, Zenon
  <2> QED BY <1>1, <1>3, <2>2, Zenon DEF SequencerInv, SequencerSupport, EnteredFirst, MayPrecede, Precedes
<1>10. InOrder(Entered', unstable', overflowed')
  <2>1. InOrder(Entered, unstable, overflowed)
    BY EnteredInOrder, Zenon DEF SequencerInv, SequencerSupport
  <2> QED BY <1>2, <1>3, <2>1, PrecedesForGood, Zenon DEF InOrder
<1>11. PendingInOrder'
  <2> SUFFICES ASSUME NEW i \in DOMAIN p, NEW j \in DOMAIN p, i < j
               PROVE  /\ z[i].time <= z[j].time
                      /\ z[i].session = z[j].session /\ z[i].time = z[j].time
                         /\ z[i].n > z[j].n => unstable'
    <3>1. DOMAIN z = DOMAIN p
      BY <1>4, Zenon
    <3> QED BY <1>1, <3>1, Zenon DEF PendingInOrder
  <2>1. z[i] = p[f[i]] /\ z[j] = p[f[j]] /\ f[i] \in DOMAIN p /\ f[j] \in DOMAIN p
    BY <1>4, <1>5, Zenon
  <2>2. p[f[i]].time \in Nat /\ p[f[j]].time \in Nat
    <3>1. p \in Seq(Request)
      BY Places, ZenonT(60) DEF SequencerInv, SequencerSupport
    <3>2. p[f[i]] \in Request /\ p[f[j]] \in Request
      BY <2>1, <3>1
    <3> QED BY <3>2, Zenon DEF Request
  <2>3. \/ p[f[i]].time < p[f[j]].time
        \/ /\ p[f[i]].time = p[f[j]].time
           /\ f[i] < f[j] \/ Len(p) > StableSortLimit
    BY <1>4, ZenonT(60) DEF SortedBy
  <2>4. z[i].time <= z[j].time
    BY <2>1, <2>2, <2>3
  <2>5. ASSUME z[i].session = z[j].session, z[i].time = z[j].time, z[i].n > z[j].n
        PROVE  unstable'
    <3>1. f[i] < f[j] \/ Len(p) > StableSortLimit
      BY <2>1, <2>2, <2>3, <2>5
    <3>2. CASE f[i] < f[j]
      BY <1>1, <2>1, <2>5, <3>2, Zenon DEF SequencerInv, SequencerSupport, PendingInOrder
    <3> QED BY <1>1, <3>1, <3>2, ZenonT(60)
  <2> QED BY <2>4, <2>5, Zenon
<1> QED BY <1>6, <1>7, <1>8, <1>9, <1>10, <1>11, EnteredInOrder, Zenon DEF SequencerInv, SequencerSupport

(* The request decodeOuch makes of a message.                              *)
LEMMA DecodedRequest ==
  ASSUME GInv, NEW m \in Message, pc = "decode", NEW req, req = decodeOuch(m), req # nil
  PROVE  /\ req \in Request
         /\ req.session = reading.session /\ req.client = reading.client
         /\ req.time = reading.time /\ req.round = round /\ req.n = received + 1
         /\ req.action = m.action /\ req.named = m.token
         /\ m.action = "NEW" => req.id = Len(id_to_token) + 1
         /\ m.action # "NEW" => /\ req.id = getID(reading.client, m.token)
                                /\ <<reading.client, m.token>> \in DOMAIN token_to_id
         /\ m.action = "MODIFY" => req.newId = Len(id_to_token) + 1
<1> DEFINE next == Len(id_to_token) + 1
           id == IF m.action = "NEW" THEN next ELSE getID(reading.client, m.token)
<1>1. /\ id # 0
      /\ req = [action |-> m.action, named |-> m.token, id |-> id,
                newId |-> IF m.action = "MODIFY" THEN next ELSE 0,
                client |-> reading.client, time |-> reading.time,
                session |-> reading.session, round |-> round, n |-> received + 1]
  BY Zenon DEF decodeOuch
<1>2. m.action \in {"NEW", "CANCEL", "MODIFY"} /\ m.token \in Tokens
  BY ZenonT(60) DEF Message
<1>3. /\ reading.session \in Sessions /\ reading.time \in Nat /\ reading.client \in Nat
      /\ next \in Nat /\ received + 1 \in Nat /\ round \in Nat
  BY DEF GInv, ReadingRegistered, RegisteredAs, TypeOK
<1>4. m.action # "NEW" => <<reading.client, m.token>> \in DOMAIN token_to_id
  BY <1>1, Zenon DEF getID
<1>5. id \in Nat
  <2>1. CASE m.action = "NEW"
    BY <1>3, <2>1, Zenon
  <2>2. CASE m.action # "NEW"
    <3> DEFINE key == <<reading.client, m.token>>
    <3>1. id = token_to_id[key] /\ key \in DOMAIN token_to_id
      BY <1>4, <2>2, Zenon DEF getID
    <3> HIDE DEF key
    <3>2. token_to_id[key] \in DOMAIN id_to_token
      BY <3>1, Zenon DEF GInv, TokensOwned, OrderOf
    <3>3. DOMAIN id_to_token \subseteq Nat
      BY SMTT(30), SMTT(60) DEF GInv, TypeOK
    <3> QED BY <3>1, <3>2, <3>3, Zenon
  <2> QED BY <2>1, <2>2, Zenon
<1> HIDE DEF next
<1>6. req \in Request
  <2> HIDE DEF id
  <2>1. (IF m.action = "MODIFY" THEN next ELSE 0) \in Nat
    BY <1>3, ZenonT(60)
  <2> QED BY <1>1, <1>2, <1>3, <1>5, <2>1, SMTT(30), SMTT(60) DEF Request
<1>7. /\ req.session = reading.session /\ req.client = reading.client
      /\ req.time = reading.time /\ req.round = round /\ req.n = received + 1
      /\ req.action = m.action /\ req.named = m.token /\ req.id = id
      /\ req.newId = IF m.action = "MODIFY" THEN next ELSE 0
  <2> HIDE DEF id
  <2> QED BY <1>1
<1> QED BY <1>4, <1>6, <1>7, Zenon DEF next

(* A message that is no request changes nothing of the requests.           *)
LEMMA NoRequest ==
  ASSUME NEW m, DecodeMessage(m), decodeOuch(m) = nil
  PROVE  /\ PlacesKept /\ UNCHANGED <<pc, pending_sorted, received, round, lastTime,
                                      overflowed, unstable, reading, tokenVars>>
BY Zenon DEF DecodeMessage, RegisterTokens, PlacesKept, Entered, queueVars, socketVars

(* A request that was just decoded has the highest number, its session's   *)
(* latest time and the current round.                                      *)
LEMMA DecodeInOrder ==
  ASSUME GInv, SequencerInv, NEW m \in Message, DecodeMessage(m)
  PROVE  SequencerInv'
<1>1. CASE decodeOuch(m) = nil
  BY <1>1, NoRequest, StillSteps, Zenon
<1>2. CASE decodeOuch(m) # nil
  <2>1. PICK req : req = decodeOuch(m) /\ req # nil
    BY <1>2, Zenon
  <2>2. /\ pc = "decode"
        /\ UNCHANGED <<reading, lastTime, round, overflowed, unstable>>
    BY Zenon DEF DecodeMessage, socketVars
  <2>3. /\ req \in Request /\ req.session = reading.session
        /\ req.time = reading.time /\ req.round = round /\ req.n = received + 1
    BY <2>1, <2>2, DecodedRequest, Zenon
  <2>4. /\ Entered' = Entered /\ Past' = Past
        /\ Decoded' = Append(Decoded, req)
        /\ Seen' = Seen \cup {req} /\ Waiting' = Waiting \cup {req}
        /\ received' = received + 1
        /\ \/ /\ pc' = "decode" /\ held' = nil /\ pending_sorted' = FALSE
              /\ pending_orders' = Append(pending_orders, req)
           \/ /\ pc' = "overflow" /\ held' = req
              /\ UNCHANGED <<pending_orders, pending_sorted>>
    <3>1. GInv /\ HeldInOverflow /\ m \in Message /\ DecodeMessage(m)
      BY Zenon DEF SequencerInv, SequencerSupport
    <3>2. req \in Request /\ req = decodeOuch(m) /\ req # nil
      BY <2>1, <2>3, Zenon
    <3> QED BY ONLY <3>1, <3>2, DecodeMoves, Zenon
  <2> DEFINE p == pending_orders
             z == pending_orders'
  <2>5. received \in Nat /\ round \in Nat
    BY Zenon DEF GInv, TypeOK
  <2>6. /\ Len(Decoded) = received /\ {x.n : x \in Seen} = 1 .. received
    BY NumbersOfSeen, ZenonT(60) DEF SequencerInv, SequencerSupport
  <2>7. \A x \in Seen : /\ x \in Request /\ x.n \in Nat /\ x.n < req.n
                        /\ x.time \in Nat /\ x.time <= lastTime[x.session]
                        /\ x.round <= round
    <3>1. \A x \in Seen : x.n \in 1 .. received
      BY <2>6, Zenon
    <3>2. \A x \in Seen : x \in Request
      BY Places, Zenon DEF SequencerInv, SequencerSupport
    <3> QED BY <2>3, <2>5, <3>1, <3>2, SMTT(30), SMTT(60) DEF Request, SequencerInv, SequencerSupport, StampsFollow
  <2>8. /\ Past \subseteq Seen /\ Range(p) \subseteq Seen /\ p \in Seq(Request)
        /\ Decoded \in Seq(Request)
    BY Places, Zenon DEF SequencerInv, SequencerSupport, Waiting
  <2> HIDE DEF p, z
  <2>9. HeldInOverflow'
    BY <2>1, <2>4, Zenon DEF HeldInOverflow
  <2>10. HeldIsLast'
    BY <2>4, <2>7, <2>8, Zenon DEF HeldIsLast, p
  <2>11. NothingLost'
    <3>1. Len(Decoded') = received'
      BY <2>3, <2>4, <2>6, <2>8, AppendHolds, SMTT(30), SMTT(60)
    <3>2. {x.n : x \in Seen'} = 1 .. received'
      <4>1. {x.n : x \in Seen'} = {x.n : x \in Seen} \cup {req.n}
        BY <2>4, Zenon
      <4>2. 1 .. (received + 1) = (1 .. received) \cup {received + 1}
        BY <2>5
      <4> QED BY <2>3, <2>4, <2>6, <4>1, <4>2, Zenon
    <3>3. {Decoded'[i].n : i \in DOMAIN Decoded'} = {x.n : x \in Seen'}
      BY Zenon DEF Seen, Range
    <3> QED BY <3>1, <3>2, <3>3, ZenonT(60) DEF NothingLost
  <2>12. StampsFollow'
    <3>1. req.time = lastTime[req.session] /\ req.time \in Nat /\ req.n \in Nat
      BY <2>2, <2>3, ZenonT(60) DEF SequencerInv, SequencerSupport, StampsFollow, Request
    <3>2. \A x \in Seen' : x.time <= lastTime[x.session] /\ x.round <= round
      BY <2>3, <2>4, <2>5, <2>7, <3>1
    <3>3. ASSUME NEW x \in Seen', NEW y \in Seen', x.session = y.session, x.n < y.n
          PROVE  x.time <= y.time
      <4>1. CASE x \in Seen /\ y \in Seen
        BY <3>3, <4>1, Zenon DEF SequencerInv, SequencerSupport, StampsFollow
      <4>2. CASE x \in Seen /\ y = req
        BY <2>7, <3>1, <3>3, <4>2, ZenonT(60)
      <4>3. CASE x = req
        BY <2>4, <2>7, <3>1, <3>3, <4>3, SMTT(30), SMTT(60)
      <4> QED BY <2>4, <4>1, <4>2, <4>3, Zenon
    <3> QED BY <2>2, <2>4, <3>2, <3>3, Zenon DEF SequencerInv, SequencerSupport, StampsFollow
  <2>13. PendingInOrder'
    <3>1. CASE UNCHANGED <<pending_orders, pending_sorted>>
      BY <2>2, <3>1, ZenonT(60) DEF SequencerInv, SequencerSupport, PendingInOrder
    <3>2. CASE pending_sorted' = FALSE /\ z = Append(p, req)
      <4>1. /\ DOMAIN p = 1 .. Len(p) /\ Len(p) \in Nat /\ DOMAIN z = 1 .. (Len(p) + 1)
            /\ \A i \in DOMAIN p : z[i] = p[i]
            /\ z[Len(p) + 1] = req
        BY <2>3, <2>8, <3>2, AppendHolds, SMTT(30), SMTT(60)
      <4>2. \A i \in DOMAIN p : p[i].n \in Nat /\ p[i].n < req.n
        BY <2>7, <2>8, Zenon DEF Range
      <4>3. ASSUME NEW i \in DOMAIN z, NEW j \in DOMAIN z, i < j
            PROVE  z[i].session = z[j].session /\ z[i].time = z[j].time
                   /\ z[i].n > z[j].n => unstable
        <5>1. i \in DOMAIN p
          BY <4>1, <4>3
        <5>2. CASE j \in DOMAIN p
          BY <4>1, <4>3, <5>1, <5>2, ZenonT(60) DEF SequencerInv, SequencerSupport, PendingInOrder, p
        <5>3. CASE j = Len(p) + 1
          <6>1. z[i].n < z[j].n /\ z[i].n \in Nat /\ z[j].n \in Nat
            BY <2>3, <4>1, <4>2, <5>1, <5>3, Zenon DEF Request
          <6> QED BY <6>1
        <5> QED BY <4>1, <5>2, <5>3
      <4> QED BY <2>2, <3>2, <4>3, ZenonT(60) DEF PendingInOrder, z
    <3> QED BY <2>4, <3>1, <3>2, ZenonT(60) DEF p, z
  <2>14. EnteredFirst'
    <3>1. ASSUME NEW x \in Past PROVE Precedes(x, req, unstable, overflowed)
      <4>1. x \in Seen /\ x.n < req.n /\ x.n \in Nat /\ req.n \in Nat
        BY <2>3, <2>7, <2>8, Zenon DEF Request
      <4>2. x.round = round => round \in overflowed
        BY <2>2, Zenon DEF SequencerInv, SequencerSupport, EnteredFirst
      <4> QED BY <2>3, <4>1, <4>2 DEF Precedes
    <3>2. \A x \in Past, y \in Waiting : Precedes(x, y, unstable, overflowed)
      BY Zenon DEF SequencerInv, SequencerSupport, EnteredFirst, MayPrecede, Precedes
    <3>3. \A x \in Past, y \in Waiting' : Precedes(x, y, unstable', overflowed')
      BY <2>2, <2>4, <3>1, <3>2, Zenon
    <3>4. \A x \in Past : x.round = round => round \in overflowed
      BY <2>2, Zenon DEF SequencerInv, SequencerSupport, EnteredFirst
    <3> QED BY <2>2, <2>4, <3>3, <3>4, ZenonT(60) DEF EnteredFirst, MayPrecede, Precedes
  <2>15. RoundSorted' /\ ClientFifo'
    BY <2>2, <2>4, ZenonT(60) DEF SequencerInv, SequencerSupport, RoundSorted, ClientFifo
  <2> QED BY <2>9, <2>10, <2>11, <2>12, <2>13, <2>14, <2>15, ZenonT(60) DEF SequencerInv, SequencerSupport
<1> QED BY <1>1, <1>2, Zenon

(* The steps that move no request, each on its own.                        *)
LEMMA StillStepsOfNext ==
  ASSUME GInv, SequencerInv,
         \/ DrainResponse \/ Drained \/ Retried \/ Polled \/ EndRecv \/ Received
         \/ EngineTakes
         \/ EngineAnswers
         \/ \E s \in Sessions, fd \in Fds : Accept(s, fd)
         \/ \E fd \in ready : Disconnect(fd)
         \/ UNCHANGED vars
  PROVE  SequencerInv'
<1> DEFINE Still == /\ PlacesKept
                    /\ UNCHANGED <<received, round, lastTime, pending_sorted, unstable,
                                   overflowed>>
           PcMoves == /\ (pc' = "overflow") <=> (pc = "overflow")
                      /\ pc' \in {"decode", "overflow"} =>
                           pc \in {"decode", "overflow"} /\ reading' = reading
                      /\ pc' \in {"drain", "retry", "poll"} =>
                           pc \in {"drain", "retry", "poll"}
                      /\ pc = "finish" => pc' = "finish"
<1>1. Still
  <2>1. CASE EngineTakes
    <3>1. PlacesKept
      BY <2>1, TakingKeepsPlaces, Zenon
    <3> QED BY <2>1, <3>1, Zenon DEF EngineTakes, socketVars, fifoVars, history
  <2>2. CASE ~EngineTakes
    BY <2>2, Zenon DEF PlacesKept, Entered, DrainResponse, Drained, Retried, Polled, EndRecv,
                Received, EngineAnswers, EngineResponds, Accept, Disconnect, vars, socketVars,
                fifoVars,
                queueVars, history
  <2> QED BY <2>1, <2>2, Zenon
<1>2. PcMoves
  BY Zenon DEF DrainResponse, Drained, Retried, Polled, EndRecv, Received, EngineTakes,
         EngineAnswers, EngineResponds, Accept, Disconnect, vars
<1> QED BY <1>1, <1>2, StillSteps, Zenon

(* Every reachable state of the sequencer satisfies the invariant.         *)
LEMMA SequencerInvariant == Spec => []SequencerInv
<1>1. Init => SequencerInv
  <2> SUFFICES ASSUME Init PROVE SequencerInv
    BY Zenon
  <2>1. /\ pending_orders = <<>> /\ taken = <<>> /\ requestQ = <<>> /\ held = nil
        /\ pc = "drain" /\ received = 0 /\ lastTime = [s \in Sessions |-> 0]
    BY Zenon DEF Init
  <2>2. Entered = <<>> /\ Decoded = <<>>
    BY <2>1, SMTT(30), SMTT(60) DEF Entered, Decoded
  <2>3. Seen = {} /\ Past = {} /\ Waiting = {}
    BY <2>1, <2>2 DEF Seen, Past, Waiting, Range
  <2>4. HeldInOverflow /\ HeldIsLast
    BY <2>1, ZenonT(60) DEF HeldInOverflow, HeldIsLast
  <2>5. NothingLost
    BY <2>1, <2>2, <2>3, NumbersOfSeen
  <2>6. StampsFollow
    BY <2>1, <2>3, ZenonT(60) DEF StampsFollow
  <2>7. PendingInOrder /\ EnteredFirst
    BY <2>1, <2>3, SMTT(30), SMTT(60) DEF PendingInOrder, EnteredFirst
  <2>8. RoundSorted /\ ClientFifo
    BY <2>2 DEF RoundSorted, ClientFifo
  <2> QED BY <2>4, <2>5, <2>6, <2>7, <2>8, Zenon DEF SequencerInv, SequencerSupport
<1>2. GInv /\ SequencerInv /\ [Next]_vars => SequencerInv'
  <2> SUFFICES ASSUME GInv, SequencerInv, [Next]_vars PROVE SequencerInv'
    BY Zenon
  <2>1. CASE SortPending
    BY <2>1, SortInOrder, Zenon
  <2>2. CASE PushPending
    BY <2>2, PushInOrder, ZenonT(60)
  <2>3. CASE RoundFinished
    BY <2>3, RoundFinishedInOrder, Zenon
  <2>4. CASE AddHeld
    BY <2>4, AddHeldInOrder, Zenon
  <2>5. ASSUME NEW fd \in ready, NEW time \in 1 .. MaxTime, BeginRecv(fd, time)
        PROVE  SequencerInv'
    BY <2>5, BeginRecvInOrder, Zenon
  <2>6. ASSUME NEW m \in Message, DecodeMessage(m) PROVE SequencerInv'
    BY <2>6, DecodeInOrder, ZenonT(60)
  <2> QED BY <2>1, <2>2, <2>3, <2>4, <2>5, <2>6, StillStepsOfNext, Zenon DEF Next, Gateway, EngineAnswers
<1> QED BY <1>1, <1>2, GatewayInvariant, PTL DEF Spec

(* addToPending, publishPendingOrders, growPending and the retries in      *)
(* onRecv and run neither lose a request nor enter one twice.              *)
THEOREM EveryRequestOnce == Spec => []NothingLost
<1>1. SequencerInv => NothingLost
  BY Zenon DEF SequencerInv, SequencerSupport
<1> QED BY <1>1, SequencerInvariant, PTL

(* A request that found the buffer full is newer than all it holds, a      *)
(* session's timestamps follow its requests, pending_sorted_ means what it *)
(* says, and nothing waits that had to enter requestQ before what is there *)
(* (addToPending, publishPendingOrders).                                   *)
THEOREM SequencerStaysInOrder == Spec => []SequencerSupport
<1>1. SequencerInv => SequencerSupport
  BY Zenon DEF SequencerInv
<1> QED BY <1>1, SequencerInvariant, PTL

(* The requests of an epoll round enter requestQ by timestamp, whatever    *)
(* was retained from earlier rounds, unless the pending buffer overflowed  *)
(* while the round was being read.                                         *)
THEOREM RoundsEnterSorted == Spec => []RoundSorted
<1>1. SequencerInv => RoundSorted
  BY Zenon DEF SequencerInv, SequencerSupport
<1> QED BY <1>1, SequencerInvariant, PTL

(* The requests of a session enter requestQ in the order they were sent,   *)
(* but for those of one read that an unstable sort has exchanged.          *)
THEOREM SessionsEnterInOrder == Spec => []ClientFifo
<1>1. SequencerInv => ClientFifo
  BY Zenon DEF SequencerInv, SequencerSupport
<1> QED BY <1>1, SequencerInvariant, PTL

-----------------------------------------------------------------------------
(* Tokens.                                                                 *)

(* Where neither requests nor tokens come, what was resolved stays so.     *)
LEMMA TokensStill ==
  ASSUME TokenInv, Seen' = Seen, UNCHANGED tokenVars
  PROVE  IdsInOrder' /\ LatestIds' /\ TokensResolve'
<1>1. UNCHANGED <<id_to_token, token_to_id>>
  BY Zenon DEF tokenVars
<1>2. IdsInOrder'
  BY <1>1, Zenon DEF TokenInv, TokenSupport, IdsInOrder, IdOf, Enters
<1>3. LatestIds'
  BY <1>1, ZenonT(60) DEF TokenInv, TokenSupport, LatestIds
<1>4. TokensResolve'
  BY <1>1, SMTT(30), SMTT(60) DEF TokenInv, TokenSupport, TokensResolve, IdOf, Enters
<1> QED BY <1>2, <1>3, <1>4, Zenon

(* The conjuncts of ClientsAreSessions that speak of the maps and of       *)
(* onRecv.                                                                 *)
ClientsKnown ==
  \A e \in Seen : e.session \in accepted /\ e.client < nextClientId
                  /\ Identifies(e.client, e.session)
SocketsKnown ==
  \A fd \in DOMAIN socket :
    IF fd \in DOMAIN fdToClientId THEN Identifies(fdToClientId[fd], socket[fd])
    ELSE \A e \in Seen : e.session # socket[fd]
ReaderKnown ==
  /\ reading.session \in accepted /\ reading.client < nextClientId
  /\ Identifies(reading.client, reading.session)
  /\ \A fd \in DOMAIN socket :
       IF fd \in DOMAIN fdToClientId
       THEN (fdToClientId[fd] = reading.client) <=> (socket[fd] = reading.session)
       ELSE socket[fd] # reading.session

(* Together they are ClientsAreSessions.                                   *)
LEMMA ClientsAre ==
  /\ ClientsAreSessions <=> /\ ClientsKnown /\ SocketsKnown
                            /\ pc \in {"decode", "overflow"} => ReaderKnown
  /\ ClientsAreSessions' <=> /\ ClientsKnown' /\ SocketsKnown'
                             /\ pc' \in {"decode", "overflow"} => ReaderKnown'
BY Zenon DEF ClientsAreSessions, ClientsKnown, SocketsKnown, ReaderKnown

(* Publishing, sorting and responding concern no client and no token.      *)
LEMMA TokenStillSteps ==
  ASSUME TokenInv, Seen' = Seen,
         UNCHANGED <<tokenVars, clientVars, socket, accepted>>,
         pc' \in {"decode", "overflow"} =>
           pc \in {"decode", "overflow"} /\ reading' = reading
  PROVE  TokenInv'
<1>1. UNCHANGED <<fdToClientId, nextClientId>>
  BY Zenon DEF clientVars
<1>2. ClientsKnown' /\ SocketsKnown'
  BY <1>1, ClientsAre, ZenonT(60) DEF TokenInv, TokenSupport, ClientsKnown, SocketsKnown, Identifies
<1>3. ASSUME pc' \in {"decode", "overflow"} PROVE ReaderKnown'
  BY <1>1, <1>3, ClientsAre, Zenon DEF TokenInv, TokenSupport, ReaderKnown, Identifies
<1> QED BY <1>2, <1>3, ClientsAre, TokensStill, Zenon DEF TokenInv, TokenSupport

(* A session that connects has sent nothing yet.                           *)
LEMMA AcceptKnown ==
  ASSUME GInv, TokenInv, Seen' = Seen, NEW s, NEW fd, Accept(s, fd)
  PROVE  TokenInv'
<1>1. /\ pc' = "poll" /\ s \notin accepted /\ fd \notin DOMAIN socket
      /\ socket' = Assign(socket, fd, s) /\ accepted' = accepted \cup {s}
      /\ UNCHANGED <<fdToClientId, nextClientId, tokenVars>>
  BY Zenon DEF Accept, clientVars
<1>2. fd \notin DOMAIN fdToClientId
  BY <1>1, Zenon DEF GInv, ClientsFollowSockets
<1>3. ClientsKnown'
  BY <1>1, ClientsAre, ZenonT(60) DEF TokenInv, TokenSupport, ClientsKnown, Identifies
<1>4. SocketsKnown'
  <2>1. ASSUME NEW g \in DOMAIN socket', g # fd
        PROVE  g \in DOMAIN socket /\ socket'[g] = socket[g]
    BY <1>1, <2>1, Zenon DEF Assign
  <2>2. socket'[fd] = s
    BY <1>1, Zenon DEF Assign
  <2>3. \A e \in Seen : e.session # s
    BY <1>1, ClientsAre, Zenon DEF TokenInv, TokenSupport, ClientsKnown
  <2>4. SocketsKnown
    BY ClientsAre, Zenon DEF TokenInv, TokenSupport
  <2> QED BY <1>1, <1>2, <2>1, <2>2, <2>3, <2>4 DEF SocketsKnown, Identifies
<1> QED BY <1>1, <1>3, <1>4, ClientsAre, TokensStill, Zenon DEF TokenInv, TokenSupport

(* One that goes leaves the others as they are.                            *)
LEMMA DisconnectKnown ==
  ASSUME GInv, TokenInv, Seen' = Seen, NEW fd, Disconnect(fd)
  PROVE  TokenInv'
<1>1. /\ pc' = "receive" /\ socket' = Erase(socket, fd)
      /\ \/ UNCHANGED fdToClientId /\ fd \notin DOMAIN fdToClientId
         \/ fdToClientId' = Erase(fdToClientId, fd)
      /\ UNCHANGED <<accepted, nextClientId, tokenVars>>
  BY Zenon DEF Disconnect, onDisconnect, clientVars
<1>2. ClientsKnown'
  BY <1>1, ClientsAre, Zenon DEF TokenInv, TokenSupport, ClientsKnown, Identifies
<1>3. SocketsKnown'
  <2>1. ASSUME NEW g \in DOMAIN socket'
        PROVE  /\ g \in DOMAIN socket /\ socket'[g] = socket[g]
               /\ g \in DOMAIN fdToClientId' <=> g \in DOMAIN fdToClientId
               /\ g \in DOMAIN fdToClientId => fdToClientId'[g] = fdToClientId[g]
    BY <1>1, <2>1, Zenon DEF Erase, Restrict
  <2>2. SocketsKnown
    BY ClientsAre, Zenon DEF TokenInv, TokenSupport
  <2> QED BY <2>1, <2>2, ZenonT(60) DEF SocketsKnown, Identifies
<1> QED BY <1>1, <1>2, <1>3, ClientsAre, TokensStill, Zenon DEF TokenInv, TokenSupport

(* onRecv finds the client of a session it knows, and gives a new one to   *)
(* a session of which nothing has come so far.                             *)
LEMMA BeginRecvKnown ==
  ASSUME GInv, SequencerInv, TokenInv, Seen' = Seen, NEW fd \in ready, NEW time,
         BeginRecv(fd, time)
  PROVE  TokenInv'
<1> DEFINE s == socket[fd]
<1>1. /\ reading' = [session |-> s, client |-> fdToClientId'[fd], time |-> time]
      /\ UNCHANGED <<socket, accepted, tokenVars>>
  BY Zenon DEF BeginRecv
<1>2. /\ reading'.session = s /\ reading'.client = fdToClientId'[fd]
  BY <1>1, Zenon
<1>3. /\ fd \in DOMAIN socket /\ s \in accepted
      /\ \A f, g \in DOMAIN socket : socket[f] = socket[g] => f = g
      /\ DOMAIN fdToClientId \subseteq DOMAIN socket
      /\ \A g \in DOMAIN fdToClientId :
           /\ fdToClientId[g] \in Nat /\ fdToClientId[g] < nextClientId
           /\ clientToSocket[fdToClientId[g]] = socket[g]
      /\ nextClientId \in Nat
  BY Zenon DEF GInv, ClientsFollowSockets, TypeOK
<1>4. ClientsKnown /\ SocketsKnown
  BY ClientsAre, Zenon DEF TokenInv, TokenSupport
<1>5. CASE fd \in DOMAIN fdToClientId
  <2>1. UNCHANGED <<fdToClientId, clientToSocket, nextClientId>>
    BY <1>5, Zenon DEF BeginRecv, clientVars
  <2>2. ClientsKnown' /\ SocketsKnown'
    BY <1>1, <1>4, <2>1, Zenon DEF ClientsKnown, SocketsKnown, Identifies
  <2>3. Identifies(reading.client, reading.session)'
    BY <1>2, <1>3, <1>4, <1>5, <2>1, ZenonT(60) DEF SocketsKnown, Identifies
  <2>4. ReaderKnown'
    BY <1>1, <1>2, <1>3, <1>5, <2>1, <2>3, ZenonT(90) DEF ReaderKnown
  <2> QED BY <1>1, <2>2, <2>4, ClientsAre, TokensStill, Zenon DEF TokenInv, TokenSupport
<1>6. CASE fd \notin DOMAIN fdToClientId
  <2>1. /\ fdToClientId' = Assign(fdToClientId, fd, nextClientId)
        /\ nextClientId' = nextClientId + 1
    BY <1>6, Zenon DEF BeginRecv, registerClient
  <2>2. /\ fdToClientId'[fd] = nextClientId
        /\ DOMAIN fdToClientId' = DOMAIN fdToClientId \cup {fd}
        /\ \A g \in DOMAIN fdToClientId : fdToClientId'[g] = fdToClientId[g]
    BY <1>6, <2>1, Zenon DEF Assign
  <2>3. \A e \in Seen : e.client \in Nat
    BY Places, ZenonT(60) DEF SequencerInv, SequencerSupport, Request
  <2>4. ClientsKnown'
    <3>1. \A e \in Seen : e.client < nextClientId => e.client < nextClientId'
      BY <1>3, <2>1, <2>3, SMTT(30), SMTT(60)
    <3> QED BY <1>1, <1>4, <3>1, ZenonT(60) DEF ClientsKnown, Identifies
  <2>5. \A e \in Seen : e.client # nextClientId /\ e.session # s
    BY <1>3, <1>4, <1>6, <2>3, SMTT(30), SMTT(60) DEF ClientsKnown, SocketsKnown
  <2>6. Identifies(reading.client, reading.session)'
    BY <1>2, <2>2, <2>5, Zenon DEF Identifies
  <2>7. SocketsKnown'
    <3>1. ASSUME NEW g \in DOMAIN socket
          PROVE  IF g \in DOMAIN fdToClientId'
                 THEN \A e \in Seen : (e.client = fdToClientId'[g]) <=> (e.session = socket[g])
                 ELSE \A e \in Seen : e.session # socket[g]
      <4>1. CASE g = fd
        BY <2>2, <2>5, <4>1, Zenon
      <4>2. CASE g # fd
        BY <1>1, <1>4, <2>2, <4>2, ZenonT(60) DEF SocketsKnown, Identifies
      <4> QED BY <4>1, <4>2, Zenon
    <3> QED BY <1>1, <3>1, Zenon DEF SocketsKnown, Identifies
  <2>8. ReaderKnown'
    <3>1. ASSUME NEW g \in DOMAIN socket
          PROVE  IF g \in DOMAIN fdToClientId'
                 THEN (fdToClientId'[g] = nextClientId) <=> (socket[g] = s)
                 ELSE socket[g] # s
      BY <1>3, <2>2, <3>1, SMTT(30), SMTT(60)
    <3>2. nextClientId < nextClientId'
      BY <1>3, <2>1, SMT
    <3>3. reading'.session \in accepted' /\ reading'.client < nextClientId'
      BY <1>1, <1>2, <1>3, <2>2, <3>2, Zenon
    <3>4. reading'.client = nextClientId
      BY <1>2, <2>2, Zenon
    <3> QED BY <1>1, <1>2, <2>6, <3>1, <3>3, <3>4, ZenonT(60) DEF ReaderKnown
  <2> QED BY <1>1, <2>4, <2>7, <2>8, ClientsAre, TokensStill, Zenon DEF TokenInv, TokenSupport
<1> QED BY <1>5, <1>6, Zenon

(* The token that a NEW or a replacement registers takes the next id, and  *)
(* the ids before it keep theirs.                                          *)
LEMMA Registers ==
  ASSUME GInv, NEW m \in Message, DecodeMessage(m), decodeOuch(m) # nil,
         m.action # "CANCEL"
  PROVE  \E tok \in Tokens :
           LET i == Len(id_to_token) + 1
               key == <<reading.client, tok>>
           IN  /\ m.action = "NEW" => tok = m.token
               /\ DOMAIN id_to_token = 1 .. Len(id_to_token) /\ Len(id_to_token) \in Nat
               /\ DOMAIN id_to_token' = DOMAIN id_to_token \cup {i}
               /\ \A j \in DOMAIN id_to_token : id_to_token'[j] = id_to_token[j]
               /\ id_to_token'[i].clientId = reading.client /\ id_to_token'[i].token = tok
               /\ token_to_id' = Assign(token_to_id, key, i)
<1> DEFINE tok == IF m.action = "NEW" THEN m.token ELSE m.replacement
           i == Len(id_to_token) + 1
           info == [token |-> tok, clientId |-> reading.client,
                    session |-> reading.session]
<1>1. tok \in Tokens
  BY Zenon DEF Message
<1>2. pc = "decode" /\ registerNewToken(reading.client, tok, reading.session)
  BY Zenon DEF DecodeMessage, RegisterTokens
<1>3. /\ id_to_token' = Append(id_to_token, info)
      /\ token_to_id' = Assign(token_to_id, <<reading.client, tok>>, i)
  BY <1>2, Zenon DEF registerNewToken
<1>4. m.action = "NEW" => tok = m.token
  BY Zenon
<1> HIDE DEF tok
<1>5. info \in TokenInfo /\ id_to_token \in Seq(TokenInfo)
  BY <1>1, <1>2, Zenon DEF GInv, TypeOK, ReadingRegistered, RegisteredAs, TokenInfo
<1>6. info.clientId = reading.client /\ info.token = tok
  BY ZenonT(60)
<1> HIDE DEF info
<1>7. /\ DOMAIN id_to_token = 1 .. Len(id_to_token) /\ Len(id_to_token) \in Nat
      /\ DOMAIN id_to_token' = 1 .. i
      /\ \A j \in DOMAIN id_to_token : id_to_token'[j] = id_to_token[j]
      /\ id_to_token'[i] = info
  BY <1>3, <1>5, AppendHolds, SMTT(30), SMTT(60)
<1>8. DOMAIN id_to_token' = DOMAIN id_to_token \cup {i}
  BY <1>7
<1> QED BY <1>1, <1>3, <1>4, <1>6, <1>7, <1>8, Zenon

(* Registering never touches the tokens that are there.                    *)
LEMMA RegisteringKeeps ==
  ASSUME GInv, NEW m \in Message, DecodeMessage(m)
  PROVE  /\ DOMAIN id_to_token \subseteq DOMAIN id_to_token'
         /\ \A j \in DOMAIN id_to_token : id_to_token'[j] = id_to_token[j]
<1>1. CASE decodeOuch(m) = nil \/ m.action = "CANCEL"
  BY <1>1, Zenon DEF DecodeMessage, RegisterTokens, tokenVars
<1>2. CASE decodeOuch(m) # nil /\ m.action # "CANCEL"
  BY <1>2, Registers, Zenon
<1> QED BY <1>1, <1>2, Zenon

(* Enters, with the tokens as an argument.                                 *)
EntersIn(ids, e, token) ==
  \/ e.action = "NEW" /\ e.named = token
  \/ e.action = "MODIFY" /\ ids[e.newId].token = token

(* The tokens of the orders that were entered stay what they are.          *)
LEMMA EntersStays ==
  ASSUME GInv, IdsInOrder, NEW m \in Message, DecodeMessage(m), NEW e \in Seen, NEW token
  PROVE  EntersIn(id_to_token', e, token) <=> EntersIn(id_to_token, e, token)
BY RegisteringKeeps, Zenon DEF EntersIn, IdsInOrder, IdOf

(* A request of the reader is one of its session and of no other.          *)
LEMMA DecodeKnown ==
  ASSUME TokenInv, NEW m \in Message, DecodeMessage(m), NEW req, Seen' = Seen \cup {req},
         req.session = reading.session, req.client = reading.client
  PROVE  ClientsAreSessions'
<1>1. pc = "decode" /\ UNCHANGED <<reading, socket, accepted, fdToClientId, nextClientId>>
  BY Zenon DEF DecodeMessage, socketVars, clientVars
<1>2. ClientsKnown /\ SocketsKnown /\ ReaderKnown
  BY <1>1, ClientsAre, ZenonT(60) DEF TokenInv, TokenSupport
<1>3. ClientsKnown'
  BY <1>1, <1>2, SMTT(30), SMTT(60) DEF ClientsKnown, ReaderKnown, Identifies
<1>4. SocketsKnown'
  BY <1>1, <1>2 DEF SocketsKnown, ReaderKnown, Identifies
<1>5. ReaderKnown'
  BY <1>1, <1>2, Zenon DEF ReaderKnown, Identifies
<1> QED BY <1>3, <1>4, <1>5, ClientsAre, Zenon

(* An order that is entered takes the next id.                             *)
LEMMA DecodeGivesIds ==
  ASSUME GInv, IdsInOrder, NEW m \in Message, DecodeMessage(m),
         NEW req \in Request, req = decodeOuch(m), req # nil, Seen' = Seen \cup {req},
         \A x \in Seen : x.n \in Nat /\ x.n < req.n
  PROVE  IdsInOrder'
<1>1. /\ req.action = m.action /\ req.named = m.token /\ req.client = reading.client
      /\ m.action = "NEW" => req.id = Len(id_to_token) + 1
      /\ m.action = "MODIFY" => req.newId = Len(id_to_token) + 1
  BY DecodedRequest, Zenon DEF DecodeMessage
<1>2. req.n \in Nat /\ m.action \in {"NEW", "CANCEL", "MODIFY"}
  BY Zenon DEF Request, Message
<1>3. ASSUME NEW e \in Seen, e.action # "CANCEL"
      PROVE  /\ IdOf(e) \in DOMAIN id_to_token /\ IdOf(e) \in DOMAIN id_to_token'
             /\ id_to_token'[IdOf(e)].clientId = e.client
             /\ EntersIn(id_to_token', e, id_to_token'[IdOf(e)].token)
  <2>1. /\ IdOf(e) \in DOMAIN id_to_token /\ id_to_token[IdOf(e)].clientId = e.client
        /\ EntersIn(id_to_token, e, id_to_token[IdOf(e)].token)
    BY <1>3, Zenon DEF IdsInOrder, Enters, EntersIn
  <2>2. EntersIn(id_to_token', e, id_to_token[IdOf(e)].token)
    BY <2>1, EntersStays, ZenonT(60)
  <2> QED BY <2>1, <2>2, RegisteringKeeps, Zenon
<1>4. CASE m.action = "CANCEL"
  <2>1. UNCHANGED id_to_token
    BY <1>4, Zenon DEF DecodeMessage, RegisterTokens, tokenVars
  <2> QED BY <1>1, <1>3, <1>4, <2>1, ZenonT(60) DEF IdsInOrder, IdOf, Enters, EntersIn
<1>5. CASE m.action # "CANCEL"
  <2> DEFINE i == Len(id_to_token) + 1
  <2>1. PICK tok \in Tokens :
           /\ m.action = "NEW" => tok = m.token
           /\ DOMAIN id_to_token = 1 .. Len(id_to_token) /\ Len(id_to_token) \in Nat
           /\ DOMAIN id_to_token' = DOMAIN id_to_token \cup {i}
           /\ id_to_token'[i].clientId = reading.client /\ id_to_token'[i].token = tok
    BY <1>5, Registers, Zenon
  <2>2. IdOf(req) = i /\ req.action # "CANCEL"
    BY <1>1, <1>2, <1>5, Zenon DEF IdOf
  <2> HIDE DEF i
  <2>3. \A j \in DOMAIN id_to_token : j < i
    BY <2>1, SMTT(30), SMTT(60) DEF i
  <2>4. EntersIn(id_to_token', req, id_to_token'[i].token)
    BY <1>1, <1>2, <1>5, <2>1, ZenonT(60) DEF EntersIn, i
  <2>5. \A e \in Seen' : e.action # "CANCEL" =>
          /\ IdOf(e) \in DOMAIN id_to_token'
          /\ id_to_token'[IdOf(e)].clientId = e.client
          /\ EntersIn(id_to_token', e, id_to_token'[IdOf(e)].token)
    BY <1>1, <1>3, <2>1, <2>2, <2>4, ZenonT(60)
  <2>6. \A j \in DOMAIN id_to_token' : \E e \in Seen' : e.action # "CANCEL" /\ IdOf(e) = j
    BY <2>1, <2>2, Zenon DEF IdsInOrder
  <2>7. ASSUME NEW e \in Seen', NEW f \in Seen', e.action # "CANCEL", f.action # "CANCEL",
               e.n < f.n
        PROVE  IdOf(e) < IdOf(f)
    <3>1. CASE e \in Seen /\ f \in Seen
      BY <2>7, <3>1, Zenon DEF IdsInOrder
    <3>2. CASE e \in Seen /\ f = req
      BY <1>3, <2>2, <2>3, <2>7, <3>2, ZenonT(60)
    <3>3. CASE e = req
      BY <1>2, <2>7, <3>3
    <3> QED BY <3>1, <3>2, <3>3, ZenonT(60)
  <2> QED BY <2>5, <2>6, <2>7, ZenonT(60) DEF IdsInOrder, IdOf, Enters, EntersIn
<1> QED BY <1>4, <1>5, Zenon

(* token_to_id_ follows.                                                   *)
LEMMA DecodeFilesIds ==
  ASSUME GInv, LatestIds, NEW m \in Message, DecodeMessage(m)
  PROVE  LatestIds'
<1>1. CASE decodeOuch(m) = nil \/ m.action = "CANCEL"
  <2>1. UNCHANGED <<id_to_token, token_to_id>>
    BY <1>1, Zenon DEF DecodeMessage, RegisterTokens, tokenVars
  <2> QED BY <2>1, Zenon DEF LatestIds
<1>2. CASE decodeOuch(m) # nil /\ m.action # "CANCEL"
  <2> DEFINE i == Len(id_to_token) + 1
             c == reading.client
  <2>1. PICK tok \in Tokens :
           /\ DOMAIN id_to_token = 1 .. Len(id_to_token) /\ Len(id_to_token) \in Nat
           /\ DOMAIN id_to_token' = DOMAIN id_to_token \cup {i}
           /\ \A j \in DOMAIN id_to_token : id_to_token'[j] = id_to_token[j]
           /\ id_to_token'[i].clientId = c /\ id_to_token'[i].token = tok
           /\ token_to_id' = Assign(token_to_id, <<c, tok>>, i)
    BY <1>2, Registers, Zenon
  <2>2. c \in Nat
    BY ZenonT(60) DEF GInv, ReadingRegistered, RegisteredAs, DecodeMessage
  <2>3. i \in Nat /\ i \notin DOMAIN id_to_token /\ \A j \in DOMAIN id_to_token : j <= i
    BY <2>1
  <2> HIDE DEF i, c
  <2> DEFINE key == <<c, tok>>
  <2>4. key \in Nat \X Tokens /\ key[1] = c /\ key[2] = tok
    BY <2>2, Zenon
  <2>5. \A k \in Nat \X Tokens : k[1] = c /\ k[2] = tok => k = key
    OBVIOUS
  <2> HIDE DEF key
  <2>6. /\ DOMAIN token_to_id' = DOMAIN token_to_id \cup {key}
        /\ token_to_id'[key] = i
        /\ \A k \in DOMAIN token_to_id : k # key => token_to_id'[k] = token_to_id[k]
    BY <2>1, Zenon DEF Assign, key
  <2>7. ASSUME NEW k \in DOMAIN token_to_id'
        PROVE  /\ k \in Nat \X Tokens /\ token_to_id'[k] \in DOMAIN id_to_token'
               /\ id_to_token'[token_to_id'[k]].clientId = k[1]
               /\ id_to_token'[token_to_id'[k]].token = k[2]
               /\ \A j \in DOMAIN id_to_token' :
                    id_to_token'[j].clientId = k[1] /\ id_to_token'[j].token = k[2]
                    => j <= token_to_id'[k]
    <3>1. CASE k = key
      BY <2>1, <2>3, <2>4, <2>6, <3>1
    <3>2. CASE k # key
      <4>1. /\ k \in DOMAIN token_to_id /\ token_to_id'[k] = token_to_id[k]
        BY <2>6, <3>2, Zenon
      <4>2. /\ k \in Nat \X Tokens /\ token_to_id[k] \in DOMAIN id_to_token
            /\ id_to_token[token_to_id[k]].clientId = k[1]
            /\ id_to_token[token_to_id[k]].token = k[2]
            /\ \A j \in DOMAIN id_to_token :
                 id_to_token[j].clientId = k[1] /\ id_to_token[j].token = k[2]
                 => j <= token_to_id[k]
        BY <4>1, Zenon DEF LatestIds
      <4>3. ~(k[1] = c /\ k[2] = tok)
        BY <2>5, <3>2, <4>2, ZenonT(60)
      <4> QED BY <2>1, <4>1, <4>2, <4>3, Zenon
    <3> QED BY <3>1, <3>2, ZenonT(60)
  <2> QED BY <2>7, Zenon DEF LatestIds
<1> QED BY <1>1, <1>2, Zenon

(* What e is to r: an earlier request of its session that enters an order  *)
(* under the token r names.                                                *)
Mine(ids, r, e) ==
  e.session = r.session /\ e.n < r.n /\ EntersIn(ids, e, r.named)

(* r names the order of the last of these.                                 *)
Resolved(ids, seen, r) ==
  r.action # "NEW" =>
    \E e \in seen : /\ Mine(ids, r, e) /\ IdOf(e) = r.id
                    /\ \A f \in seen : Mine(ids, r, f) => f.n <= e.n

(* TokensResolve, request by request.                                      *)
LEMMA ResolvedEach ==
  /\ TokensResolve <=> \A r \in Seen : Resolved(id_to_token, Seen, r)
  /\ TokensResolve' <=> \A r \in Seen' : Resolved(id_to_token', Seen', r)
BY DEF TokensResolve, Resolved, Mine, EntersIn, Enters, IdOf

(* What was resolved stays so: later requests are none of an earlier one's *)
(* concern.                                                                *)
LEMMA StaysResolved ==
  ASSUME GInv, TokenInv, NEW m \in Message, DecodeMessage(m), NEW req \in Request,
         Seen' = Seen \cup {req}, \A x \in Seen : x.n \in Nat /\ x.n < req.n,
         NEW r \in Seen
  PROVE  Resolved(id_to_token', Seen', r)
<1>1. Resolved(id_to_token, Seen, r)
  BY ResolvedEach, Zenon DEF TokenInv, TokenSupport
<1>2. ASSUME NEW e \in Seen PROVE Mine(id_to_token', r, e) <=> Mine(id_to_token, r, e)
  BY EntersStays, Zenon DEF Mine, TokenInv, TokenSupport
<1>3. ~Mine(id_to_token', r, req)
  BY DEF Mine, Request
<1> QED BY <1>1, <1>2, <1>3, Zenon DEF Resolved, IdOf

(* A cancel or replace that getID finds an id for names the order that its *)
(* own session entered last under the token.                               *)
LEMMA NewlyResolved ==
  ASSUME GInv, TokenInv, NEW m \in Message, DecodeMessage(m),
         NEW req \in Request, req = decodeOuch(m), req # nil, Seen' = Seen \cup {req},
         \A x \in Seen : x.n \in Nat /\ x.n < req.n
  PROVE  Resolved(id_to_token', Seen', req)
<1> SUFFICES ASSUME req.action # "NEW" PROVE Resolved(id_to_token', Seen', req)
  BY Zenon DEF Resolved
<1> DEFINE c == reading.client
           s == reading.session
           t == m.token
           i == token_to_id[<<c, t>>]
<1>1. pc = "decode"
  BY ZenonT(60) DEF DecodeMessage
<1>2. /\ req.session = s /\ req.named = t /\ <<c, t>> \in DOMAIN token_to_id
      /\ req.id = i
  BY <1>1, DecodedRequest, SMTT(30), SMTT(60) DEF getID
<1>3. Identifies(c, s)
  BY <1>1, ClientsAre, Zenon DEF TokenInv, TokenSupport, ReaderKnown
<1>4. <<c, t>>[1] = c /\ <<c, t>>[2] = t
  BY Zenon
<1> DEFINE k == <<c, t>>
<1> HIDE DEF k
<1>5. /\ i \in DOMAIN id_to_token
      /\ id_to_token[i].clientId = c /\ id_to_token[i].token = t
      /\ \A j \in DOMAIN id_to_token :
           id_to_token[j].clientId = c /\ id_to_token[j].token = t => j <= i
  <2>1. k \in DOMAIN token_to_id /\ k[1] = c /\ k[2] = t /\ token_to_id[k] = i
    BY <1>2, <1>4, Zenon DEF k
  <2> HIDE DEF c, t, i
  <2> QED BY <2>1, Zenon DEF TokenInv, TokenSupport, LatestIds
<1> HIDE DEF c, s, t, i
<1>6. ASSUME NEW e \in Seen, e.action # "CANCEL"
      PROVE  /\ IdOf(e) \in DOMAIN id_to_token
             /\ id_to_token[IdOf(e)].clientId = e.client
             /\ EntersIn(id_to_token, e, id_to_token[IdOf(e)].token)
  BY <1>6, Zenon DEF TokenInv, TokenSupport, IdsInOrder, Enters, EntersIn
<1>7. PICK e \in Seen : e.action # "CANCEL" /\ IdOf(e) = i
  BY <1>5, Zenon DEF TokenInv, TokenSupport, IdsInOrder
<1>8. Mine(id_to_token', req, e)
  <2>1. e.client = c /\ EntersIn(id_to_token, e, t)
    BY <1>5, <1>6, <1>7, Zenon
  <2>2. e.session = s
    BY <1>3, <2>1, Zenon DEF Identifies
  <2>3. EntersIn(id_to_token', e, t)
    BY <2>1, EntersStays, ZenonT(60) DEF TokenInv, TokenSupport
  <2> QED BY <1>2, <2>2, <2>3, Zenon DEF Mine
<1>9. ASSUME NEW f \in Seen', Mine(id_to_token', req, f) PROVE f.n <= e.n
  <2>1. f \in Seen
    BY <1>9 DEF Mine, Request
  <2>2. f.session = s /\ EntersIn(id_to_token, f, t)
    BY <1>2, <1>9, <2>1, EntersStays, Zenon DEF Mine, TokenInv, TokenSupport
  <2>3. f.client = c /\ f.action # "CANCEL"
    BY <1>3, <2>1, <2>2, Zenon DEF Identifies, EntersIn
  <2>4. id_to_token[IdOf(f)].token = t
    BY <1>6, <2>1, <2>2, <2>3, Zenon DEF EntersIn, IdOf
  <2>5. IdOf(f) <= i
    BY <1>5, <1>6, <2>1, <2>3, <2>4, Zenon
  <2>6. e.n < f.n => i < IdOf(f)
    BY <1>7, <2>1, <2>3, Zenon DEF TokenInv, TokenSupport, IdsInOrder
  <2>7. i \in Nat /\ IdOf(f) \in Nat
    <3>1. DOMAIN id_to_token \subseteq Nat
      BY DEF GInv, TypeOK
    <3> QED BY <1>5, <1>6, <2>1, <2>3, <3>1, ZenonT(60)
  <2>8. e.n \in Nat /\ f.n \in Nat
    BY <1>7, <2>1, Zenon
  <2> QED BY <2>5, <2>6, <2>7, <2>8, SMTT(30), SMTT(60)
<1> QED BY <1>2, <1>7, <1>8, <1>9, Zenon DEF Resolved

(* Decoding keeps clients, ids and tokens in step.                         *)
LEMMA DecodeResolves ==
  ASSUME GInv, SequencerInv, TokenInv, NEW m \in Message, DecodeMessage(m)
  PROVE  TokenInv'
<1>1. CASE decodeOuch(m) = nil
  <2>1. PlacesKept /\ UNCHANGED <<pc, reading, tokenVars>>
    BY <1>1, NoRequest, Zenon
  <2>2. UNCHANGED <<clientVars, socket, accepted>>
    BY Zenon DEF DecodeMessage, socketVars
  <2> QED BY <2>1, <2>2, KeptPlaces, TokenStillSteps, Zenon
<1>2. CASE decodeOuch(m) # nil
  <2>1. PICK req : req = decodeOuch(m) /\ req # nil
    BY <1>2, Zenon
  <2>2. pc = "decode"
    BY Zenon DEF DecodeMessage
  <2>3. /\ req \in Request /\ req.session = reading.session
        /\ req.client = reading.client /\ req.n = received + 1
    BY <2>1, <2>2, DecodedRequest, Zenon
  <2>4. Seen' = Seen \cup {req}
    <3>1. GInv /\ HeldInOverflow /\ m \in Message /\ DecodeMessage(m)
      BY Zenon DEF SequencerInv, SequencerSupport
    <3>2. req \in Request /\ req = decodeOuch(m) /\ req # nil
      BY <2>1, <2>3, ZenonT(60)
    <3> QED BY ONLY <3>1, <3>2, DecodeMoves, Zenon
  <2>5. \A x \in Seen : x.n \in Nat /\ x.n < req.n
    <3>1. \A x \in Seen : x.n \in 1 .. received
      BY NumbersOfSeen, Zenon DEF SequencerInv, SequencerSupport
    <3>2. received \in Nat
      BY Zenon DEF GInv, TypeOK
    <3> QED BY <2>3, <3>1, <3>2
  <2>6. ClientsAreSessions'
    BY <2>3, <2>4, DecodeKnown, Zenon
  <2>7. IdsInOrder'
    BY <2>1, <2>3, <2>4, <2>5, DecodeGivesIds, ZenonT(60) DEF TokenInv, TokenSupport
  <2>8. LatestIds'
    BY DecodeFilesIds, Zenon DEF TokenInv, TokenSupport
  <2>9. \A r \in Seen : Resolved(id_to_token', Seen', r)
    BY <2>3, <2>4, <2>5, StaysResolved, Zenon
  <2>10. Resolved(id_to_token', Seen', req)
    BY <2>1, <2>3, <2>4, <2>5, NewlyResolved, ZenonT(60)
  <2>11. TokensResolve'
    BY <2>4, <2>9, <2>10, ResolvedEach, Zenon
  <2> QED BY <2>6, <2>7, <2>8, <2>11, Zenon DEF TokenInv, TokenSupport
<1> QED BY <1>1, <1>2, Zenon

(* Publishing moves requests; only decodeOuch makes one.                   *)
LEMMA PublishingResolves ==
  ASSUME GInv, SequencerInv, TokenInv,
         SortPending \/ PushPending \/ RoundFinished \/ AddHeld
  PROVE  TokenInv'
<1>1. Seen' = Seen
  <2> USE DEF SequencerInv, SequencerSupport
  <2>1. CASE SortPending
    BY <2>1, SortMoves, Zenon
  <2>2. CASE PushPending
    BY <2>2, PushMoves, Zenon
  <2>3. CASE AddHeld
    BY <2>3, AddHeldMoves, Zenon
  <2>4. CASE RoundFinished
    <3>1. PlacesKept
      BY <2>4, Zenon DEF RoundFinished, PlacesKept, Entered, fifoVars, queueVars
    <3> QED BY <3>1, KeptPlaces, Zenon
  <2> QED BY <2>1, <2>2, <2>3, <2>4, Zenon
<1>2. /\ UNCHANGED <<tokenVars, clientVars, socket, accepted, reading>>
      /\ pc' \in {"decode", "overflow"} => pc \in {"decode", "overflow"}
  BY Zenon DEF SortPending, PushPending, RoundFinished, AddHeld, socketVars
<1> QED BY <1>1, <1>2, TokenStillSteps, Zenon

(* The other steps move none.                                              *)
LEMMA OthersResolve ==
  ASSUME GInv, TokenInv,
         \/ DrainResponse \/ Drained \/ Retried \/ Polled \/ EndRecv \/ Received
         \/ EngineTakes
         \/ EngineAnswers
         \/ UNCHANGED vars
  PROVE  TokenInv'
<1>1. PlacesKept
  <2>1. CASE EngineTakes
    BY <2>1, TakingKeepsPlaces, Zenon
  <2>2. CASE ~EngineTakes
    BY <2>2, Zenon DEF PlacesKept, Entered, DrainResponse, Drained, Retried, Polled, EndRecv,
                Received, EngineAnswers, EngineResponds, vars, fifoVars, queueVars
  <2> QED BY <2>1, <2>2, Zenon
<1>2. /\ UNCHANGED <<tokenVars, clientVars, socket, accepted>>
      /\ pc' \in {"decode", "overflow"} =>
           pc \in {"decode", "overflow"} /\ reading' = reading
  BY Zenon DEF DrainResponse, Drained, Retried, Polled, EndRecv, Received, EngineTakes,
         EngineAnswers, EngineResponds, vars, socketVars
<1> QED BY <1>1, <1>2, KeptPlaces, TokenStillSteps, ZenonT(60)

(* Every reachable state of the gateway satisfies the tokens' invariant.   *)
LEMMA TokenInvariant == Spec => []TokenInv
<1>1. Init => TokenInv
  <2> SUFFICES ASSUME Init PROVE TokenInv
    BY Zenon
  <2>1. /\ pending_orders = <<>> /\ taken = <<>> /\ requestQ = <<>> /\ held = nil
        /\ pc = "drain" /\ id_to_token = <<>> /\ DOMAIN token_to_id = {}
        /\ DOMAIN socket = {}
    BY Zenon DEF Init, EmptyMap
  <2>2. Decoded = <<>>
    BY <2>1 DEF Entered, Decoded
  <2>3. Seen = {}
    BY <2>2 DEF Seen, Range
  <2>4. ClientsAreSessions
    BY <2>1, <2>3, ZenonT(60) DEF ClientsAreSessions
  <2>5. IdsInOrder /\ LatestIds
    BY <2>1, <2>3, SMTT(30), SMTT(60) DEF IdsInOrder, LatestIds
  <2>6. TokensResolve
    BY <2>3, Zenon DEF TokensResolve
  <2> QED BY <2>4, <2>5, <2>6, Zenon DEF TokenInv, TokenSupport
<1>2. GInv /\ SequencerInv /\ TokenInv /\ [Next]_vars => TokenInv'
  <2> SUFFICES ASSUME GInv, SequencerInv, TokenInv, [Next]_vars PROVE TokenInv'
    BY Zenon
  <2>1. ASSUME NEW s \in Sessions, NEW fd \in Fds, Accept(s, fd) PROVE TokenInv'
    <3>1. PlacesKept
      BY <2>1, Zenon DEF Accept, PlacesKept, Entered, fifoVars, queueVars
    <3> QED BY <2>1, <3>1, KeptPlaces, AcceptKnown, Zenon
  <2>2. ASSUME NEW fd \in ready, Disconnect(fd) PROVE TokenInv'
    <3>1. PlacesKept
      BY <2>2, Zenon DEF Disconnect, PlacesKept, Entered, fifoVars, queueVars
    <3> QED BY <2>2, <3>1, KeptPlaces, DisconnectKnown, ZenonT(60)
  <2>3. ASSUME NEW fd \in ready, NEW time \in 1 .. MaxTime, BeginRecv(fd, time)
        PROVE  TokenInv'
    <3>1. PlacesKept
      BY <2>3, Zenon DEF BeginRecv, PlacesKept, Entered, fifoVars, queueVars
    <3> QED BY <2>3, <3>1, KeptPlaces, BeginRecvKnown, Zenon
  <2>4. ASSUME NEW m \in Message, DecodeMessage(m) PROVE TokenInv'
    BY <2>4, DecodeResolves, Zenon
  <2> QED BY <2>1, <2>2, <2>3, <2>4, PublishingResolves, OthersResolve, ZenonT(60) DEF Next, Gateway, EngineAnswers
<1> QED BY <1>1, <1>2, GatewayInvariant, SequencerInvariant, PTL DEF Spec

(* registerNewToken gives ids in the order in which requests were decoded, *)
(* token_to_id_ keeps the latest id of a client's token, and a client id   *)
(* belongs to one session for good.                                        *)
THEOREM TokensStayLatest == Spec => []TokenSupport
<1>1. TokenInv => TokenSupport
  BY Zenon DEF TokenInv
<1> QED BY <1>1, TokenInvariant, PTL

(* A cancel or replace names the order its own session entered last under  *)
(* the token it gives, whoever else uses the token or inherits the         *)
(* descriptor (decodeOuch, getID, registerNewToken).                       *)
THEOREM CancelsNameOwnOrders == Spec => []TokensResolve
<1>1. TokenInv => TokensResolve
  BY Zenon DEF TokenInv, TokenSupport
<1> QED BY <1>1, TokenInvariant, PTL
=============================================================================
