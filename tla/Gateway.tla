------------------------------ MODULE Gateway ------------------------------
(***************************************************************************)
(* The gateway thread: src/src/network/gateway/order_server.h with its     *)
(* FIFO sequencer (fifo_process.h), its token manager (token_manager.h)    *)
(* and decodeOuch (src/src/network/protocol/ouch_processor.h).             *)
(*                                                                         *)
(* A session is one TCP connection from accept to close; its socket object *)
(* is named by the session and its descriptor may later be another's.  The *)
(* gateway goes round the loop of OrderServer::run.  pc tells where it is: *)
(*                                                                         *)
(*   "drain"     in drainResponses                                         *)
(*   "retry"     in the publishPendingOrders of run                        *)
(*   "poll"      in server_.poll, which accepts connections                *)
(*   "receive"   in server_.sendAndRecv, between two sockets               *)
(*   "decode"    in onRecv                                                 *)
(*   "overflow"  in the publishPendingOrders of onRecv                     *)
(*   "finish"    in onRecvFinished                                         *)
(*                                                                         *)
(* The engine is what the gateway sees of it: it takes requests from       *)
(* requestQ and pushes responses to any order it has taken to responseQ.   *)
(* A message that a session sends is made up when it is decoded; its       *)
(* number n says in which order the decoded ones were received.            *)
(***************************************************************************)
EXTENDS Integers, Sequences, Maps

CONSTANTS
  Sessions,         \* the TCP connections
  Fds,              \* the descriptors the system hands out
  Tokens,           \* the order tokens clients use
  TokenPoolSize,    \* tokenPoolSz
  MaxPending,       \* max_pending, the initial size of pending_orders_
  RequestQSize,     \* the capacity of requestQ
  ResponseQSize,    \* the capacity of responseQ
  StableSortLimit,  \* the longest range std::sort leaves to insertion sort
  MaxTime,          \* bound: receive timestamps are 1 .. MaxTime
  MaxMessages       \* bound: messages that are decoded

ASSUME GatewayAssumption ==
  /\ TokenPoolSize \in Nat /\ StableSortLimit \in Nat /\ MaxTime \in Nat
  /\ MaxPending \in Nat \ {0}
  /\ RequestQSize \in Nat \ {0} /\ ResponseQSize \in Nat \ {0}

VARIABLES
  socket,           \* the connected sockets of TCPServer: fd -> session
  accepted,         \* the sessions accepted so far
  lastTime,         \* session -> the timestamp of its last read
  pc,               \* where the gateway thread is
  ready,            \* the descriptors epoll has still to report this round
  reading,          \* the arguments of onRecv, when in it
  held,             \* the request onRecv has to add to pending_orders_
  fdToClientId,     \* fdToClientId_
  clientToSocket,   \* clientToSocket_
  nextClientId,     \* nextClientId_
  id_to_token,      \* id_to_token_
  token_to_id,      \* token_to_id_, keyed by <<client, token>>
  pending_orders,   \* pending_orders_ up to pending_size_
  pending_capacity, \* pending_orders_.size()
  pending_sorted,   \* pending_sorted_
  requestQ,
  responseQ,
  taken,            \* history: the requests the engine has taken, in order
  received,         \* history: the number of requests decodeOuch has made
  sent,             \* history: <<session, id>> of the response this drain sent last
  round,            \* history: the current epoll round, of those with requests
  overflowed,       \* history: rounds published before their end
  unstable          \* history: has std::sort sorted a range beyond its limit?

socketVars == <<socket, accepted, lastTime>>
clientVars == <<fdToClientId, clientToSocket, nextClientId>>
tokenVars  == <<id_to_token, token_to_id>>
fifoVars   == <<pending_orders, pending_capacity, pending_sorted>>
queueVars  == <<requestQ, responseQ, taken>>
history    == <<received, sent, round, overflowed, unstable>>

vars == <<pc, ready, reading, held, socketVars, clientVars, tokenVars,
          fifoVars, queueVars, history>>

nil == <<>>

Init ==
  /\ socket = EmptyMap /\ accepted = {} /\ lastTime = [s \in Sessions |-> 0]
  /\ pc = "drain" /\ ready = {} /\ reading = nil /\ held = nil
  /\ fdToClientId = EmptyMap /\ clientToSocket = EmptyMap /\ nextClientId = 1
  /\ id_to_token = <<>> /\ token_to_id = EmptyMap
  /\ pending_orders = <<>> /\ pending_capacity = MaxPending
  /\ pending_sorted = TRUE
  /\ requestQ = <<>> /\ responseQ = <<>> /\ taken = <<>>
  /\ received = 0 /\ sent = nil /\ round = 1 /\ overflowed = {} /\ unstable = FALSE

(* Every request that came out of decodeOuch, wherever it is now; those in *)
(* requestQ or beyond, in the order they entered it.                       *)
Entered == taken \o requestQ
Decoded == Entered \o pending_orders \o (IF held = nil THEN <<>> ELSE <<held>>)

-----------------------------------------------------------------------------
(* OrderTokenManager.                                                      *)

(* registerNewToken, when the pool is not used up: the next id takes the   *)
(* token, and the client's token names it from now on.                     *)

registerNewToken_Emplace(c, token, s) ==
  /\ id_to_token' = Append(id_to_token, [token |-> token, clientId |-> c, session |-> s])
  /\ token_to_id' = IF <<c, token>> \in DOMAIN token_to_id THEN token_to_id
                    ELSE Assign(token_to_id, <<c, token>>, Len(id_to_token) + 1)

registerNewToken(c, token, s) ==
  /\ id_to_token' = Append(id_to_token, [token |-> token, clientId |-> c, session |-> s])
  /\ token_to_id' = Assign(token_to_id, <<c, token>>, Len(id_to_token) + 1)

PoolUsedUp == Len(id_to_token) >= TokenPoolSize

(* getID; 0 when the client has no such token.                             *)
getID(c, token) ==
  IF <<c, token>> \in DOMAIN token_to_id THEN token_to_id[<<c, token>>] ELSE 0

-----------------------------------------------------------------------------
(* decodeOuch.                                                             *)

Message ==
  [action : {"NEW", "CANCEL"}, token : Tokens]
    \cup [action : {"MODIFY"}, token : Tokens, replacement : Tokens]

(* The request made of a message of the session being read, or nil where   *)
(* decodeOuch returns false.  The token the message named, the session,    *)
(* the round and the number are history.                                   *)

decodeOuch_LastClient(m) ==
  LET newId == Len(id_to_token) + 1
      id == IF m.action = "NEW" THEN newId ELSE getID(reading.client, m.token)
  IN  IF id = 0 \/ (m.action # "CANCEL" /\ PoolUsedUp) THEN nil
      ELSE [action |-> m.action, named |-> m.token, id |-> id,
            newId |-> IF m.action = "MODIFY" THEN newId ELSE 0,
            client |-> nextClientId - 1, time |-> reading.time,
            session |-> reading.session, round |-> round, n |-> received + 1]

decodeOuch(m) ==
  LET newId == Len(id_to_token) + 1
      id == IF m.action = "NEW" THEN newId ELSE getID(reading.client, m.token)
  IN  IF id = 0 \/ (m.action # "CANCEL" /\ PoolUsedUp) THEN nil
      ELSE [action |-> m.action, named |-> m.token, id |-> id,
            newId |-> IF m.action = "MODIFY" THEN newId ELSE 0,
            client |-> reading.client, time |-> reading.time,
            session |-> reading.session, round |-> round, n |-> received + 1]

(* The token it registers on the way: a replacement's before the engine    *)
(* has seen the request.                                                   *)
RegisterTokens(m, req) ==
  IF req = nil \/ m.action = "CANCEL" THEN UNCHANGED tokenVars
  ELSE registerNewToken(reading.client,
                        IF m.action = "NEW" THEN m.token ELSE m.replacement,
                        reading.session)

-----------------------------------------------------------------------------
(* FifoNdProcess.                                                          *)

(* addToPending, when there is room.                                       *)

addToPending_KeepsSorted(req) ==
  /\ pending_orders' = Append(pending_orders, req)
  /\ UNCHANGED pending_sorted

addToPending(req) ==
  /\ pending_orders' = Append(pending_orders, req)
  /\ pending_sorted' = FALSE

PendingFull == Len(pending_orders) >= pending_capacity

(* The results std::sort may give: any order by timestamp, and up to the   *)
(* limit, where libstdc++ sorts by insertion, the stable one.              *)
SortedBy(s, f) ==
  \A i, j \in DOMAIN s :
    i < j => \/ s[f[i]].time < s[f[j]].time
             \/ /\ s[f[i]].time = s[f[j]].time
                /\ f[i] < f[j] \/ Len(s) > StableSortLimit

Sorts(s) ==
  {[i \in DOMAIN s |-> s[f[i]]] :
     f \in {g \in Bijection(DOMAIN s, DOMAIN s) : SortedBy(s, g)}}

(* publishPendingOrders, called from three places: it sorts if it must,    *)
(* then pushes until nothing is left or a push fails.  The engine may take *)
(* requests meanwhile.                                                     *)
Publishing == pc \in {"retry", "overflow", "finish"}

SortPending ==
  /\ Publishing
  /\ pending_orders # <<>> /\ ~pending_sorted
  /\ pending_orders' \in Sorts(pending_orders)
  /\ pending_sorted' = TRUE
  /\ unstable' = (unstable \/ Len(pending_orders) > StableSortLimit)
  /\ UNCHANGED <<pc, ready, reading, held, socketVars, clientVars, tokenVars,
                 pending_capacity, queueVars, received, sent, round,
                 overflowed>>

PushPending ==
  /\ Publishing
  /\ pending_orders # <<>> /\ pending_sorted
  /\ Len(requestQ) < RequestQSize
  /\ requestQ' = Append(requestQ, Head(pending_orders))
  /\ pending_orders' = Tail(pending_orders)
  /\ overflowed' = IF pc = "overflow" THEN overflowed \cup {Head(pending_orders).round}
                   ELSE overflowed
  /\ UNCHANGED <<pc, ready, reading, held, socketVars, clientVars, tokenVars,
                 pending_capacity, pending_sorted, responseQ, taken, received,
                 sent, round, unstable>>

(* publishPendingOrders returns.                                           *)
Published ==
  pending_orders = <<>> \/ (pending_sorted /\ Len(requestQ) = RequestQSize)

Retried ==
  /\ pc = "retry" /\ Published
  /\ pc' = "poll"
  /\ UNCHANGED <<ready, reading, held, socketVars, clientVars, tokenVars,
                 fifoVars, queueVars, history>>

(* onRecvFinished returns and run starts over.                             *)
RoundFinished ==
  /\ pc = "finish" /\ Published
  /\ pc' = "drain"
  /\ round' = IF \E r \in Range(Decoded) : r.round = round THEN round + 1
              ELSE round
  /\ UNCHANGED <<ready, reading, held, socketVars, clientVars, tokenVars,
                 fifoVars, queueVars, received, sent, overflowed, unstable>>

(* Back in onRecv: the held request is added, to a buffer that is grown if *)
(* publishing made no room.                                                *)

AddHeld_DropsWhenFull ==
  /\ pc = "overflow" /\ Published
  /\ IF PendingFull THEN UNCHANGED <<pending_orders, pending_sorted>>
     ELSE addToPending(held)
  /\ held' = nil
  /\ pc' = "decode"
  /\ UNCHANGED <<ready, reading, socketVars, clientVars, tokenVars, queueVars,
                 history, pending_capacity>>

AddHeld_InFront ==
  /\ pc = "overflow" /\ Published
  /\ pending_orders' = <<held>> \o pending_orders
  /\ pending_sorted' = FALSE
  /\ pending_capacity' = IF PendingFull THEN 2 * pending_capacity
                         ELSE pending_capacity
  /\ held' = nil
  /\ pc' = "decode"
  /\ UNCHANGED <<ready, reading, socketVars, clientVars, tokenVars, queueVars,
                 history>>

AddHeld ==
  /\ pc = "overflow" /\ Published
  /\ addToPending(held)
  /\ pending_capacity' = IF PendingFull THEN 2 * pending_capacity
                         ELSE pending_capacity
  /\ held' = nil
  /\ pc' = "decode"
  /\ UNCHANGED <<ready, reading, socketVars, clientVars, tokenVars, queueVars,
                 history>>

-----------------------------------------------------------------------------
(* OrderServer.                                                            *)

(* An iteration of drainResponses: the response goes to the socket of its  *)
(* client, or is dropped when the client has none.                         *)
DrainResponse ==
  LET c == Head(responseQ).client
  IN  /\ pc = "drain" /\ responseQ # <<>>
      /\ responseQ' = Tail(responseQ)
      /\ sent' = IF c \in DOMAIN clientToSocket
                 THEN <<clientToSocket[c], Head(responseQ).id>> ELSE nil
      /\ UNCHANGED <<pc, ready, reading, held, socketVars, clientVars, tokenVars,
                     fifoVars, requestQ, taken, received, round, overflowed,
                     unstable>>

Drained ==
  /\ pc = "drain" /\ responseQ = <<>>
  /\ pc' = "retry"
  /\ sent' = nil
  /\ UNCHANGED <<ready, reading, held, socketVars, clientVars, tokenVars,
                 fifoVars, queueVars, received, round, overflowed, unstable>>

(* TCPServer::poll accepts a connection on a free descriptor, and epoll    *)
(* reports any of the connected sockets, in any order.                     *)
Accept(s, fd) ==
  /\ pc = "poll"
  /\ s \notin accepted /\ fd \notin DOMAIN socket
  /\ socket' = Assign(socket, fd, s)
  /\ accepted' = accepted \cup {s}
  /\ UNCHANGED <<pc, ready, reading, held, lastTime, clientVars, tokenVars,
                 fifoVars, queueVars, history>>

Polled ==
  /\ pc = "poll"
  /\ pc' = "receive"
  /\ ready' \in SUBSET DOMAIN socket
  /\ UNCHANGED <<reading, held, socketVars, clientVars, tokenVars, fifoVars,
                 queueVars, history>>

(* registerClient.                                                         *)
registerClient(fd, s) ==
  /\ fdToClientId' = Assign(fdToClientId, fd, nextClientId)
  /\ clientToSocket' = Assign(clientToSocket, nextClientId, s)
  /\ nextClientId' = nextClientId + 1

(* onRecv begins.  What is read carries one timestamp, later than that of  *)
(* what the session sent before.                                           *)
BeginRecv(fd, time) ==
  /\ pc = "receive" /\ fd \in ready
  /\ time > lastTime[socket[fd]]
  /\ IF fd \in DOMAIN fdToClientId THEN UNCHANGED clientVars
     ELSE registerClient(fd, socket[fd])
  /\ reading' = [session |-> socket[fd], client |-> fdToClientId'[fd], time |-> time]
  /\ lastTime' = [lastTime EXCEPT ![socket[fd]] = time]
  /\ ready' = ready \ {fd}
  /\ pc' = "decode"
  /\ UNCHANGED <<held, socket, accepted, tokenVars, fifoVars, queueVars, history>>

(* An iteration of the loop of onRecv over the messages.                   *)
DecodeMessage(m) ==
  LET req == decodeOuch(m)
  IN  /\ pc = "decode" /\ received < MaxMessages
      /\ RegisterTokens(m, req)
      /\ received' = IF req = nil THEN received ELSE received + 1
      /\ \/ /\ req = nil
            /\ UNCHANGED <<pc, held, pending_orders, pending_sorted>>
         \/ /\ req # nil /\ ~PendingFull
            /\ addToPending(req)
            /\ UNCHANGED <<pc, held>>
         \/ /\ req # nil /\ PendingFull
            /\ held' = req
            /\ pc' = "overflow"
            /\ UNCHANGED <<pending_orders, pending_sorted>>
      /\ UNCHANGED <<ready, reading, socketVars, clientVars, pending_capacity,
                     queueVars, sent, round, overflowed, unstable>>

EndRecv ==
  /\ pc = "decode"
  /\ reading' = nil
  /\ pc' = "receive"
  /\ UNCHANGED <<ready, held, socketVars, clientVars, tokenVars, fifoVars,
                 queueVars, history>>

(* onDisconnect: the peer has closed; the descriptor becomes free.         *)

onDisconnect_KeepsSocket(fd) ==
  /\ fdToClientId' = Erase(fdToClientId, fd)
  /\ UNCHANGED <<clientToSocket, nextClientId>>

onDisconnect(fd) ==
  IF fd \notin DOMAIN fdToClientId THEN UNCHANGED clientVars
  ELSE /\ clientToSocket' = Erase(clientToSocket, fdToClientId[fd])
       /\ fdToClientId' = Erase(fdToClientId, fd)
       /\ UNCHANGED nextClientId

Disconnect(fd) ==
  /\ pc = "receive" /\ fd \in ready
  /\ onDisconnect(fd)
  /\ socket' = Erase(socket, fd)
  /\ ready' = ready \ {fd}
  /\ UNCHANGED <<pc, reading, held, accepted, lastTime, tokenVars, fifoVars,
                 queueVars, history>>

Received ==
  /\ pc = "receive" /\ ready = {}
  /\ pc' = "finish"
  /\ UNCHANGED <<ready, reading, held, socketVars, clientVars, tokenVars,
                 fifoVars, queueVars, history>>

-----------------------------------------------------------------------------
(* The engine.                                                             *)

EngineTakes ==
  /\ requestQ # <<>>
  /\ taken' = Append(taken, Head(requestQ))
  /\ requestQ' = Tail(requestQ)
  /\ UNCHANGED <<pc, ready, reading, held, socketVars, clientVars, tokenVars,
                 fifoVars, responseQ, history>>

(* The orders a request's responses name: the one it names, and, once a    *)
(* replace has taken effect, the one it enters instead.                    *)
OrdersOf(r) == {r.id} \cup {i \in {r.newId} : r.action = "MODIFY"}

(* A response to a request, or a later fill of an order it entered.        *)
EngineResponds(r, id) ==
  /\ Len(responseQ) < ResponseQSize
  /\ responseQ' = Append(responseQ, [client |-> r.client, id |-> id])
  /\ UNCHANGED <<pc, ready, reading, held, socketVars, clientVars, tokenVars,
                 fifoVars, requestQ, taken, history>>

-----------------------------------------------------------------------------
Gateway ==
  \/ DrainResponse \/ Drained
  \/ SortPending \/ PushPending
  \/ Retried \/ RoundFinished \/ AddHeld
  \/ \E s \in Sessions, fd \in Fds : Accept(s, fd)
  \/ Polled
  \/ \E fd \in ready : \E time \in 1 .. MaxTime : BeginRecv(fd, time)
  \/ \E m \in Message : DecodeMessage(m)
  \/ EndRecv
  \/ \E fd \in ready : Disconnect(fd)
  \/ Received

Next ==
  \/ Gateway
  \/ EngineTakes
  \/ \E r \in Range(taken) : \E id \in OrdersOf(r) : EngineResponds(r, id)

Spec == Init /\ [][Next]_vars

-----------------------------------------------------------------------------
(* Properties.                                                             *)

(* A request is never lost and never entered twice, whether pending_orders *)
(* overflows, grows or waits for room in requestQ (addToPending,           *)
(* publishPendingOrders, growPending and the retries in onRecv and run).   *)
NothingLost ==
  /\ Len(Decoded) = received
  /\ {Decoded[i].n : i \in DOMAIN Decoded} = 1 .. received

Seen == Range(Decoded)

(* The request e enters an order under the given token, with this id.      *)
Enters(e, token) ==
  \/ e.action = "NEW" /\ e.named = token
  \/ e.action = "MODIFY" /\ id_to_token[e.newId].token = token
IdOf(e) == IF e.action = "NEW" THEN e.id ELSE e.newId

(* A cancel or replace names the order its own session last entered under  *)
(* the token it gives, also when tokens are reused, when another session   *)
(* uses the same token, and when a descriptor passes to another session.   *)
TokensResolve ==
  \A r \in Seen :
    LET mine == {e \in Seen : /\ e.session = r.session /\ e.n < r.n
                              /\ Enters(e, r.named)}
    IN  r.action # "NEW" =>
          \E e \in mine : IdOf(e) = r.id /\ \A f \in mine : f.n <= e.n

(* A response is sent to the session that entered the order, or to nobody: *)
(* never to a session that got the descriptor or looks like its successor  *)
(* (registerClient, onDisconnect, drainResponses).                         *)
ResponsesReachOwner ==
  sent # nil => id_to_token[sent[2]].session = sent[1]

(* clientToSocket_ holds no pointer to a socket that is gone, and the two  *)
(* maps agree (registerClient, onDisconnect).                              *)
SocketsOpen ==
  \A c \in DOMAIN clientToSocket :
    \E fd \in DOMAIN socket : /\ socket[fd] = clientToSocket[c]
                              /\ fd \in DOMAIN fdToClientId
                              /\ fdToClientId[fd] = c

(* Requests received in one epoll round enter requestQ in the order of     *)
(* their timestamps, whatever the order of the sockets and whatever was    *)
(* retained before, unless the buffer overflowed and was published in the  *)
(* middle of the round (README, "FIFO sequencing").                        *)
RoundSorted ==
  LET q == Entered
  IN  \A i, j \in DOMAIN q :
        i < j /\ q[i].round = q[j].round /\ q[i].time > q[j].time
        => q[i].round \in overflowed

(* A session's requests enter requestQ in the order they were sent, except *)
(* that std::sort may exchange requests of one read, which carry the same  *)
(* timestamp, in a range too long for insertion sort.                      *)
ClientFifo ==
  LET q == Entered
  IN  \A i, j \in DOMAIN q :
        i < j /\ q[i].session = q[j].session /\ q[i].n > q[j].n
        => unstable /\ q[i].time = q[j].time

-----------------------------------------------------------------------------
(* Why: the invariants behind these properties.                            *)

Past == Range(Entered)
Waiting == Range(pending_orders) \cup (IF held = nil THEN {} ELSE {held})

(* x may enter requestQ before y.                                          *)
MayPrecede(x, y) ==
  /\ x.session = y.session /\ x.n > y.n => unstable /\ x.time = y.time
  /\ x.round = y.round /\ x.time > y.time => x.round \in overflowed

(* A request is stamped with its read's time and its round: a session's    *)
(* times follow the order of its requests, and no round begins before the  *)
(* last one with requests has ended.                                       *)
StampsFollow ==
  /\ \A x \in Seen : x.time <= lastTime[x.session] /\ x.round <= round
  /\ \A x, y \in Seen : x.session = y.session /\ x.n < y.n => x.time <= y.time
  /\ lastTime \in [Sessions -> Nat]
  /\ pc \in {"decode", "overflow"} => reading.time = lastTime[reading.session]
  /\ pc \in {"drain", "retry", "poll"} => \A x \in Seen : x.round # round

(* pending_sorted_ means what it says, and a sort that was stable so far   *)
(* has left the requests of one read in their order.                       *)
PendingInOrder ==
  \A i, j \in DOMAIN pending_orders :
    LET x == pending_orders[i]
        y == pending_orders[j]
    IN  i < j => /\ pending_sorted => x.time <= y.time
                 /\ x.session = y.session /\ x.time = y.time /\ x.n > y.n => unstable

(* What has entered requestQ may precede what waits, and requests of this  *)
(* round are there before its end only by an overflow.                     *)
EnteredFirst ==
  /\ \A x \in Past, y \in Waiting : MayPrecede(x, y)
  /\ pc # "finish" => \A x \in Past : x.round = round => round \in overflowed

(* onRecv holds a request just while it publishes to make room for it.     *)
HeldInOverflow == (held # nil) <=> (pc = "overflow")

(* It is the last that was decoded.                                        *)
HeldIsLast == held # nil => \A x \in Range(pending_orders) : x.n < held.n

(* Together with the properties these are inductive, given where responses *)
(* go: see GatewayProofs.                                                  *)
SequencerSupport ==
  /\ HeldInOverflow /\ HeldIsLast
  /\ StampsFollow /\ PendingInOrder /\ EnteredFirst

(* The client c is the session s, and no other: of all requests, those of  *)
(* the client are those of the session.                                    *)
Identifies(c, s) == \A e \in Seen : (e.client = c) <=> (e.session = s)

(* A session has one client id for good, which no other session has had.   *)
ClientsAreSessions ==
  /\ \A e \in Seen : e.session \in accepted /\ e.client < nextClientId
                     /\ Identifies(e.client, e.session)
  /\ \A fd \in DOMAIN socket :
       IF fd \in DOMAIN fdToClientId THEN Identifies(fdToClientId[fd], socket[fd])
       ELSE \A e \in Seen : e.session # socket[fd]
  /\ pc \in {"decode", "overflow"} =>
       /\ reading.session \in accepted /\ reading.client < nextClientId
       /\ Identifies(reading.client, reading.session)
       /\ \A fd \in DOMAIN socket :
            IF fd \in DOMAIN fdToClientId
            THEN (fdToClientId[fd] = reading.client) <=> (socket[fd] = reading.session)
            ELSE socket[fd] # reading.session

(* Ids are given in the order of the requests that enter orders.           *)
IdsInOrder ==
  /\ \A e \in Seen : e.action # "CANCEL" =>
       /\ IdOf(e) \in DOMAIN id_to_token
       /\ id_to_token[IdOf(e)].clientId = e.client
       /\ Enters(e, id_to_token[IdOf(e)].token)
  /\ \A i \in DOMAIN id_to_token : \E e \in Seen : e.action # "CANCEL" /\ IdOf(e) = i
  /\ \A e, f \in Seen : e.action # "CANCEL" /\ f.action # "CANCEL" /\ e.n < f.n
                        => IdOf(e) < IdOf(f)

(* token_to_id_ holds the last id that the client gave the token.          *)
LatestIds ==
  \A k \in DOMAIN token_to_id :
    /\ k \in Nat \X Tokens /\ token_to_id[k] \in DOMAIN id_to_token
    /\ id_to_token[token_to_id[k]].clientId = k[1]
    /\ id_to_token[token_to_id[k]].token = k[2]
    /\ \A i \in DOMAIN id_to_token :
         id_to_token[i].clientId = k[1] /\ id_to_token[i].token = k[2]
         => i <= token_to_id[k]

TokenSupport == ClientsAreSessions /\ IdsInOrder /\ LatestIds
=============================================================================
