------------------------------ MODULE Pipeline ------------------------------
(***************************************************************************)
(* The threads of the exchange and the bounded queues that tie them        *)
(* together: main (src/src/main.cpp), the gateway's loop                   *)
(* (src/src/network/gateway/order_server.h), the engine's loop             *)
(* (src/src/engine/matching_engine.cpp) and the publisher's                *)
(* (src/src/network/market/marketdata_publisher.h).                        *)
(*                                                                         *)
(*    gateway --requestQ--> engine --marketUpdateQ--> publisher            *)
(*       ^------responseQ------'                                           *)
(*                                                                         *)
(* The gateway pushes a request only if there is room and keeps it         *)
(* otherwise; the engine waits for room in the queues it pushes to.  Here  *)
(* a request is its number, with its timestamp until it is pushed, and so  *)
(* is a response or an update it causes; what the book makes of a request  *)
(* is a sequence of outputs, of "response"s and "update"s.                 *)
(*                                                                         *)
(* run_ of each component is a matter of how far main is.                  *)
(***************************************************************************)
EXTENDS Naturals, Sequences, Functions

CONSTANTS
  Outputs,          \* the output sequences a request may cause
  RequestQSize,     \* the capacity of requestQ
  ResponseQSize,    \* the capacity of responseQ
  MarketQSize,      \* the capacity of marketUpdateQ
  MaxPending,       \* max_pending, the initial size of pending_orders_
  MaxTime,          \* bound: receive timestamps are 1 .. MaxTime
  MaxRequests       \* bound: requests that are received

ASSUME PipelineAssumption ==
  /\ RequestQSize \in Nat \ {0} /\ ResponseQSize \in Nat \ {0}
  /\ MarketQSize \in Nat \ {0} /\ MaxPending \in Nat \ {0} /\ MaxTime \in Nat
  /\ \A o \in Outputs : o \in Seq({"response", "update"})

VARIABLES
  main,           \* what main does or waits for
  gateway,        \* where the gateway thread is
  received,       \* how many requests have been received
  pending,        \* pending_orders_ of the sequencer, up to pending_size_
  capacity,       \* pending_orders_.size()
  sorted,         \* pending_sorted_
  held,           \* the request onRecv has to add to pending_orders_
  requestQ,
  engine,         \* where the engine thread is
  outputs,        \* the outputs the engine has yet to push for its request
  responseQ,
  marketUpdateQ,
  publisher,      \* where the publisher thread is
  answered,       \* history: the requests whose client has been sent a response
  processed       \* history: the requests the engine has done

fifoVars == <<pending, capacity, sorted>>
gatewayVars == <<gateway, received, fifoVars, held, answered>>
engineVars == <<engine, outputs, processed>>
queueVars == <<requestQ, responseQ, marketUpdateQ>>
vars == <<main, gatewayVars, engineVars, queueVars, publisher>>

(* No request is held.                                                     *)
nil == [number |-> 0, time |-> 0]

Init ==
  /\ main = "startPublisher"
  /\ gateway = "unstarted" /\ engine = "unstarted" /\ publisher = "unstarted"
  /\ received = 0 /\ answered = {} /\ processed = {}
  /\ pending = <<>> /\ capacity = MaxPending /\ sorted = TRUE /\ held = nil
  /\ outputs = <<>>
  /\ requestQ = <<>> /\ responseQ = <<>> /\ marketUpdateQ = <<>>

Stopping == main \in {"joinGateway", "joinEngine", "joinPublisher", "stopped"}

-----------------------------------------------------------------------------
(* OrderServer::run.                                                       *)

(* The head of the loop.                                                   *)
GatewayHead ==
  /\ gateway = "head"
  /\ gateway' = IF Stopping THEN "exited" ELSE "drain"
  /\ UNCHANGED <<main, received, fifoVars, held, answered, engineVars, queueVars,
                 publisher>>

(* drainResponses.                                                         *)
DrainResponse ==
  /\ gateway = "drain" /\ responseQ # <<>>
  /\ answered' = answered \cup {Head(responseQ)}
  /\ responseQ' = Tail(responseQ)
  /\ UNCHANGED <<main, gateway, received, fifoVars, held, engineVars, requestQ,
                 marketUpdateQ, publisher>>

ResponsesDrained ==
  /\ gateway = "drain" /\ responseQ = <<>>
  /\ gateway' = "retry"
  /\ UNCHANGED <<main, received, fifoVars, held, answered, engineVars, queueVars,
                 publisher>>

(* publishPendingOrders: in run, in onRecv when pending_orders_ is full,   *)
(* and in onRecvFinished.                                                  *)
Publishing == gateway \in {"retry", "overflow", "finish"}

(* The results std::sort may give: any order by timestamp.                 *)
Sorts(s) ==
  {[i \in DOMAIN s |-> s[f[i]]] :
     f \in {g \in Bijection(DOMAIN s, DOMAIN s) :
              \A i, j \in DOMAIN s : i < j => s[g[i]].time <= s[g[j]].time}}

SortPending ==
  /\ Publishing
  /\ pending # <<>> /\ ~sorted
  /\ pending' \in Sorts(pending)
  /\ sorted' = TRUE
  /\ UNCHANGED <<main, gateway, received, capacity, held, answered, engineVars,
                 queueVars, publisher>>

PublishPending_DropsWhenFull ==
  /\ Publishing
  /\ pending # <<>> /\ sorted
  /\ requestQ' = IF Len(requestQ) < RequestQSize
                 THEN Append(requestQ, Head(pending).number) ELSE requestQ
  /\ pending' = Tail(pending)
  /\ UNCHANGED <<main, gateway, received, capacity, sorted, held, answered,
                 engineVars, responseQ, marketUpdateQ, publisher>>

PublishPending ==
  /\ Publishing
  /\ pending # <<>> /\ sorted
  /\ Len(requestQ) < RequestQSize
  /\ requestQ' = Append(requestQ, Head(pending).number)
  /\ pending' = Tail(pending)
  /\ UNCHANGED <<main, gateway, received, capacity, sorted, held, answered,
                 engineVars, responseQ, marketUpdateQ, publisher>>

(* It returns: nothing is left, or a push failed.                          *)

Published_Blocking == pending = <<>>

Published == pending = <<>> \/ (sorted /\ Len(requestQ) = RequestQSize)

PublishEnds ==
  /\ gateway \in {"retry", "finish"} /\ Published
  /\ gateway' = IF gateway = "retry" THEN "receive" ELSE "head"
  /\ UNCHANGED <<main, received, fifoVars, held, answered, engineVars, queueVars,
                 publisher>>

(* server_.sendAndRecv: any number of requests are received, and onRecv    *)
(* adds each to pending_orders_.                                           *)
PendingFull == Len(pending) >= capacity

Receive(time) ==
  LET request == [number |-> received + 1, time |-> time]
  IN  /\ gateway = "receive" /\ received < MaxRequests
      /\ received' = received + 1
      /\ \/ /\ ~PendingFull
            /\ pending' = Append(pending, request)
            /\ sorted' = FALSE
            /\ UNCHANGED <<gateway, held>>
         \/ /\ PendingFull
            /\ held' = request
            /\ gateway' = "overflow"
            /\ UNCHANGED <<pending, sorted>>
      /\ UNCHANGED <<main, capacity, answered, engineVars, queueVars, publisher>>

(* The second try, after growPending if publishing made no room.           *)
AddHeld ==
  /\ gateway = "overflow" /\ Published
  /\ pending' = Append(pending, held)
  /\ sorted' = FALSE
  /\ capacity' = IF PendingFull THEN 2 * capacity ELSE capacity
  /\ held' = nil
  /\ gateway' = "receive"
  /\ UNCHANGED <<main, received, answered, engineVars, queueVars, publisher>>

ReceiveEnds ==
  /\ gateway = "receive"
  /\ gateway' = "finish"
  /\ UNCHANGED <<main, received, fifoVars, held, answered, engineVars, queueVars,
                 publisher>>

Gateway ==
  \/ GatewayHead \/ DrainResponse \/ ResponsesDrained
  \/ SortPending \/ PublishPending \/ PublishEnds
  \/ \E time \in 1 .. MaxTime : Receive(time)
  \/ AddHeld \/ ReceiveEnds

-----------------------------------------------------------------------------
(* MatchingEngine::run.                                                    *)

(* getNextRead finds a request; it stays in the queue while it is worked   *)
(* on.                                                                     *)
EngineReads(o) ==
  /\ engine = "head"
  /\ main \notin {"joinEngine", "joinPublisher", "stopped"}
  /\ requestQ # <<>>
  /\ outputs' = o
  /\ engine' = "process"
  /\ UNCHANGED <<main, gatewayVars, processed, queueVars, publisher>>

(* sendClientResponse and sendMarketUpdate wait for room.                  *)
SendResponse ==
  /\ engine = "process" /\ outputs # <<>> /\ Head(outputs) = "response"
  /\ Len(responseQ) < ResponseQSize
  /\ responseQ' = Append(responseQ, Head(requestQ))
  /\ outputs' = Tail(outputs)
  /\ UNCHANGED <<main, gatewayVars, engine, processed, requestQ, marketUpdateQ,
                 publisher>>

SendUpdate ==
  /\ engine = "process" /\ outputs # <<>> /\ Head(outputs) = "update"
  /\ Len(marketUpdateQ) < MarketQSize
  /\ marketUpdateQ' = Append(marketUpdateQ, Head(requestQ))
  /\ outputs' = Tail(outputs)
  /\ UNCHANGED <<main, gatewayVars, engine, processed, requestQ, responseQ,
                 publisher>>

(* updateNextRead.                                                         *)
EngineDone ==
  /\ engine = "process" /\ outputs = <<>>
  /\ requestQ' = Tail(requestQ)
  /\ processed' = processed \cup {Head(requestQ)}
  /\ engine' = "head"
  /\ UNCHANGED <<main, gatewayVars, outputs, responseQ, marketUpdateQ, publisher>>

(* run_ is seen to be false; what is in requestQ stays there.              *)
EngineExits ==
  /\ engine = "head"
  /\ main \in {"joinEngine", "joinPublisher", "stopped"}
  /\ engine' = "exited"
  /\ UNCHANGED <<main, gatewayVars, outputs, processed, queueVars, publisher>>

Engine ==
  \/ \E o \in Outputs : EngineReads(o)
  \/ SendResponse \/ SendUpdate \/ EngineDone \/ EngineExits

-----------------------------------------------------------------------------
(* MarketDataPublisher::run; module MarketData has its inside.             *)
Publish ==
  /\ publisher = "loop"
  /\ main \notin {"joinPublisher", "stopped"}
  /\ marketUpdateQ # <<>>
  /\ marketUpdateQ' = Tail(marketUpdateQ)
  /\ UNCHANGED <<main, gatewayVars, engineVars, requestQ, responseQ, publisher>>

PublisherExits ==
  /\ publisher = "loop"
  /\ main \in {"joinPublisher", "stopped"}
  /\ publisher' = "exited"
  /\ UNCHANGED <<main, gatewayVars, engineVars, queueVars>>

Publisher == Publish \/ PublisherExits

-----------------------------------------------------------------------------
(* main: start the publisher, the engine and the gateway, wait for the     *)
(* signal, then stop and join the gateway, the engine and the publisher.   *)

Start ==
  /\ \/ /\ main = "startPublisher" /\ main' = "startEngine"
        /\ publisher' = "loop" /\ UNCHANGED <<engine, gateway>>
     \/ /\ main = "startEngine" /\ main' = "startGateway"
        /\ engine' = "head" /\ UNCHANGED <<publisher, gateway>>
     \/ /\ main = "startGateway" /\ main' = "running"
        /\ gateway' = "head" /\ UNCHANGED <<publisher, engine>>
  /\ UNCHANGED <<received, fifoVars, held, answered, outputs, processed, queueVars>>

(* SIGINT or SIGTERM: sigHandler clears g_running and main sees it.        *)
Signal ==
  /\ main = "running" /\ main' = "joinGateway"
  /\ UNCHANGED <<gatewayVars, engineVars, queueVars, publisher>>

Join_PublisherFirst ==
  /\ \/ main = "joinGateway" /\ gateway = "exited" /\ main' = "joinPublisher"
     \/ main = "joinPublisher" /\ publisher = "exited" /\ main' = "joinEngine"
     \/ main = "joinEngine" /\ engine = "exited" /\ main' = "stopped"
  /\ UNCHANGED <<gatewayVars, engineVars, queueVars, publisher>>

Join ==
  /\ \/ main = "joinGateway" /\ gateway = "exited" /\ main' = "joinEngine"
     \/ main = "joinEngine" /\ engine = "exited" /\ main' = "joinPublisher"
     \/ main = "joinPublisher" /\ publisher = "exited" /\ main' = "stopped"
  /\ UNCHANGED <<gatewayVars, engineVars, queueVars, publisher>>

Next == Gateway \/ Engine \/ Publisher \/ Start \/ Signal \/ Join

(* Every thread has a core of its own and runs whenever it can; main goes  *)
(* on with what it has begun.  The signal need not come.                   *)
Fairness ==
  /\ WF_vars(Gateway) /\ WF_vars(Engine) /\ WF_vars(Publisher)
  /\ WF_vars(Start) /\ WF_vars(Join)

Spec == Init /\ [][Next]_vars /\ Fairness

-----------------------------------------------------------------------------
(* Properties.                                                             *)

(* Every request that was received is answered, however small the queues   *)
(* and however many outputs it causes, unless the exchange is stopped: the *)
(* gateway, which retains requests rather than wait for room, goes on      *)
(* draining the responses the engine waits to push (OrderServer::run and   *)
(* publishPendingOrders against pushBlocking in the engine).               *)
EveryRequestAnswered ==
  \A n \in 1 .. MaxRequests : (received >= n) ~> (n \in answered \/ Stopping)

(* The engine waits for room in responseQ and nobody will make any.        *)
EngineStranded ==
  /\ gateway = "exited"
  /\ outputs # <<>> /\ Head(outputs) = "response"
  /\ Len(responseQ) = ResponseQSize

(* Once the signal has come main returns, but for one case: the gateway    *)
(* has gone and the request the engine is working on needs more responses  *)
(* than responseQ still holds.  The updates it pushes never keep it, since *)
(* the publisher is stopped last.                                          *)
StopReturnsUnlessStranded ==
  Stopping ~> (main = "stopped" \/ EngineStranded)

(* The requests that are on their way to the engine or being worked on.    *)
Numbers(s) == [i \in DOMAIN s |-> s[i].number]
Waiting ==
  requestQ \o Numbers(pending) \o (IF held = nil THEN <<>> ELSE <<held.number>>)

(* No request is lost and none is worked on twice, also when requestQ or   *)
(* pending_orders_ is full, when the sort moves requests about, and when   *)
(* the threads are stopped: each request received has been done by the     *)
(* engine or waits in exactly one place (push, sort, move and growPending  *)
(* in the gateway, getNextRead and updateNextRead in the engine).          *)
RequestsKept ==
  /\ processed \cup Range(Waiting) = 1 .. received
  /\ processed \cap Range(Waiting) = {}
  /\ IsInjective(Waiting)

(* When the engine has stopped, requestQ is empty: "engine drains the      *)
(* queue" (comment in main.cpp).                                           *)
EngineDrainsQueue == engine = "exited" => requestQ = <<>>
=============================================================================
