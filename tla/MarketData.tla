----------------------------- MODULE MarketData -----------------------------
(***************************************************************************)
(* The market data side: the publisher thread                              *)
(* (src/src/network/market/marketdata_publisher.h) and the streamer thread *)
(* it owns (snapshot_stream.h), with the queue between them, the recovery  *)
(* clients on the streamer's TCP port, and MarketDataPublisher::stop.      *)
(*                                                                         *)
(* The engine is any source of market updates.  `feed' is what has been    *)
(* sent on UDP: feed[n] is the update in the datagram with sequence number *)
(* n.  A recovery client is known by its request only: it may name any     *)
(* sequence number that has been published.  `public_books' is a history   *)
(* variable: the public books a subscriber that lost nothing has had, one  *)
(* before the first datagram and one after each.                           *)
(***************************************************************************)
EXTENDS Naturals, Sequences, ShadowBook

CONSTANTS
  Tickers,         \* the tickers
  Updates,         \* the market updates the engine may push
  MarketQSize,     \* capacity of marketUpdates_, from the engine
  StreamerQSize,   \* capacity of streamer_updates_ (snapshotQueueSize)
  ReplayCapacity,  \* REPLAY_CAPACITY
  Backlog,         \* clients the listening socket keeps, 16 in the code
  MaxUpdates       \* bound: updates the engine pushes

ASSUME SizesAssumption ==
  /\ MarketQSize \in Nat \ {0}
  /\ StreamerQSize \in Nat \ {0}
  /\ ReplayCapacity \in Nat \ {0}
  /\ Backlog \in Nat \ {0}

ASSUME BoundsAssumption == MaxUpdates \in Nat

VARIABLES
  marketUpdates,    \* the queue from the engine
  next_seq_num,     \* next_seq_num_
  publisher,        \* where the publisher thread is
  feed,             \* the updates sent on UDP, by sequence number
  public_books,     \* history: the public book before and after each of them
  streamer_updates, \* queue 2, of [seq_num, update]
  streamer,         \* where the streamer thread is
  shadow_book,      \* shadow_book_
  last_seq_num,     \* last_seq_num_
  dirty,            \* dirty_
  replay_buffer,    \* replay_buffer_, slot -> [seq_num, update] or Unwritten
  snapshot_buf,     \* snapshot_buf_, NoReply when it is empty
  waiting,          \* the recovery clients in the listen backlog
  reply,            \* what the streamer is sending to its client
  main              \* how far MarketDataPublisher::stop is

feedVars == <<feed, public_books>>
queueVars == <<marketUpdates, next_seq_num, publisher, feedVars>>
bookVars == <<shadow_book, last_seq_num, dirty, replay_buffer>>
clientVars == <<snapshot_buf, waiting, reply>>
vars == <<queueVars, streamer_updates, streamer, bookVars, clientVars, main>>

Unwritten == [seq_num |-> 0]
NoReply == [kind |-> "none"]
EmptyShadow == [t \in Tickers |-> EmptyMap]

Init ==
  /\ marketUpdates = <<>>
  /\ next_seq_num = 1
  /\ publisher = "loop"
  /\ feed = <<>>
  /\ public_books = <<EmptyShadow>>
  /\ streamer_updates = <<>>
  /\ streamer = "loop"
  /\ shadow_book = EmptyShadow
  /\ last_seq_num = 0
  /\ dirty = FALSE
  /\ replay_buffer = [i \in 0 .. (ReplayCapacity - 1) |-> Unwritten]
  /\ snapshot_buf = NoReply
  /\ waiting = 0
  /\ reply = NoReply
  /\ main = "running"

-----------------------------------------------------------------------------
(* The engine pushes an update.  It is stopped before the publisher is.    *)
EnginePush(u) ==
  /\ main = "running"
  /\ Len(marketUpdates) < MarketQSize
  /\ next_seq_num + Len(marketUpdates) <= MaxUpdates
  /\ marketUpdates' = Append(marketUpdates, u)
  /\ UNCHANGED <<next_seq_num, publisher, feedVars, streamer_updates, streamer,
                 bookVars, clientVars, main>>

-----------------------------------------------------------------------------
(* MarketDataPublisher::run.                                               *)

(* The public book after the first n updates of the feed.                  *)
BookAfter(n) == public_books[n + 1]

(* Read an update, encode it, send the datagram.                           *)
Fanout ==
  /\ publisher = "loop"
  /\ main = "running"
  /\ marketUpdates # <<>>
  /\ feed' = Append(feed, Head(marketUpdates))
  /\ public_books' = Append(public_books,
                            applyToBook(BookAfter(Len(feed)), Head(marketUpdates)))
  /\ publisher' = "push"
  /\ UNCHANGED <<marketUpdates, next_seq_num, streamer_updates, streamer,
                 bookVars, clientVars, main>>

(* streamer_updates_.pushBlocking waits for room; then the update leaves   *)
(* the engine's queue and its sequence number is used up.                  *)

PushSnap_Overrun ==
  /\ publisher = "push"
  /\ streamer_updates' = Append(streamer_updates,
       [seq_num |-> next_seq_num, update |-> Head(marketUpdates)])
  /\ marketUpdates' = Tail(marketUpdates)
  /\ next_seq_num' = next_seq_num + 1
  /\ publisher' = "loop"
  /\ UNCHANGED <<feedVars, streamer, bookVars, clientVars, main>>

PushSnap_NoWait ==
  /\ publisher = "push"
  /\ streamer_updates' =
       IF Len(streamer_updates) < StreamerQSize
       THEN Append(streamer_updates,
                   [seq_num |-> next_seq_num, update |-> Head(marketUpdates)])
       ELSE streamer_updates
  /\ marketUpdates' = Tail(marketUpdates)
  /\ next_seq_num' = next_seq_num + 1
  /\ publisher' = "loop"
  /\ UNCHANGED <<feedVars, streamer, bookVars, clientVars, main>>

PushSnap ==
  /\ publisher = "push"
  /\ Len(streamer_updates) < StreamerQSize
  /\ streamer_updates' = Append(streamer_updates,
       [seq_num |-> next_seq_num, update |-> Head(marketUpdates)])
  /\ marketUpdates' = Tail(marketUpdates)
  /\ next_seq_num' = next_seq_num + 1
  /\ publisher' = "loop"
  /\ UNCHANGED <<feedVars, streamer, bookVars, clientVars, main>>

(* run_ is seen to be false at the head of the loop.                       *)
PublisherExits ==
  /\ publisher = "loop"
  /\ main # "running"
  /\ publisher' = "exited"
  /\ UNCHANGED <<marketUpdates, next_seq_num, feedVars, streamer_updates, streamer,
                 bookVars, clientVars, main>>

Publisher == Fanout \/ PushSnap \/ PublisherExits

-----------------------------------------------------------------------------
(* SnapshotStreamer::run.                                                  *)

Slot(seq) == (seq - 1) % ReplayCapacity

(* The head of the outer loop.  The streamer's run_ is cleared only after  *)
(* the publisher thread has been joined.                                   *)
LoopHead ==
  /\ streamer = "loop"
  /\ streamer' = IF main = "joinStreamer" THEN "exited" ELSE "drain"
  /\ UNCHANGED <<queueVars, streamer_updates, bookVars, clientVars, main>>

(* One update from queue 2: applyToBook, writeReplayEntry, last_seq_num_.  *)

DrainOne_TradeKeepsSnapshot ==
  /\ streamer = "drain"
  /\ streamer_updates # <<>>
  /\ LET snap == Head(streamer_updates)
     IN  /\ shadow_book' = applyToBook(shadow_book, snap.update)
         /\ dirty' = (dirty \/ snap.update.type # "TRADE")
         /\ replay_buffer' = [replay_buffer EXCEPT ![Slot(snap.seq_num)] = snap]
         /\ last_seq_num' = snap.seq_num
  /\ streamer_updates' = Tail(streamer_updates)
  /\ UNCHANGED <<queueVars, streamer, clientVars, main>>

DrainOne ==
  /\ streamer = "drain"
  /\ streamer_updates # <<>>
  /\ LET snap == Head(streamer_updates)
     IN  /\ shadow_book' = applyToBook(shadow_book, snap.update)
         /\ dirty' = TRUE
         /\ replay_buffer' = [replay_buffer EXCEPT ![Slot(snap.seq_num)] = snap]
         /\ last_seq_num' = snap.seq_num
  /\ streamer_updates' = Tail(streamer_updates)
  /\ UNCHANGED <<queueVars, streamer, clientVars, main>>

(* Queue 2 is seen empty, and poll waits for a client for 1 ms.            *)
DrainEnds ==
  /\ streamer = "drain"
  /\ streamer_updates = <<>>
  /\ streamer' = "poll"
  /\ UNCHANGED <<queueVars, streamer_updates, bookVars, clientVars, main>>

Poll_NoTimeout ==
  /\ streamer = "poll"
  /\ waiting > 0
  /\ streamer' = "accept"
  /\ UNCHANGED <<queueVars, streamer_updates, bookVars, clientVars, main>>

Poll ==
  /\ streamer = "poll"
  /\ \/ waiting = 0 /\ streamer' = "loop"
     \/ waiting > 0 /\ streamer' = "accept"
  /\ UNCHANGED <<queueVars, streamer_updates, bookVars, clientVars, main>>

(* serveRequests: one client after the other until none is waiting.        *)
Accept ==
  /\ streamer = "accept"
  /\ \/ /\ waiting = 0
        /\ streamer' = "loop"
        /\ UNCHANGED waiting
     \/ /\ waiting > 0
        /\ streamer' = "recv"
        /\ waiting' = waiting - 1
  /\ UNCHANGED <<queueVars, streamer_updates, bookVars, snapshot_buf, reply, main>>

(* The client is silent until the receive deadline, closes, or sends       *)
(* something that is no request.                                           *)
RecvFails ==
  /\ streamer = "recv"
  /\ streamer' = "accept"
  /\ UNCHANGED <<queueVars, streamer_updates, bookVars, clientVars, main>>

(* serveSnapshot, with bakeSnapshot where the buffer is out of date.       *)
ServeSnapshot ==
  /\ streamer = "recv"
  /\ IF dirty \/ snapshot_buf = NoReply
     THEN /\ snapshot_buf' = [kind |-> "S", seq |-> last_seq_num,
                              book |-> shadow_book]
          /\ dirty' = FALSE
     ELSE UNCHANGED <<snapshot_buf, dirty>>
  /\ reply' = snapshot_buf'
  /\ streamer' = "send"
  /\ UNCHANGED <<queueVars, streamer_updates, shadow_book, last_seq_num,
                 replay_buffer, waiting, main>>

(* serveReplay.                                                            *)

oldest_replayable_OffByOne ==
  IF last_seq_num > ReplayCapacity THEN last_seq_num - ReplayCapacity - 1 ELSE 0

oldest_replayable ==
  IF last_seq_num > ReplayCapacity THEN last_seq_num - ReplayCapacity ELSE 0

ServeReplay(client_seq) ==
  /\ streamer = "recv"
  /\ \/ /\ client_seq >= last_seq_num
        /\ reply' = [kind |-> "C", seq |-> client_seq]
     \/ /\ client_seq < last_seq_num
        /\ client_seq < oldest_replayable
        /\ reply' = [kind |-> "N", seq |-> client_seq]
     \/ /\ client_seq < last_seq_num
        /\ client_seq >= oldest_replayable
        /\ reply' = [kind |-> "R", seq |-> client_seq,
                     frames |-> [i \in 1 .. (last_seq_num - client_seq) |->
                                   replay_buffer[Slot(client_seq + i)]]]
  /\ streamer' = "send"
  /\ UNCHANGED <<queueVars, streamer_updates, bookVars, snapshot_buf, waiting,
                 main>>

(* sendAll returns, the reply sent or the client dropped at its deadline.  *)
SendReturns ==
  /\ streamer = "send"
  /\ reply' = NoReply
  /\ streamer' = "accept"
  /\ UNCHANGED <<queueVars, streamer_updates, bookVars, snapshot_buf, waiting,
                 main>>

Streamer ==
  \/ LoopHead \/ DrainOne \/ DrainEnds \/ Poll \/ Accept
  \/ RecvFails \/ ServeSnapshot
  \/ \E client_seq \in 0 .. Len(feed) : ServeReplay(client_seq)
  \/ SendReturns

-----------------------------------------------------------------------------
(* A recovery client connects.                                             *)
Connect ==
  /\ waiting < Backlog
  /\ waiting' = waiting + 1
  /\ UNCHANGED <<queueVars, streamer_updates, streamer, bookVars, snapshot_buf,
                 reply, main>>

(* MarketDataPublisher::stop, called from main: clear run_, join the       *)
(* publisher thread, then stop and join the streamer.                      *)

StopStep_StreamerFirst ==
  /\ \/ main = "running" /\ main' = "joinStreamer"
     \/ main = "joinStreamer" /\ streamer = "exited" /\ main' = "joinPublisher"
     \/ main = "joinPublisher" /\ publisher = "exited" /\ main' = "stopped"
  /\ UNCHANGED <<queueVars, streamer_updates, streamer, bookVars, clientVars>>

StopStep ==
  /\ \/ main = "running" /\ main' = "joinPublisher"
     \/ main = "joinPublisher" /\ publisher = "exited" /\ main' = "joinStreamer"
     \/ main = "joinStreamer" /\ streamer = "exited" /\ main' = "stopped"
  /\ UNCHANGED <<queueVars, streamer_updates, streamer, bookVars, clientVars>>

Next ==
  \/ \E u \in Updates : EnginePush(u)
  \/ Publisher
  \/ Streamer
  \/ Connect
  \/ StopStep

(* The two threads run whenever they can; the deadlines on a client's      *)
(* socket end every wait for it.  A stop, once begun, is carried through.  *)
Fairness ==
  /\ WF_vars(Publisher)
  /\ WF_vars(Streamer)
  /\ WF_vars(StopStep /\ main # "running")

Spec == Init /\ [][Next]_vars /\ Fairness

-----------------------------------------------------------------------------
(* Properties.                                                             *)

Snap == [seq_num : 1 .. MaxUpdates, update : Updates]

(* The variables hold values of the code's types, within the queues'       *)
(* capacities.                                                             *)
TypeOK ==
  /\ marketUpdates \in Seq(Updates) /\ Len(marketUpdates) <= MarketQSize
  /\ next_seq_num \in 1 .. (MaxUpdates + 1)
  /\ publisher \in {"loop", "push", "exited"}
  /\ feed \in Seq(Updates) /\ Len(feed) <= MaxUpdates
  /\ streamer_updates \in Seq(Snap) /\ Len(streamer_updates) <= StreamerQSize
  /\ streamer \in {"loop", "drain", "poll", "accept", "recv", "send", "exited"}
  /\ last_seq_num \in 0 .. MaxUpdates
  /\ dirty \in BOOLEAN
  /\ replay_buffer \in [0 .. (ReplayCapacity - 1) -> Snap \cup {Unwritten}]
  /\ waiting \in 0 .. Backlog
  /\ main \in {"running", "joinPublisher", "joinStreamer", "stopped"}

(* Whenever a snapshot is sent, cached or freshly baked, its orders are    *)
(* the public book after exactly the updates its START and END markers     *)
(* claim (bakeSnapshot, dirty_): a client that applies the snapshot and    *)
(* then the datagrams after that number neither misses an update nor       *)
(* applies one twice.  Nor is it older than the streamer's own state.      *)
SnapshotExact ==
  reply.kind = "S" =>
    /\ reply.seq = last_seq_num
    /\ reply.book = BookAfter(reply.seq)

(* A replay is what the feed sent: the frames right after the client's     *)
(* sequence number, in order, none overwritten in the ring                 *)
(* (writeReplayEntry, serveReplay).                                        *)
ReplayExact ==
  reply.kind = "R" =>
    reply.frames = [i \in 1 .. (last_seq_num - reply.seq) |->
                      [seq_num |-> reply.seq + i, update |-> feed[reply.seq + i]]]

(* The streamer is never ahead of the feed and loses nothing of it: what   *)
(* it has applied, what is queued for it and what the publisher is about   *)
(* to push are together the datagrams sent.                                *)
StreamerFollowsFeed ==
  /\ last_seq_num + Len(streamer_updates) + (IF publisher = "push" THEN 1 ELSE 0)
       = Len(feed)
  /\ \A i \in 1 .. Len(streamer_updates) :
       streamer_updates[i] = [seq_num |-> last_seq_num + i,
                              update |-> feed[last_seq_num + i]]

(* The publisher's numbers: the next one is that of the next datagram, or  *)
(* of the one just sent while it waits for room in queue 2, and then that  *)
(* datagram holds the update at the head of the engine's queue.            *)
NumbersInStep ==
  /\ next_seq_num + Len(marketUpdates) <= MaxUpdates + 1
  /\ next_seq_num = Len(feed) + (IF publisher = "push" THEN 0 ELSE 1)
  /\ publisher = "push" =>
       marketUpdates # <<>> /\ feed[Len(feed)] = Head(marketUpdates)

(* The history holds the empty book, and after it each datagram's effect   *)
(* on the book before it.                                                  *)
BooksFollowFeed ==
  /\ Len(public_books) = Len(feed) + 1
  /\ BookAfter(0) = EmptyShadow
  /\ \A n \in 1 .. Len(feed) : BookAfter(n) = applyToBook(BookAfter(n - 1), feed[n])

(* The ring holds the last ReplayCapacity updates, each in its slot.       *)
RingExact ==
  \A n \in 1 .. last_seq_num :
    n + ReplayCapacity > last_seq_num =>
      replay_buffer[Slot(n)] = [seq_num |-> n, update |-> feed[n]]

(* The cached snapshot is out of date only while dirty_ says so.           *)
CacheExact ==
  \/ dirty
  \/ snapshot_buf = NoReply
  \/ snapshot_buf = [kind |-> "S", seq |-> last_seq_num, book |-> shadow_book]

(* A reply is under way only while the streamer is in sendAll.             *)
RepliesWhileSending == reply # NoReply => streamer = "send" /\ reply.seq \in Nat

(* The streamer's state at every step of the two threads: what it keeps,   *)
(* what is queued for it and what it sends all agree with the feed.  No    *)
(* conjunct survives every step without the others: bakeSnapshot copies    *)
(* the shadow book, which is exact because queue 2 is the feed's next      *)
(* part, which holds because the publisher pushes what it has just sent.   *)
FeedInv ==
  /\ TypeOK
  /\ NumbersInStep
  /\ BooksFollowFeed
  /\ StreamerFollowsFeed
  /\ shadow_book = BookAfter(last_seq_num)
  /\ RingExact
  /\ CacheExact
  /\ RepliesWhileSending
  /\ SnapshotExact
  /\ ReplayExact

(* The reply `C' is given only to a client that is current: when it is     *)
(* made, no datagram has been sent after the one the client names.         *)
CurrentIsCurrent ==
  [][reply = NoReply /\ reply'.kind = "C" => reply'.seq = Len(feed)]_vars

(* A recovery client never stalls the live feed: the publisher does not    *)
(* wait for room in queue 2 while the streamer waits for a client.         *)
ClientsNeverStallFeed ==
  ~ /\ publisher = "push"
    /\ Len(streamer_updates) = StreamerQSize
    /\ streamer \in {"recv", "send"}

(* The recovery clients let up: from some time on none connects.  While    *)
(* they keep coming, serveRequests need never see accept fail, and neither *)
(* queue 2 nor run_ is looked at again.                                    *)
ClientsLetUp == <>[][~Connect]_vars

(* Once the recovery clients let up, however many there were and whatever  *)
(* they did, every update that went out on UDP reaches the shadow book and *)
(* the replay ring, unless the exchange is being stopped: the publisher's  *)
(* wait for room in queue 2 and the streamer's for its clients both end.   *)
SentIsApplied ==
  ClientsLetUp =>
    \A n \in 1 .. MaxUpdates :
      (Len(feed) >= n) ~> (last_seq_num >= n \/ main # "running")

(* stop() returns once the recovery clients let up: the publisher, which   *)
(* may be waiting for room in queue 2, is joined while the streamer still  *)
(* drains it.                                                              *)
StopReturns == ClientsLetUp => ((main # "running") ~> (main = "stopped"))
=============================================================================
