-------------------------- MODULE MarketDataProofs --------------------------
(***************************************************************************)
(* That the recovery channel tells the truth, whatever the capacities of   *)
(* the queues and of the replay ring, the updates, the recovery clients    *)
(* and the moment of stop: snapshots and replays agree with the feed.      *)
(*                                                                         *)
(* FeedInv (MarketData) is inductive.  The publisher's steps disturb what  *)
(* it says of the queue between the threads, the streamer's what it says   *)
(* of the book, the ring and the cached snapshot.                          *)
(***************************************************************************)
EXTENDS MarketData, TLAPS

(* A leaf that names no prover is tried with each of these in turn.        *)
USE SMT, ZenonT(30), SMTT(60)

(* Two numbers closer than the capacity of the ring have different slots   *)
(* (writeReplayEntry overwrites only the oldest entry).                    *)
LEMMA SlotsDiffer ==
  ASSUME NEW a \in Nat \ {0}, NEW b \in Nat \ {0}, a < b,
         b < a + ReplayCapacity
  PROVE  Slot(a) # Slot(b)
<1> DEFINE c == ReplayCapacity
           x == a - 1
           y == b - 1
<1>1. c \in Nat \ {0} /\ x \in Nat /\ y \in Nat /\ x < y /\ y - x < c
  BY SizesAssumption
<1>2. \A z, d \in Nat : d > 0 => z = (z \div d) * d + (z % d) /\ z \div d \in Int
  OBVIOUS
<1>3. SUFFICES ASSUME x % c = y % c PROVE FALSE
  BY Zenon DEF Slot
<1> HIDE DEF c, x, y
<1>4. PICK p \in Int, q \in Int : x = p * c + (x % c) /\ y = q * c + (x % c)
  <2>1. x = (x \div c) * c + (x % c) /\ x \div c \in Int
    BY <1>1, <1>2
  <2>2. y = (y \div c) * c + (y % c) /\ y \div c \in Int
    BY <1>1, <1>2
  <2> QED BY <1>3, <2>1, <2>2, Zenon
<1>5. y - x = (q - p) * c /\ q - p \in Int
  <2>1. x % c \in Int
    BY <1>1
  <2> QED BY <1>1, <1>4, <2>1
<1>6. \A d \in Int : ~ (0 < d * c /\ d * c < c)
  BY <1>1
<1> QED BY <1>1, <1>5, <1>6

(* The slot of a number is a slot of the ring.                             *)
LEMMA SlotInRing ==
  ASSUME NEW n \in Nat \ {0} PROVE Slot(n) \in 0 .. (ReplayCapacity - 1)
BY SizesAssumption DEF Slot

(* The queues, the book, the ring and the cached snapshot.                 *)
Kept == <<marketUpdates, next_seq_num, feedVars, streamer_updates, bookVars,
          snapshot_buf>>

(* The steps that only move a thread, a client or main on (run, poll,      *)
(* serveRequests, stop) keep the invariant.                                *)
LEMMA MovesKeep ==
  ASSUME FeedInv, TypeOK', UNCHANGED Kept,
         (publisher = "push") <=> (publisher' = "push"),
         reply' = reply \/ reply' = NoReply,
         reply' # NoReply => streamer' = "send"
  PROVE  FeedInv'
<1>1. NumbersInStep'
  BY Zenon DEF FeedInv, NumbersInStep, Kept, feedVars
<1>2. StreamerFollowsFeed'
  BY Zenon DEF FeedInv, StreamerFollowsFeed, Kept, feedVars, bookVars
<1>3. BooksFollowFeed' /\ (shadow_book = BookAfter(last_seq_num))'
  BY Zenon DEF FeedInv, BooksFollowFeed, BookAfter, Kept, feedVars, bookVars
<1>4. RingExact' /\ CacheExact' /\ RepliesWhileSending'
  BY Zenon DEF FeedInv, RingExact, CacheExact, RepliesWhileSending, Slot, NoReply,
         Kept, feedVars, bookVars
<1>5. SnapshotExact'
  BY DEF FeedInv, SnapshotExact, BookAfter, NoReply, Kept, feedVars, bookVars
<1>6. ReplayExact'
  <2>1. CASE reply' = reply
    BY <2>1, Zenon DEF FeedInv, ReplayExact, Kept, feedVars, bookVars
  <2>2. CASE reply' = NoReply
    BY <2>2, Zenon DEF ReplayExact, NoReply
  <2> QED BY <2>1, <2>2, Zenon
<1> QED BY <1>1, <1>2, <1>3, <1>4, <1>5, <1>6, Zenon DEF FeedInv

(* Every step of a thread, a client or main that changes no data is one of *)
(* them.                                                                   *)
LEMMA ThreadsMove ==
  ASSUME FeedInv,
         \/ PublisherExits \/ LoopHead \/ DrainEnds \/ Poll \/ Accept
         \/ RecvFails \/ SendReturns \/ Connect \/ StopStep
  PROVE  FeedInv'
<1>1. UNCHANGED Kept
  BY Zenon DEF PublisherExits, LoopHead, DrainEnds, Poll, Accept, RecvFails,
         SendReturns, Connect, StopStep, Kept, queueVars, feedVars, bookVars,
         clientVars
<1>2. /\ (publisher = "push") <=> (publisher' = "push")
      /\ reply' = reply \/ reply' = NoReply
  BY Zenon DEF PublisherExits, LoopHead, DrainEnds, Poll, Accept, RecvFails,
         SendReturns, Connect, StopStep, queueVars, clientVars
<1>3. reply' # NoReply => streamer' = "send"
  BY Zenon DEF FeedInv, RepliesWhileSending, PublisherExits, LoopHead, DrainEnds, Poll,
         Accept, RecvFails, SendReturns, Connect, StopStep, clientVars
<1>4. /\ publisher' \in {"loop", "push", "exited"}
      /\ streamer' \in {"loop", "drain", "poll", "accept", "recv", "send", "exited"}
      /\ main' \in {"running", "joinPublisher", "joinStreamer", "stopped"}
  BY SMTT(30), SMTT(60) DEF FeedInv, TypeOK, PublisherExits, LoopHead, DrainEnds, Poll, Accept,
         RecvFails, SendReturns, Connect, StopStep, queueVars
<1>5. waiting' \in 0 .. Backlog
  <2>1. waiting \in 0 .. Backlog
    BY Zenon DEF FeedInv, TypeOK
  <2>2. CASE UNCHANGED waiting
    BY <2>1, <2>2, Zenon
  <2>3. CASE Accept /\ waiting' # waiting
    BY <2>1, <2>3, SizesAssumption DEF Accept
  <2>4. CASE Connect
    BY <2>1, <2>4, SizesAssumption DEF Connect
  <2> QED
    BY <2>2, <2>3, <2>4, Zenon DEF PublisherExits, LoopHead, DrainEnds, Poll, RecvFails,
       SendReturns, StopStep, clientVars
<1>6. TypeOK'
  BY <1>1, <1>4, <1>5, Zenon DEF FeedInv, TypeOK, Kept, feedVars, bookVars
<1> QED BY <1>1, <1>2, <1>3, <1>6, MovesKeep, Zenon

(* The lengths and the numbers are naturals.                               *)
LEMMA Numbers ==
  ASSUME FeedInv
  PROVE  /\ marketUpdates \in Seq(Updates) /\ Len(marketUpdates) \in Nat
         /\ feed \in Seq(Updates) /\ Len(feed) \in Nat
         /\ streamer_updates \in Seq(Snap) /\ Len(streamer_updates) \in Nat
         /\ last_seq_num \in Nat /\ next_seq_num \in Nat \ {0}
         /\ MaxUpdates \in Nat
         /\ last_seq_num <= Len(feed)
BY BoundsAssumption, SMTT(30), SMTT(60) DEF FeedInv, TypeOK, StreamerFollowsFeed

(* The engine's push keeps the invariant: the head of its queue stays.     *)
LEMMA EnginePushKeeps ==
  ASSUME FeedInv, NEW u \in Updates, EnginePush(u)
  PROVE  FeedInv'
<1>1. /\ marketUpdates' = Append(marketUpdates, u)
      /\ Len(marketUpdates) < MarketQSize
      /\ next_seq_num + Len(marketUpdates) <= MaxUpdates
      /\ UNCHANGED <<next_seq_num, publisher, feed, public_books, streamer_updates,
                     streamer, shadow_book, last_seq_num, dirty, replay_buffer,
                     snapshot_buf, waiting, reply, main>>
  BY Zenon DEF EnginePush, feedVars, bookVars, clientVars
<1>2. /\ marketUpdates' \in Seq(Updates)
      /\ Len(marketUpdates') = Len(marketUpdates) + 1
      /\ marketUpdates # <<>> => Head(marketUpdates') = Head(marketUpdates)
      /\ marketUpdates' # <<>>
  BY <1>1, Numbers, SMTT(30), SMTT(60)
<1>3. TypeOK'
  <2>1. Len(marketUpdates') <= MarketQSize
    BY <1>1, <1>2, Numbers, SizesAssumption
  <2> QED BY <1>1, <1>2, <2>1 DEF FeedInv, TypeOK
<1>4. NumbersInStep'
  <2>1. next_seq_num' + Len(marketUpdates') <= MaxUpdates + 1
    BY <1>1, <1>2, Numbers, SMTT(30), SMTT(60)
  <2> QED BY <1>1, <1>2, <2>1, Zenon DEF FeedInv, NumbersInStep
<1>5. StreamerFollowsFeed'
  BY <1>1, Zenon DEF FeedInv, StreamerFollowsFeed
<1>6. BooksFollowFeed' /\ (shadow_book = BookAfter(last_seq_num))' /\ SnapshotExact'
  BY <1>1, Zenon DEF FeedInv, BooksFollowFeed, BookAfter, SnapshotExact
<1>7. RingExact' /\ CacheExact' /\ RepliesWhileSending' /\ ReplayExact'
  BY <1>1, Zenon DEF FeedInv, RingExact, CacheExact, RepliesWhileSending, ReplayExact, Slot
<1> QED BY <1>3, <1>4, <1>5, <1>6, <1>7, Zenon DEF FeedInv

(* Sending a datagram (sendToIncrementalNetwork) keeps the invariant: the  *)
(* feed grows at its end, where neither the streamer nor a reply looks     *)
(* yet.                                                                    *)
LEMMA FanoutKeeps ==
  ASSUME FeedInv, Fanout
  PROVE  FeedInv'
<1> DEFINE u == Head(marketUpdates)
<1>1. /\ publisher = "loop" /\ publisher' = "push" /\ marketUpdates # <<>>
      /\ feed' = Append(feed, u)
      /\ public_books' = Append(public_books, applyToBook(BookAfter(Len(feed)), u))
      /\ UNCHANGED <<marketUpdates, next_seq_num, streamer_updates, streamer,
                     shadow_book, last_seq_num, dirty, replay_buffer, snapshot_buf,
                     waiting, reply, main>>
  BY Zenon DEF Fanout, bookVars, clientVars
<1>2. u \in Updates /\ Len(marketUpdates) >= 1
  BY <1>1, Numbers, SMTT(30), SMTT(60)
<1>3. /\ feed' \in Seq(Updates) /\ Len(feed') = Len(feed) + 1
      /\ feed'[Len(feed')] = u
      /\ \A i \in 1 .. Len(feed) : feed'[i] = feed[i]
  BY <1>1, <1>2, Numbers
<1>4. /\ Len(public_books') = Len(feed) + 2
      /\ \A i \in 1 .. Len(feed) + 1 : public_books'[i] = public_books[i]
      /\ public_books'[Len(feed) + 2] = applyToBook(public_books[Len(feed) + 1], u)
  <2>1. Len(public_books) = Len(feed) + 1
    BY Zenon DEF FeedInv, BooksFollowFeed
  <2> QED BY <1>1, <2>1, Numbers, SMTT(30), SMTT(60) DEF BookAfter
<1>5. TypeOK'
  <2>1. Len(feed') <= MaxUpdates
    BY <1>1, <1>2, <1>3, Numbers, SMTT(30), SMTT(60) DEF FeedInv, NumbersInStep
  <2> QED BY <1>1, <1>3, <2>1, Zenon DEF FeedInv, TypeOK
<1>6. NumbersInStep'
  BY <1>1, <1>3, <1>4, Numbers DEF FeedInv, NumbersInStep
<1>7. StreamerFollowsFeed'
  <2>1. /\ last_seq_num + Len(streamer_updates) = Len(feed)
        /\ \A i \in 1 .. Len(streamer_updates) :
             /\ streamer_updates[i] = [seq_num |-> last_seq_num + i,
                                       update |-> feed[last_seq_num + i]]
             /\ last_seq_num + i \in 1 .. Len(feed)
    BY <1>1, Numbers, SMTT(30), SMTT(60) DEF FeedInv, StreamerFollowsFeed
  <2> QED BY <1>1, <1>3, <2>1, Numbers, Zenon DEF StreamerFollowsFeed
<1>8. (shadow_book = BookAfter(last_seq_num))' /\ SnapshotExact'
  <2>1. last_seq_num + 1 \in 1 .. Len(feed) + 1
    BY Numbers, SMTT(30), SMTT(60)
  <2> QED BY <1>1, <1>4, <2>1, Zenon DEF FeedInv, BookAfter, SnapshotExact
<1>9. RingExact' /\ CacheExact' /\ RepliesWhileSending'
  <2>1. \A n \in 1 .. last_seq_num : n \in 1 .. Len(feed)
    BY Numbers
  <2> QED BY <1>1, <1>3, <2>1, Zenon DEF FeedInv, RingExact, CacheExact, RepliesWhileSending, Slot
<1>10. ReplayExact'
  <2>1. CASE reply.kind = "R"
    <3>1. reply.seq \in Nat
      BY <2>1 DEF FeedInv, RepliesWhileSending, NoReply
    <3>2. \A i \in 1 .. (last_seq_num - reply.seq) : feed'[reply.seq + i] = feed[reply.seq + i]
      <4>1. \A i \in 1 .. (last_seq_num - reply.seq) : reply.seq + i \in 1 .. Len(feed)
        BY <3>1, Numbers, SMTT(30), SMTT(60)
      <4> QED BY <1>3, <4>1, Zenon
    <3> QED BY <1>1, <2>1, <3>2, ZenonT(60) DEF FeedInv, ReplayExact
  <2>2. CASE reply.kind # "R"
    BY <1>1, <2>2, Zenon DEF ReplayExact
  <2> QED BY <2>1, <2>2, Zenon
<1>11. BooksFollowFeed'
  <2>1. ASSUME NEW n \in 1 .. Len(feed) + 1
        PROVE  public_books'[n + 1] = applyToBook(public_books'[n], feed'[n])
    <3>1. CASE n = Len(feed) + 1
      <4>1. /\ n = Len(feed') /\ n + 1 = Len(feed) + 2
            /\ Len(feed) + 1 \in 1 .. Len(feed) + 1
        BY <1>3, <3>1, Numbers, SMTT(30), SMTT(60)
      <4>2. public_books'[n] = public_books[Len(feed) + 1]
        BY <1>4, <3>1, <4>1, Zenon
      <4> QED BY <1>3, <1>4, <4>1, <4>2, Zenon
    <3>2. CASE n \in 1 .. Len(feed)
      <4>1. public_books[n + 1] = applyToBook(public_books[n], feed[n])
        BY <3>2, Numbers DEF FeedInv, BooksFollowFeed, BookAfter
      <4>2. n \in 1 .. Len(feed) + 1 /\ n + 1 \in 1 .. Len(feed) + 1
        BY <3>2, Numbers
      <4> QED BY <1>3, <1>4, <3>2, <4>1, <4>2, Zenon
    <3> QED BY <3>1, <3>2, Numbers, SMTT(30), SMTT(60)
  <2>2. BookAfter(0)' = EmptyShadow
    BY <1>4, Numbers DEF FeedInv, BooksFollowFeed, BookAfter
  <2> QED BY <1>3, <1>4, <2>1, <2>2, Numbers DEF BooksFollowFeed, BookAfter
<1> QED BY <1>5, <1>6, <1>7, <1>8, <1>9, <1>10, <1>11, Zenon DEF FeedInv

(* The push into queue 2 (pushBlocking, ++next_seq_num_) keeps the         *)
(* invariant: what is pushed is the last datagram, with its number.        *)
LEMMA PushSnapKeeps ==
  ASSUME FeedInv, PushSnap
  PROVE  FeedInv'
<1> DEFINE snap == [seq_num |-> next_seq_num, update |-> Head(marketUpdates)]
<1>1. /\ publisher = "push" /\ publisher' = "loop"
      /\ Len(streamer_updates) < StreamerQSize
      /\ streamer_updates' = Append(streamer_updates, snap)
      /\ marketUpdates' = Tail(marketUpdates)
      /\ next_seq_num' = next_seq_num + 1
      /\ UNCHANGED <<feed, public_books, streamer, shadow_book, last_seq_num, dirty,
                     replay_buffer, snapshot_buf, waiting, reply, main>>
  BY Zenon DEF PushSnap, feedVars, bookVars, clientVars
<1>2. /\ marketUpdates # <<>> /\ feed[Len(feed)] = Head(marketUpdates)
      /\ next_seq_num = Len(feed)
      /\ next_seq_num + Len(marketUpdates) <= MaxUpdates + 1
      /\ last_seq_num + Len(streamer_updates) + 1 = Len(feed)
  BY <1>1, Numbers DEF FeedInv, NumbersInStep, StreamerFollowsFeed
<1>3. /\ marketUpdates' \in Seq(Updates) /\ Len(marketUpdates') = Len(marketUpdates) - 1
      /\ Head(marketUpdates) \in Updates /\ Len(marketUpdates) >= 1
  BY <1>1, <1>2, Numbers, SMTT(30), SMTT(60)
<1>4. snap \in Snap
  <2>1. next_seq_num \in 1 .. MaxUpdates
    BY <1>2, <1>3, Numbers, SMTT(30), SMTT(60)
  <2> QED BY <1>3, <2>1, Zenon DEF Snap
<1>5. /\ streamer_updates' \in Seq(Snap)
      /\ Len(streamer_updates') = Len(streamer_updates) + 1
      /\ \A i \in 1 .. Len(streamer_updates) : streamer_updates'[i] = streamer_updates[i]
      /\ streamer_updates'[Len(streamer_updates) + 1] = snap
  <2> HIDE DEF snap
  <2> QED BY <1>1, <1>4, Numbers
<1>6. TypeOK'
  <2>1. next_seq_num' \in 1 .. (MaxUpdates + 1)
    BY <1>1, <1>2, <1>3, Numbers, SMTT(30), SMTT(60)
  <2>2. Len(marketUpdates') <= MarketQSize
    BY <1>3, Numbers, SizesAssumption DEF FeedInv, TypeOK
  <2>3. Len(streamer_updates') <= StreamerQSize
    BY <1>1, <1>5, Numbers, SizesAssumption
  <2> QED BY <1>1, <1>3, <1>5, <2>1, <2>2, <2>3, Zenon DEF FeedInv, TypeOK
<1>7. NumbersInStep'
  BY <1>1, <1>2, <1>3, Numbers DEF FeedInv, NumbersInStep
<1>8. StreamerFollowsFeed'
  <2>1. last_seq_num' + Len(streamer_updates') = Len(feed')
    BY <1>1, <1>2, <1>5, Numbers, SMTT(30), SMTT(60)
  <2>2. ASSUME NEW i \in 1 .. Len(streamer_updates')
        PROVE  streamer_updates'[i] = [seq_num |-> last_seq_num + i,
                                       update |-> feed[last_seq_num + i]]
    <3>1. CASE i \in 1 .. Len(streamer_updates)
      BY <1>5, <3>1, Zenon DEF FeedInv, StreamerFollowsFeed
    <3>2. CASE i = Len(streamer_updates) + 1
      BY <1>2, <1>5, <3>2, Numbers, SMTT(30), SMTT(60)
    <3> QED BY <1>5, <3>1, <3>2, Numbers, SMTT(30), SMTT(60)
  <2>3. last_seq_num' + Len(streamer_updates') + (IF publisher' = "push" THEN 1 ELSE 0)
          = Len(feed')
    BY <1>1, <2>1, <1>5, Numbers, SMTT(30), SMTT(60)
  <2> QED BY <1>1, <2>2, <2>3, Zenon DEF StreamerFollowsFeed
<1>9. BooksFollowFeed' /\ (shadow_book = BookAfter(last_seq_num))' /\ SnapshotExact'
  BY <1>1, Zenon DEF FeedInv, BooksFollowFeed, BookAfter, SnapshotExact
<1>10. RingExact' /\ CacheExact' /\ RepliesWhileSending' /\ ReplayExact'
  BY <1>1, Zenon DEF FeedInv, RingExact, CacheExact, RepliesWhileSending, ReplayExact, Slot
<1> QED BY <1>6, <1>7, <1>8, <1>9, <1>10, Zenon DEF FeedInv

(* Draining one update (applyToBook, writeReplayEntry, last_seq_num_,      *)
(* dirty_) keeps the invariant: the update is the feed's next, and its     *)
(* ring entry overwrites the one that is too old to be replayed.           *)
LEMMA DrainOneKeeps ==
  ASSUME FeedInv, DrainOne
  PROVE  FeedInv'
<1> DEFINE n == last_seq_num + 1
           snap == Head(streamer_updates)
<1>1. /\ streamer = "drain" /\ streamer_updates # <<>>
      /\ shadow_book' = applyToBook(shadow_book, snap.update)
      /\ dirty' = TRUE
      /\ replay_buffer' = [replay_buffer EXCEPT ![Slot(snap.seq_num)] = snap]
      /\ last_seq_num' = snap.seq_num
      /\ streamer_updates' = Tail(streamer_updates)
      /\ UNCHANGED <<marketUpdates, next_seq_num, publisher, feed, public_books,
                     streamer, snapshot_buf, waiting, reply, main>>
  BY Zenon DEF DrainOne, queueVars, feedVars, clientVars
<1>2. /\ Len(streamer_updates) >= 1 /\ snap \in Snap /\ snap = streamer_updates[1]
      /\ streamer_updates' \in Seq(Snap)
      /\ Len(streamer_updates') = Len(streamer_updates) - 1
      /\ \A i \in 1 .. Len(streamer_updates) - 1 :
           streamer_updates'[i] = streamer_updates[i + 1]
  BY <1>1, Numbers
<1>3. /\ snap = [seq_num |-> n, update |-> feed[n]]
      /\ n \in 1 .. Len(feed)
  <2>1. 1 \in 1 .. Len(streamer_updates)
    BY <1>2, Numbers
  <2>2. streamer_updates[1] = [seq_num |-> last_seq_num + 1,
                               update |-> feed[last_seq_num + 1]]
    BY <2>1, Zenon DEF FeedInv, StreamerFollowsFeed
  <2>3. n \in 1 .. Len(feed)
    BY <1>2, Numbers, SMTT(30), SMTT(60) DEF FeedInv, StreamerFollowsFeed
  <2> QED BY <1>2, <2>2, <2>3, Zenon
<1>4. snap.seq_num = n /\ snap.update = feed[n] /\ n \in Nat \ {0} /\ n \in 1 .. MaxUpdates
  BY <1>2, <1>3, Numbers, SMTT(30), SMTT(60) DEF Snap
<1>5. TypeOK'
  <2>1. Len(streamer_updates') <= StreamerQSize
    BY <1>2, Numbers, SizesAssumption DEF FeedInv, TypeOK
  <2>2. replay_buffer' \in [0 .. (ReplayCapacity - 1) -> Snap \cup {Unwritten}]
    BY <1>1, <1>2, Zenon DEF FeedInv, TypeOK
  <2>3. last_seq_num' \in 0 .. MaxUpdates
    BY <1>1, <1>4, Numbers, SMTT(30), SMTT(60)
  <2> QED BY <1>1, <1>2, <2>1, <2>2, <2>3, Zenon DEF FeedInv, TypeOK
<1>6. NumbersInStep' /\ BooksFollowFeed'
  BY <1>1, Zenon DEF FeedInv, NumbersInStep, BooksFollowFeed, BookAfter
<1>7. StreamerFollowsFeed'
  <2>1. last_seq_num' + Len(streamer_updates') + (IF publisher' = "push" THEN 1 ELSE 0)
          = Len(feed')
    BY <1>1, <1>2, <1>4, Numbers, SMTT(30), SMTT(60) DEF FeedInv, StreamerFollowsFeed
  <2>2. ASSUME NEW i \in 1 .. Len(streamer_updates')
        PROVE  streamer_updates'[i] = [seq_num |-> last_seq_num' + i,
                                       update |-> feed[last_seq_num' + i]]
    <3>1. i + 1 \in 1 .. Len(streamer_updates) /\ i \in 1 .. Len(streamer_updates) - 1
      BY <1>2, Numbers
    <3>2. streamer_updates[i + 1] = [seq_num |-> last_seq_num + (i + 1),
                                     update |-> feed[last_seq_num + (i + 1)]]
      BY <3>1, Zenon DEF FeedInv, StreamerFollowsFeed
    <3>3. last_seq_num + (i + 1) = last_seq_num' + i
      <4>1. last_seq_num' = last_seq_num + 1
        BY <1>1, <1>4, Zenon
      <4>2. i \in Nat /\ last_seq_num \in Nat
        BY <3>1, Numbers
      <4> QED BY <4>1, <4>2
    <3> QED BY <1>2, <3>1, <3>2, <3>3, Zenon
  <2> QED BY <1>1, <2>1, <2>2, Zenon DEF StreamerFollowsFeed
<1>8. (shadow_book = BookAfter(last_seq_num))'
  <2>1. BookAfter(n) = applyToBook(BookAfter(n - 1), feed[n])
    BY <1>3, Zenon DEF FeedInv, BooksFollowFeed
  <2>2. n - 1 = last_seq_num
    BY Numbers
  <2>3. BookAfter(n) = applyToBook(shadow_book, feed[n])
    BY <2>1, <2>2, Zenon DEF FeedInv
  <2> QED BY <1>1, <1>4, <2>3, Zenon DEF BookAfter
<1>9. RingExact'
  <2> SUFFICES ASSUME NEW m \in 1 .. last_seq_num', m + ReplayCapacity > last_seq_num'
               PROVE  replay_buffer'[Slot(m)] = [seq_num |-> m, update |-> feed[m]]
    BY <1>1, Zenon DEF RingExact, Slot
  <2>1. CASE m = n
    <3>1. Slot(n) \in DOMAIN replay_buffer
      BY <1>4, SlotInRing, Zenon DEF FeedInv, TypeOK
    <3> QED BY <1>1, <1>3, <1>4, <2>1, <3>1, Zenon
  <2>2. CASE m \in 1 .. last_seq_num
    <3>1. m \in Nat \ {0} /\ m < n /\ n < m + ReplayCapacity /\ m + ReplayCapacity > last_seq_num
      <4>1. m + ReplayCapacity > n /\ ReplayCapacity \in Nat
        BY <1>1, <1>4, SizesAssumption, Zenon
      <4> HIDE DEF snap
      <4> QED BY <2>2, <4>1, Numbers, SMTT(30), SMTT(60)
    <3>2. Slot(m) # Slot(n)
      BY <1>4, <3>1, SlotsDiffer, Zenon
    <3>3. replay_buffer[Slot(m)] = [seq_num |-> m, update |-> feed[m]]
      BY <2>2, <3>1, Zenon DEF FeedInv, RingExact
    <3>4. replay_buffer'[Slot(m)] = replay_buffer[Slot(m)]
      <4>1. Slot(m) \in DOMAIN replay_buffer
        BY <3>1, SlotInRing, Zenon DEF FeedInv, TypeOK
      <4> QED BY <1>1, <1>4, <3>2, <4>1
    <3> QED BY <3>3, <3>4, Zenon
  <2> QED BY <1>1, <1>4, <2>1, <2>2, Numbers, SMTT(30), SMTT(60)
<1>10. reply = NoReply
  BY <1>1, Zenon DEF FeedInv, RepliesWhileSending
<1>11. CacheExact' /\ RepliesWhileSending' /\ SnapshotExact' /\ ReplayExact'
  BY <1>1, <1>10, Zenon DEF CacheExact, RepliesWhileSending, SnapshotExact, ReplayExact, NoReply
<1> QED BY <1>5, <1>6, <1>7, <1>8, <1>9, <1>11, Zenon DEF FeedInv

(* Serving a snapshot (serveSnapshot, bakeSnapshot) keeps the invariant:   *)
(* what is sent is the book as it is now, baked afresh or cached.          *)
LEMMA ServeSnapshotKeeps ==
  ASSUME FeedInv, ServeSnapshot
  PROVE  FeedInv'
<1> DEFINE now == [kind |-> "S", seq |-> last_seq_num, book |-> shadow_book]
<1>1. /\ reply' = snapshot_buf' /\ streamer' = "send"
      /\ UNCHANGED <<marketUpdates, next_seq_num, publisher, feed, public_books,
                     streamer_updates, shadow_book, last_seq_num, replay_buffer,
                     waiting, main>>
  BY Zenon DEF ServeSnapshot, queueVars, feedVars
<1>2. snapshot_buf' = now /\ dirty' \in BOOLEAN
  <2>1. CASE dirty \/ snapshot_buf = NoReply
    BY <2>1, Zenon DEF ServeSnapshot
  <2>2. CASE ~ (dirty \/ snapshot_buf = NoReply)
    BY <2>2, Zenon DEF ServeSnapshot, FeedInv, CacheExact, TypeOK
  <2> QED BY <2>1, <2>2, Zenon
<1>3. TypeOK'
  BY <1>1, <1>2, Zenon DEF FeedInv, TypeOK
<1>4. NumbersInStep' /\ BooksFollowFeed'
  BY <1>1, Zenon DEF FeedInv, NumbersInStep, BooksFollowFeed, BookAfter
<1>5. StreamerFollowsFeed'
  BY <1>1, Zenon DEF FeedInv, StreamerFollowsFeed
<1>6. (shadow_book = BookAfter(last_seq_num))' /\ RingExact'
  BY <1>1, Zenon DEF FeedInv, BookAfter, RingExact, Slot
<1>7. CacheExact' /\ RepliesWhileSending' /\ SnapshotExact' /\ ReplayExact'
  BY <1>1, <1>2, Numbers, Zenon DEF FeedInv, CacheExact, RepliesWhileSending, SnapshotExact,
     ReplayExact, BookAfter
<1> QED BY <1>3, <1>4, <1>5, <1>6, <1>7, Zenon DEF FeedInv

(* Serving a replay (serveReplay) keeps the invariant: every frame sent is *)
(* among the last ReplayCapacity, where the ring is exact.                 *)
LEMMA ServeReplayKeeps ==
  ASSUME FeedInv, NEW client_seq \in 0 .. Len(feed), ServeReplay(client_seq)
  PROVE  FeedInv'
<1>1. /\ streamer' = "send"
      /\ UNCHANGED <<marketUpdates, next_seq_num, publisher, feed, public_books,
                     streamer_updates, shadow_book, last_seq_num, dirty,
                     replay_buffer, snapshot_buf, waiting, main>>
  BY Zenon DEF ServeReplay, queueVars, feedVars, bookVars
<1>2. reply'.seq = client_seq /\ reply'.kind \in {"C", "N", "R"} /\ client_seq \in Nat
  BY Numbers, SMTT(30), SMTT(60) DEF ServeReplay
<1>3. TypeOK'
  BY <1>1, Zenon DEF FeedInv, TypeOK
<1>4. NumbersInStep' /\ BooksFollowFeed'
  BY <1>1, Zenon DEF FeedInv, NumbersInStep, BooksFollowFeed, BookAfter
<1>5. StreamerFollowsFeed'
  BY <1>1, Zenon DEF FeedInv, StreamerFollowsFeed
<1>6. (shadow_book = BookAfter(last_seq_num))' /\ RingExact' /\ CacheExact'
  BY <1>1, Zenon DEF FeedInv, BookAfter, RingExact, CacheExact, Slot
<1>7. RepliesWhileSending' /\ SnapshotExact'
  BY <1>1, <1>2, Zenon DEF RepliesWhileSending, SnapshotExact
<1>8. ReplayExact'
  <2> SUFFICES ASSUME reply'.kind = "R" PROVE ReplayExact'
    BY Zenon DEF ReplayExact
  <2>1. /\ client_seq >= oldest_replayable
        /\ reply'.frames = [i \in 1 .. (last_seq_num - client_seq) |->
                              replay_buffer[Slot(client_seq + i)]]
    <3>1. ASSUME reply' = [kind |-> "C", seq |-> client_seq] PROVE FALSE
      BY <3>1, Zenon
    <3>2. ASSUME reply' = [kind |-> "N", seq |-> client_seq] PROVE FALSE
      BY <3>2, Zenon
    <3>3. /\ client_seq >= oldest_replayable
          /\ reply' = [kind |-> "R", seq |-> client_seq,
                       frames |-> [i \in 1 .. (last_seq_num - client_seq) |->
                                     replay_buffer[Slot(client_seq + i)]]]
      BY <3>1, <3>2, Zenon DEF ServeReplay
    <3> QED BY <3>3, Zenon
  <2>2. ASSUME NEW i \in 1 .. (last_seq_num - client_seq)
        PROVE  replay_buffer[Slot(client_seq + i)]
                 = [seq_num |-> client_seq + i, update |-> feed[client_seq + i]]
    <3>1. client_seq + i \in 1 .. last_seq_num
      BY <1>2, Numbers
    <3>2. (client_seq + i) + ReplayCapacity > last_seq_num
      BY <1>2, <2>1, Numbers, SizesAssumption, SMTT(30), SMTT(60) DEF oldest_replayable
    <3> QED BY <3>1, <3>2, Zenon DEF FeedInv, RingExact
  <2> QED BY <1>1, <1>2, <2>1, <2>2 DEF ReplayExact
<1> QED BY <1>3, <1>4, <1>5, <1>6, <1>7, <1>8, Zenon DEF FeedInv

(* The invariant holds when the threads start.                             *)
LEMMA InitFeedInv == Init => FeedInv
<1> SUFFICES ASSUME Init PROVE FeedInv
  BY Zenon
<1>1. /\ marketUpdates = <<>> /\ next_seq_num = 1 /\ publisher = "loop"
      /\ feed = <<>> /\ public_books = <<EmptyShadow>> /\ streamer_updates = <<>>
      /\ streamer = "loop" /\ shadow_book = EmptyShadow /\ last_seq_num = 0
      /\ dirty = FALSE
      /\ replay_buffer = [i \in 0 .. (ReplayCapacity - 1) |-> Unwritten]
      /\ snapshot_buf = NoReply /\ waiting = 0
      /\ reply = NoReply /\ main = "running"
  BY Zenon DEF Init
<1>2. TypeOK
  BY <1>1, SizesAssumption, BoundsAssumption, SMTT(30), SMTT(60) DEF TypeOK
<1>3. NumbersInStep
  BY <1>1, BoundsAssumption DEF NumbersInStep
<1>4. BooksFollowFeed /\ shadow_book = BookAfter(last_seq_num)
  BY <1>1 DEF BooksFollowFeed, BookAfter
<1>5. StreamerFollowsFeed
  BY <1>1 DEF StreamerFollowsFeed
<1>6. RingExact /\ CacheExact /\ RepliesWhileSending /\ SnapshotExact /\ ReplayExact
  BY <1>1 DEF RingExact, CacheExact, RepliesWhileSending, SnapshotExact, ReplayExact,
     NoReply
<1> QED BY <1>2, <1>3, <1>4, <1>5, <1>6, Zenon DEF FeedInv

(* Every step of the engine, the two threads, the clients and stop keeps   *)
(* the invariant.                                                          *)
LEMMA NextFeedInv == FeedInv /\ [Next]_vars => FeedInv'
<1> SUFFICES ASSUME FeedInv, [Next]_vars PROVE FeedInv'
  BY Zenon
<1>1. ASSUME NEW u \in Updates, EnginePush(u) PROVE FeedInv'
  BY <1>1, EnginePushKeeps, Zenon
<1>2. CASE Publisher
  BY <1>2, FanoutKeeps, PushSnapKeeps, ThreadsMove, Zenon DEF Publisher
<1>3. CASE Streamer
  <2>1. ASSUME NEW client_seq \in 0 .. Len(feed), ServeReplay(client_seq) PROVE FeedInv'
    BY <2>1, ServeReplayKeeps, Zenon
  <2> QED BY <1>3, <2>1, DrainOneKeeps, ServeSnapshotKeeps, ThreadsMove, Zenon DEF Streamer
<1>4. CASE Connect \/ StopStep
  BY <1>4, ThreadsMove, Zenon
<1>5. CASE UNCHANGED vars
  <2>1. /\ UNCHANGED Kept
        /\ UNCHANGED <<publisher, streamer, waiting, reply, main>>
    BY <1>5, Zenon DEF vars, queueVars, clientVars, feedVars, bookVars, Kept
  <2>2. TypeOK'
    BY <2>1 DEF FeedInv, TypeOK, Kept, feedVars, bookVars
  <2>3. reply' # NoReply => streamer' = "send"
    BY <2>1, Zenon DEF FeedInv, RepliesWhileSending
  <2> QED BY <2>1, <2>2, <2>3, MovesKeep, Zenon
<1> QED BY <1>1, <1>2, <1>3, <1>4, <1>5, Zenon DEF Next

(* The invariant holds in every state.                                     *)
THEOREM FeedInvariant == Spec => []FeedInv
BY InitFeedInv, NextFeedInv, PTL DEF Spec

(* The variables of publisher and streamer keep their types, and no queue  *)
(* between the threads ever holds more than its capacity.                  *)
THEOREM MarketDataTypeCorrect == Spec => []TypeOK
<1>1. FeedInv => TypeOK
  BY Zenon DEF FeedInv
<1> QED BY <1>1, FeedInvariant, PTL

(* The streamer loses no update and is never ahead of the feed: what it    *)
(* has applied, what is queued for it and what is about to be pushed are   *)
(* together the datagrams sent, in order, for every size of the queues.    *)
THEOREM StreamerLosesNothing == Spec => []StreamerFollowsFeed
<1>1. FeedInv => StreamerFollowsFeed
  BY Zenon DEF FeedInv
<1> QED BY <1>1, FeedInvariant, PTL

(* Every snapshot sent, cached or baked for this client, is the public     *)
(* book after exactly the updates that its sequence number claims.         *)
THEOREM SnapshotsExact == Spec => []SnapshotExact
<1>1. FeedInv => SnapshotExact
  BY Zenon DEF FeedInv
<1> QED BY <1>1, FeedInvariant, PTL

(* Every replay sent is the feed's own updates right after the client's    *)
(* sequence number, for every capacity of the ring: no entry is served     *)
(* after it was overwritten.                                               *)
THEOREM ReplaysExact == Spec => []ReplayExact
<1>1. FeedInv => ReplayExact
  BY Zenon DEF FeedInv
<1> QED BY <1>1, FeedInvariant, PTL
=============================================================================
