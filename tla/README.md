# NanoExchange in TLA+

A verification project for the exchange in `src/`: TLA+ modules for its
components, TLC configurations that check them on small instances, and proofs
that TLAPS checks for every instance. Paths below are relative to the repository.

## The system

Four threads, connected by bounded single-producer single-consumer queues:

    clients --TCP/OUCH--> gateway --requestQ--> matching engine
    clients <--TCP/OUCH-- gateway <--responseQ-- matching engine
    matching engine --marketUpdateQ--> publisher --UDP/ITCH--> subscribers
    publisher --queue 2--> streamer <--TCP--> recovering subscribers

| Component | Source (`src/src/`) | State | Operations |
|---|---|---|---|
| Map order book | `engine/order_book/order_book_map.*` | order pool, price levels, `orders_` index, id counter | insert, remove, match, addOrder, cancelOrder, replaceOrder |
| Vector order book | `engine/order_book/order_book_vector.*` | the same with a price-indexed array, a list of occupied levels, cached best levels | the same |
| Matching engine | `engine/matching_engine.*` | books, match id counter | processClientRequest, run, stop |
| Token manager | `network/gateway/token_manager.h` | tokens to ids, ids to tokens | registerNewToken, getID |
| FIFO sequencer | `network/gateway/fifo_process.h` | pending requests | addToPending, publishPendingOrders, growPending |
| Gateway | `network/gateway/order_server.h` | client ids by socket, sockets by client | onRecv, onRecvFinished, drainResponses, onDisconnect, run, stop |
| OUCH, ITCH | `network/protocol/*` | none | decodeOuch, encodeOuch, encode |
| Publisher | `network/market/marketdata_publisher.h` | sequence number, queue 2 | run, stop |
| Streamer | `network/market/snapshot_stream.h` | shadow book, replay ring, cached snapshot, last sequence number | run, applyToBook, serveSnapshot, serveReplay, stop |
| Process | `main.cpp` | run flag | start and stop order |

The QuantLink submodule (queues, pool, sockets, wire structs) is not in the
repository and is modelled from its use.

What is hard here: a request moves an order between three structures that must
agree, in steps that can be held up in a full queue; a trade must take the right
order after removals changed the book; two accounts of the same events, private
and public, must match the book; the streamer's knowledge lags the feed, its
replay ring overwrites itself and its snapshot is cached; slow clients hold it up;
and stopping has to get threads out of their waits. `PROJECT.json` lists these
hazards at their lines.

## Modules

| Module | Models |
|---|---|
| `Maps` | insertion and erasure in the standard maps |
| `PriceTimeBook` | what an order book promises: the abstract specification |
| `OrderBookMap` | one map order book, as a record and operators on it |
| `MatchingEngine` | the engine thread over one map book per ticker |
| `MapBookRefinement` | the refinement mapping from `MatchingEngine` to `PriceTimeBook` |
| `OrderBookVector` | one vector order book, pointer by pointer |
| `VectorEngine` | the engine over vector books, and its refinement mapping |
| `ClientLedger` | the engine, with what each client adds up from its OUCH messages |
| `ShadowBook` | `applyToBook` |
| `ItchFeed` | `encode`, and a subscriber of the ITCH feed |
| `PublicFeed` | the engine composed with the shadow book and a subscriber |
| `Gateway` | gateway thread: sockets, client ids, tokens, sequencer, routing |
| `Pipeline` | gateway, engine, publisher and `main` around their bounded queues |
| `MarketData` | publisher, streamer, recovery clients, `MarketDataPublisher::stop` |
| `MatchingEngineProofs` | theorems on the map book and the engine over it, which implements `PriceTimeBook` |
| `VectorEngineProofs` | the vector book's lists stay right |
| `VectorRefinementProofs` | the vector book's updates account for its changes, and the engine over it implements `PriceTimeBook` |
| `ClientLedgerProofs` | the responses add up |
| `PublicFeedProofs` | the public books differ from the book in two ways only |
| `GatewayProofs` | routing of responses, sequencer, tokens |
| `PipelineProofs` | no request is lost or done twice |
| `MarketDataProofs` | publisher, streamer, snapshots and replays |
| `MC*` | the instances for TLC; `MCEngine` puts engine, ledger and public feed together |

**Book.** A pointer to an order is its market order id, which is never reused. A
doubly linked price level is the sequence of its ids from head to tail; the empty
sequence is a level the `std::map` does not hold. The nested `orders_` map is one
map from pairs. The pool never runs out.

**Engine.** A request is handled in steps: the handler up to its call of `match`
(`AddOrder`, `ReplaceOrder`; `CancelOrder` is one step), one `Fill` per iteration of
the inner loop, and `Filled`, `Rest` or `Kill` after it. `taker` holds the
handler's locals. `responses` and `marketUpdates` are what the last step pushed.
Requests are those `decodeOuch` lets through: fresh ids, and the client and ticker
an id was registered with. They name existing tickers. Prices and order types in
responses, and tokens, are left out. `next_match_id` is unbounded, but every
request has finitely many fills.

`order_book_map.cpp:83` reads `priceLevel.head` after `remove` may have erased the
map node around it. This is undefined behaviour. `remove` has set the field to
null, and freeing a node of this size overwrites only its first words, so the
model takes the read to see null, which ends the inner loop.

**Abstract book.** `PriceTimeBook` knows resting orders by their number of arrival
and the order in hand, and has no levels, lists, caches or indexes. A trade takes the
first in line; an order settles only when it crosses nothing. Both engines implement
it: market order ids are the arrival numbers, the pool is what rests, and the
handler's order is the one in hand. Messages are hidden, so the two may differ there.

**Vector book.** Pointers to orders are ids and pointers to levels are prices; the
next and previous links of both lists and the two cached best levels are kept as they
are, because they are what the book can get wrong. `match` holds the level it is at
across removals. A price beyond `MAX_PRICE_LEVELS` is not modelled.

**Gateway.** A session is a TCP connection; its descriptor may later be another's.
The thread goes round the loop of `run` in steps, so that the engine can take
requests while a batch is being pushed. One read carries one timestamp. `std::sort`
may give any order of equal timestamps once the range is too long for its insertion
sort (16 elements in libstdc++; `StableSortLimit` here). Each message is made up when
it is decoded; splitting the byte stream into messages is left out. The engine takes
requests and responds to any order it has seen, at any time; after a replace, under
the old id or the new one.

**Pipeline.** Requests are numbers with a timestamp, and the book is any of a few scripts
of responses and updates; what remains is who waits for whom, and where a request is.
The sequencer sorts, pushes what fits, retains the rest, is published early when its
buffer overflows and grows when that made no room; here the sort may order equal
timestamps in any way, whatever the length. Which order comes out is `Gateway`'s
matter. A request stays in `requestQ` while it is worked on, as `updateNextRead` comes
last.

**Ledger and public feed.** Both are the engine with variables that follow its
messages. Queues are lossless and ordered, so a message is applied in the step
that pushes it; the result is the state once the queues have drained. A step of the
engine pushes at most one update.

**Market data.** The publisher's step between the UDP send and the push to queue 2
is separate, because a recovery request can be served in between. The streamer
has a step per update drained, poll, accept, request and reply. A client may be
silent, close, or not read its reply; `RecvFails` and `SendReturns` are the
deadlines. Any number of clients may come, `Backlog` of them waiting at a time (16 in
the code). A replay request names any published sequence number. The status byte and
the frames of a replay are one reply. `public_books` is history: the book after
each prefix of the feed, against which shadow book and snapshots are compared.
`encode` gives a message for each update type the engine pushes, so its failure
branch is left out.

## Runs

| Run | Shows |
|---|---|
| `engine` | books consistent (`BooksConsistent`) and never crossed (`BooksUncrossed`), `PriceTimePriority`; every request is handled to its end (`MatchEnds`); the map book implements the abstract one (`ImplementsPriceTimeBook`); the responses account for every share (`ResponsesAccountForBook`, `LeavesAgree`); the shadow book is exact but for two cases, which account for every deviation (`ShadowExactOtherwise`); a subscriber of the feed and one of the snapshot agree (`SubscriberAgreesWithSnapshot`); the critical error of `applyToBook` occurs in the first case only (`TradeUnknownOnlyAfterPartCancel`); the inductive invariants `IInv` and `LedgerInv`, and `ShadowSupport`, which completes `ShadowInv` |
| `vector_book` | the lists and caches agree with the orders (`VectorBooksConsistent`); it implements the same abstract book (`VectorImplementsPriceTimeBook`) and never sits on the order in hand, whichever level `match` points to (`VectorDealsWithHand`); its updates account for every change to a resting order (`UpdatesExplainBook`); `VectorSupport`, which with `VectorBooksConsistent` makes the inductive invariant `VectorInv` |
| `gateway` | no request is lost or doubled (`NothingLost`); a cancel or replace finds its session's newest order of that token (`TokensResolve`); responses go to their owner or to nobody (`ResponsesReachOwner`), never to a closed socket (`SocketsOpen`); order of requests (`RoundSorted`, `ClientFifo`); `SequencerSupport` and `TokenSupport`, which with these properties make the inductive invariants `SequencerInv` and `TokenInv` |
| `pipeline` | no request is lost or done twice (`RequestsKept`), and each is answered (`EveryRequestAnswered`); the process stops but for one named case (`StopReturnsUnlessStranded`) |
| `market_data` | `SnapshotExact`, `ReplayExact`, `StreamerFollowsFeed` and the inductive invariant `FeedInv`; once the recovery clients let up, what was sent is applied (`SentIsApplied`) and `stop` returns (`StopReturns`) |
| `partial_cancel` | violated: after a partial cancel the shadow book lacks an order that rests |
| `crossing_replace` | violated: a replacement that trades on arrival stays in the shadow book with its full quantity |
| `echoed_quantity` | violated: an order that traded on arrival is later reported with the quantity it came to rest with, not the one it was entered with |
| `vector_cancel` | violated: the vector book answers a cancel with what remains of the order instead of what was canceled |
| `shutdown` | violated: the engine stops with requests still in `requestQ` |
| `current_reply` | violated: a client that missed the last datagram can be told it is current |
| `stuck_client` | violated: with queue 2 full, a recovery client holds up the publisher |

The violated runs state what the README, a comment or a test says; `PROJECT.json` quotes
the lines under `findings`.

Some passing properties say exactly how far the code goes, where a document says
more:

- `RoundSorted`, `ClientFifo`: requests of one round are in the order of their
  timestamps unless the pending buffer overflowed in the middle of the round, and
  one client's requests in the order sent unless an unstable sort met the equal
  timestamps of one read. The README's "FIFO sequencing" makes neither exception.
- `VectorImplementsPriceTimeBook`: the README's "identical semantics" holds of the two
  books, not of their messages. Besides what `vector_cancel` shows, the vector book sends
  no match id with a trade, and nothing when it drops the remainder of a FillAndKill
  replacement.
- `StopReturnsUnlessStranded`: once the gateway has stopped, an engine that needs
  more room in `responseQ` waits for ever, and `main` with it.
- `SentIsApplied`, `StopReturns`: `serveRequests` returns only when `accept` finds no
  client, so clients that keep connecting hold the streamer there; then queue 2 is not
  drained and `run_` not looked at. Both properties assume `ClientsLetUp`, and each has
  a counterexample without it.

**Bounds.** Engine: three prices, so that an order can trade through two levels and a level
can lie between two others; quantities 0 to 2 (full, partial, excess, and the zero that means "all" in a
cancel); three order ids, enough for a level of two orders and a taker, or an order, its
replacement and a counterparty. One client and one ticker: the engine takes both from
the id that a request names and compares them with nothing, books of different tickers
share only the counter of match ids, and the theorems hold for every number of each.
Market data: three updates on a ring of two slots, so that it wraps; queues of one, so
that they fill; one recovery client served while another waits, and any number after
them, so that one meets the snapshot cached for another. Vector book: three prices, so that a level in the
middle of the list comes and goes, three orders and quantities up to 3, so that an
order takes all of one level and part of the next. Gateway: two sessions and two
descriptors, so that one session inherits the other's; one token, which both use and
use again; a buffer of two and queues of one, so that four messages overflow, grow
and are retained; two timestamps, where those of one session's reads increase
strictly (two reads of one socket in the same nanosecond are left out). Pipeline:
queues of one and two, a pending buffer of one that overflows and grows, two
timestamps, and a request with more responses than `responseQ` holds. `MaxUpdates`,
`TokenPoolSize`, `MaxMessages`, `MaxTime` and `MaxRequests` bound the behaviours.
Deadlock is checked in the runs of the engines and the gateway; market data and the
pipeline really stop.

**Fairness.** The engine is fair to a handler it has begun, not to new requests.
Publisher and streamer are fair because they are pinned, busy-polling threads; the
streamer's waits for a client end at the socket deadlines. `stop`, once called, is
carried through. In `Pipeline` gateway, engine and publisher are fair for the same
reason and `main` carries on with what it has begun; the signal need not come.
Nothing is assumed of the engine as a source, and of clients only `ClientsLetUp`, where
a property names it.

Each property comes with a mutated definition (`Name_Change`, next to the
original) that breaks it.

## Theorems

Each holds for every value of the constants; what is assumed of them is said below.
A component's invariant is checked by TLC in its run before it is proved, and has
one lemma per action, or per group of actions that leave alone what it speaks of.

### Book and engine

Assumed: prices are numbers with a greatest one (they are 32-bit), and the bounds on
quantities and ids are numbers.

- `EngineInvariant`: `Spec => []IInv`
- `EngineTypeCorrect`, `EngineBooksConsistent`, `EngineBooksUncrossed`: its parts
- `EnginePriceTimePriority`: `Spec => PriceTimePriority`
- `EngineImplementsPriceTimeBook`: `Spec => ImplementsPriceTimeBook`

Consistency is not inductive alone. An inserted order must be newer than all
others to keep its level in order of arrival, and its key must be unused for the
index to stay one to one; so `IInv` adds what is known of the order in hand
(`TakerIsNew`) and that the index holds known ids only (`IndexedIdsKnown`). That
bids stay below asks follows from the end of `match`: a side with an order has a
best price (`BestPriceExists`), so if the loop cannot run, the order crosses
nothing (`NothingLeftToTrade`). The first part of `MatchingEngineProofs` shows what
`insert`, `remove` and `SetRemaining` preserve; the second has one lemma per action; the third is the refinement.
Priority follows from consistency: the head of the best level is the oldest order
at the best price.

The refinement rests on the same invariant. `RestingIn` maps a book to its resting
orders; `insert`, `remove` and `SetRemaining` appear through it as `Assign`, `Erase`
and an update of one order. The head of the best level is then the abstract book's
first in line, `match` ends only where the abstract order may settle, and what the
index finds is what is canceled. That the order in hand is dealt with (`MatchEnds`) is
left to TLC.

### Vector book

Assumed: prices are numbers, as indexes of `bids_` and `asks_` are, and the bounds on
quantities and ids are numbers. The prices may be infinitely many.

- `VectorBooksStayConsistent`: `Spec => []VectorBooksConsistent`
- `VectorSupportHolds`: `Spec => []VectorSupport`
- `VectorUpdatesExplainBook`: `Spec => UpdatesExplainBook`
- `VectorEngineImplementsPriceTimeBook`: `Spec => VectorImplementsPriceTimeBook`

That the links describe the orders is stated without walking along them: `IsList` says
of every node which node of the set is next and which is before it. Linking or
unlinking a node is then a matter of its two neighbours (`UnlinkFollows`, `LinkFollows`),
for levels and for orders alike. Only `insertPricelevel` walks; that its walk stops at
the level right before the new one (`WalkEnds`) comes from the level nearest to the new
price, which exists among any set of better prices.

`insert` and `remove` keep a book consistent only if a new order is newer than those in
its level and its key is unused, and `match` reads a level that may have left the list.
So `VectorInv` adds to consistency that resting orders are registered and have something
left, that the order in hand is newer than all of them, and `LevelInHand`: the level
pointer of `match` is the best level, or one that its fills have emptied and whose price
it could still trade at. It is the last that makes `level = best_ask_` at the end
of the inner loop right: without it an emptied level would be taken for the end of the
book, or a worse level be traded at before the best. The head of the level in hand is
then the abstract book's first in line. Fetching the level again is a stutter.

`UpdatesExplainBook` is shown action by action from `VectorInv`: that an update about one
order leaves the others as they are needs that ids are not shared.

### Client ledger

Same assumptions as for book and engine.

- `LedgerInvariant`: `LedgerSpec => []LedgerInv`
- `ResponsesAddUp`: `LedgerSpec => []ResponsesAccountForBook`
- `LeavesAlwaysAgree`: `LedgerSpec => []LeavesAgree`

The others follow from `LedgerInv`. To the sums it adds who an order is: every order in a
book or in hand is registered under its id with its client and ticker, so that no two
orders share an entry of the ledger and a message about one leaves the others' sums
alone. It also says what an order's `initialQuantity` is, namely what was left of it when
it came to rest: the fact behind the run `echoed_quantity`.

### Public feed

Same assumptions as for book and engine.

- `ShadowAlwaysTied`: `FeedSpec => []ShadowSupport`
- `SnapshotsExactOtherwise`: `FeedSpec => []ShadowExactOtherwise`
- `SubscribersAgree`: `FeedSpec => []SubscriberAgreesWithSnapshot`
- `UnknownTradesExplained`: `FeedSpec => TradeUnknownOnlyAfterPartCancel`

All follow from `ShadowInv`, relative to `IInv`. `ShadowExactOtherwise` speaks of the
time between requests; `ShadowSupport` adds what holds while one is handled. Each
ticker's shadow book is then a view of its pool: resting orders are shown unless
canceled in part, exactly unless they are replacements that traded. The exception is the
order in hand: one that was entered is not shown before it rests, while a replacement is
shown from its MODIFY on, before it has traded, and with the quantity it had then. The
exceptions named by the histories are ids given earlier, so that a new order is never
one of them. The lemmas take a ticker at a time: what an update does to the
view when the order is added, erased or lowered in the pool in the same step.

### Gateway

Assumed: the sizes of queues, buffer and token pool are numbers, those of buffer and
queues not zero.

- `ResponsesToOwners`: `Spec => []ResponsesReachOwner`
- `NoStaleSockets`: `Spec => []SocketsOpen`
- `EveryRequestOnce`: `Spec => []NothingLost`
- `SequencerStaysInOrder`: `Spec => []SequencerSupport`
- `RoundsEnterSorted`: `Spec => []RoundSorted`
- `SessionsEnterInOrder`: `Spec => []ClientFifo`
- `TokensStayLatest`: `Spec => []TokenSupport`
- `CancelsNameOwnOrders`: `Spec => []TokensResolve`

The first two follow from `GInv`. Where a response goes depends on a
chain: the response has the client of a request, the request that of its order's
token, and the client's socket is that of the session that registered the token.
`GInv` has a conjunct for each link. The step that
needs most of it is `onDisconnect`: that erasing one client leaves the others' sockets
alone rests on sockets and clients
being one to one, and that a descriptor's next owner gets none of the old responses
rests on client ids never being given twice.

The next four follow from `SequencerInv`, relative to `GInv`. What has entered
`requestQ` is in order only because of what still waits: so `EnteredFirst` says that
everything entered may precede everything waiting, `PendingInOrder` what
`pending_sorted_` means and that only an unstable sort exchanges a session's equal
timestamps, `StampsFollow` that timestamps follow the order of a session's requests
and that no request of a round is there before the round begins, and `HeldIsLast`
that the request `onRecv` holds during an overflow is the newest. The exceptions in
`RoundSorted` and `ClientFifo` come from two places alone, the push during an
overflow and the sort beyond its stable range.

The last two follow from `TokenInv`, relative to both: a client id belongs to one
session for good, although descriptors do not (`ClientsAreSessions`); ids are given in
the order of the requests that enter orders (`IdsInOrder`); and `token_to_id_` holds
the last id that its client gave the token (`LatestIds`).

### Pipeline

Assumed: capacities are numbers other than zero.

- `RequestsNeverLost`: `Spec => []RequestsKept`

`PInv` adds to the property that the requests of the three places and those done are
pairwise different numbers up to `received` (`Apart`), that a request is held only
during an overflow, and that the request the engine works on is still the head of
`requestQ`. A sort is a bijection of positions, so it keeps the numbers in `pending` and
keeps them apart (`NumbersSorted`, `SortApart`). In which order they come out is proved of
`Gateway`.

### Market data

Assumed: the capacities are numbers other than zero. Updates are any set; nothing is
assumed of `applyToBook`.

- `FeedInvariant`: `Spec => []FeedInv`
- `MarketDataTypeCorrect`: `Spec => []TypeOK`
- `StreamerLosesNothing`: `Spec => []StreamerFollowsFeed`
- `SnapshotsExact`: `Spec => []SnapshotExact`
- `ReplaysExact`: `Spec => []ReplayExact`

`FeedInv` relates the streamer to the feed: its book is the book after the updates it
has drained, what it has not drained is in queue 2 or in the publisher's hand
(`StreamerFollowsFeed`), the ring holds the last updates each in its slot
(`RingExact`), and the cached snapshot is out of date only while `dirty_` says so
(`CacheExact`). The book after `n` updates would be a fold over the feed, which the
provers cannot unfold; `public_books` keeps it as history and `BooksFollowFeed` says
that it is the fold.

### Model-checked only

Liveness and everything under fairness (`MatchEnds`, `VectorDealsWithHand`, `EveryRequestAnswered`, `StopReturnsUnlessStranded`,
`SentIsApplied`, `StopReturns`), which is out of the prover's reach. Every safety
property that a passing run checks has a theorem.

## Not modelled

- Wire layouts, byte order, framing of the TCP stream, socket errors, logging,
  instrumentation (`perf_utils.h`), argument parsing and thread pinning: no property
  here is about them.
- The inside of the QuantLink queues, pool and sockets, which are not in the
  repository. The pool never runs out and queues are lossless and ordered.
- Prices outside the vector book's array of `MAX_PRICE_LEVELS`: the code indexes it
  without a check (`order_book_vector.cpp:97`), so the behaviour is undefined; the
  model's `Prices` are indexes of the array.
