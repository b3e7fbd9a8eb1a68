# A formal model of kalshi-engine

This directory holds TLA+ modules that model the live trading engines of
`src/kalshi_engine`, TLC configurations that check them on small instances,
and TLAPS proofs of their main invariants for every value of the constants.
`PROJECT.json` maps each definition to the lines it models and lists the runs,
the mutants, the findings, the hazards and the theorems.

## The system

kalshi-engine trades binary markets of the Kalshi exchange. One process is one
asyncio loop; its tasks share memory and interleave only at `await`. Below,
paths are relative to `src/kalshi_engine`.

| component | state | operations | talks to |
|---|---|---|---|
| 15-minute engine: `bin/live.py`, `strategies/favorite_chase/` | `markets`, `decided`, `entered`, `_last_eval_ms`; an unbounded `asyncio.Queue` of events | boot, `pump` per feed, `_route`, `on_event`, shutdown | feeds (queue), envelope and execution (calls), discovery (shared strategy) |
| risk envelope: `risk/envelope.py` | `RiskState`: clock of the events, last spot per crypto, open positions, daily PnL | `check` | called by the event loop for each envelope of the strategy |
| live execution: `execution/kalshi_live.py`, `kalshi_client.py` | `open_positions`, the HTTP session, the fill WebSocket | `submit`, boot and shutdown reconcile, order-update listener | exchange REST and WebSocket, JSONL log |
| daily PnL: `risk/pnl_reconcile.py` | none; reads the JSONL log | `reconcile_today_realized_cents` at boot and every 30 s | writes `RiskState.daily_realized_cents` |
| discovery and subscription: `bin/live.py`, `feeds/kalshi_ws.py` | `strategy.markets`; the feed's `_tickers` and socket | a pass every 60 s, `add_tickers`, the reconnect loop, lifecycle events | REST listing, market WebSocket |
| order book: `feeds/kalshi_ws.py` | per ticker: two ladders, `last_seq`, `gaps`, `duplicates`; `parse_errors` | snapshot, delta, book event | exchange (messages), strategy (BookEvent) |
| 1-hour engine: `bin/live_1hr.py`, `strategies/hourglass_trader`, `hourglass_ladder` | three strategies with their own locks, caps and PnL | one event through trader, ladder and sweeper, then their envelopes in turn | the same feeds, envelope and execution |
| commodity engine: `bin/live_commodity.py`, `strategies/commodity_daily`, `feeds/pyth_spot.py` | `markets`, `entered`, `evaluated`, daily spend, `latest_pyth` | a pass every 5 s over all strikes, market refresh every 300 s, spot poll every 10 s, orders | exchange REST only, Pyth REST |
| equity engine: `bin/live_inxu_v0.py` | the same without spend | the same | exchange REST, Alpaca |
| spot feed: `feeds/spot_ws.py` | the source in use, attempts, `failure_count`, `had_event`, the fallback's deadline | warmup, socket sessions, backoff, rounds of polls, fallback and return | Coinbase, Bitstamp; the event loop |
| cutpoints: `strategies/favorite_chase/models/phase4_cutpoints.py` | thresholds of an artifact, the mode; no memory | `evaluate` | called by every strategy that chases a favourite |
| backtest: `backtest/`, `bin/backtest.py`, `warehouse/` | the merged streams of a capture, open positions, the summary | replay of a window, simulated fills, resolution of results | parquet files, the real strategy and envelope |
| observers, research | logs and parquet files | write-only | nothing that trades |

What is hard in this code, and where (the full list with lines is in
`PROJECT.json`, "hazards"):

- *An order whose reply is lost.* The request may time out after the exchange
  matched it, or before it will. Nothing tracks client order ids.
- *Two reports of one fill.* The REST reply and the fill channel both write
  `open_positions[ticker]`; either may be late, split, or lost.
- *Restart.* Locks live in memory. A new process learns from the account, if
  that request works, and the learning counts in one of the two reentry modes.
- *The daily loss.* Nothing books a loss when it happens. It is derived from a
  log whose records are stamped when written and lost while a socket is down.
- *Discovery against reconnection.* A new market is heard of only by closing
  the feed's socket at the right moment.
- *A numbered stream that is not repaired.* Gaps are counted, not healed.
- *A check, an await, a record.* The commodity engine checks its caps, sends the
  order and records the spend after the reply; the time of a pass and the price
  of an evaluation are read before requests and used after them.
- *Three strategies on one event.* The 1-hour engine sends what they decided one
  order after the other; a strategy books a rung when it decides it, and
  no strategy learns what became of its order.
- *Sources of spot.* Sockets refuse, hang, close and fall silent; the fallback
  must start within a bounded time and give way again.
- *Two clocks in one capture.* Rows are sorted by the exchange's stamp and merged
  with the bars by receipt, so that a delayed row is replayed out of order.

Properties that make each component correct: a market is bought once per
cycle, by one order, within the size limit, whatever restarts and timeouts do
(engine, execution); a position is not forgotten and not overstated
(execution); a bound loss cap stays bound over a restart, and a logged loss
binds it (PnL); a live subscription carries the whole list and an open market
is heard of in the end (discovery); drift that no counter
shows stays at the levels whose message named too little, and the favorite read
from a clean ladder is real (order book); one process
stays within its spend caps, orders a strike again only after an error, and not
more often than there are marks (commodity); one trader order and one volley of
each sweeper per cycle, whose caps see every contract bought (1-hour engine); spots
keep coming (spot feed); an entry knows no more of the future than the delay of a
message and the difference of two clocks, and each position is counted once (backtest); no mode buys against the spot
unless the ladder is crossed (cutpoints).

## The modules

| module | models | abstracts |
|---|---|---|
| `EntryLedger` | the promise of a one-shot engine: a market is bought once, unless it is *exposed*: the last boot could not vouch for it | everything else |
| `FavoriteChase` | the 15-minute engine, its envelope, its execution, the fill listener, the exchange's account and its orders in flight | the Phase-4 model is a verdict (skip, or enter with a size); the loss cap is a veto that may strike any entry |
| `FavoriteChaseProofs` | theorems about it | |
| `DailyLossCap` | the log, the fold over it, boot and periodic reconciliation, both sockets, determination, midnight | the rest of the envelope; one position per market |
| `DailyLossCapProofs` | theorems about it | |
| `MarketSubscription` | discovery passes, `add_tickers`, `events()` and its reconnects, lifecycle registration | contents of messages |
| `FeedProofs` | theorems about it and about `SpotFeed` | |
| `OrderBook` | one market's ladder and its counters, the stream of numbered messages, reconnects, the favorite | prices are a small set of levels; trade events carry no state |
| `OrderBookProofs` | theorems about it | |
| `CommodityDaily` | the commodity engine: refresh and pruning, window, marks, passes, caps, orders, spot polls, shutdown, restarts | the book, the confidence of a price and the model are a choice among skip and enter with a cost |
| `CommodityDailyProofs` | theorems about it | |
| `Hourglass` | the 1-hour engine: discovery and lifecycle registration, the trader, ladder and deep-ITM sweeper on each event, envelopes served in turn, orders, settlements, midnight, restarts | scores, depth and prices are a choice; the envelope is a veto or a cut |
| `HourglassProofs` | theorems about it | |
| `ReceiptOrder` | the promise of a replay: each event once, none before one received earlier by more than a given slack | everything else |
| `Replay` | the backtest: registration, streams and their merge, dispatch, envelope, simulated fills, fees, settlement and its resolver | the model's verdict is a choice; decision logs and reports |
| `ReplayProofs` | theorems about it | |
| `SpotFeed` | warmup, the three sources, sessions, backoff, fallback and return, rounds of polls | prices; durations are seconds added up |
| `Cutpoints` | `evaluate`: features, vetoes and the fifteen sizing modes | the normal distribution is a table `Phi`, the rolling volatility an input |
| `CutpointsProofs` | theorems about it | |
| `MC...` | values of the constants for TLC | |

### FavoriteChase

An action is what the loop runs between two awaits. `Pop` takes one event from
the queue and moves `risk_state.now_ms` forward by its stamp; it is disabled
while `order` is not `NoOrder`, because the consumer awaits `submit` inline.
Everything else goes on during that await: feeds enqueue, discovery registers
markets, the fill listener writes `open_positions` (`ApplyFill`) or passes over a message it
cannot use (`SkipFill`), the exchange matches. Two clocks meet in the queue:
a book is stamped by its receipt, a spot by its venue, at most `MaxLag` behind and
`MaxLead` ahead of our clock.
`Evaluates` is the chain of early returns of `_on_book`, in both reentry modes.
`Enter` locks the market before the envelope is asked, as the code does, so
`EnterVetoed` leaves it locked. `EnterSubmitted` puts a request on the `wire`;
`Match` takes it off, at any later time, for any part of its size; the reply
reaches the engine only if that same request is still awaited. `OrderError`
covers an HTTP error, the ten-second timeout and an unreadable reply: all three
log and forget. `Boot` is one action although the code awaits inside it, since
no event is handled and no order sent before it ends; `Die` is an end of the
process at any await. `bought`, `exposed`, `blind`, `missed` and `unanswered`
are history: they state properties and guard nothing.

### DailyLossCap

`Reconcile` is the fold of `reconcile_today_realized_cents`, per market: entry
fills of the day, and the last settlement record of the day. A record is
stamped when it is written (`LogFill`, `RouteSettlement`), not when the fact
happened. `Enter` is the cap's check and the sending of the order; the exchange
may `Match` it while the reply is awaited, after the await was given up, or after
the process ended, and `Refresh` may run at any point in between. Orders remember
in `unread` whether their process had read the log. `Announce` queues a settlement only while the feed is up. A `determined`
message without a value is logged as 0.0 (`SettleValue`). Costs are whole
cents with the fee inside. The fold over several fills at different prices is
modelled; each market is entered once a life, which the other module shows
under its conditions.

### MarketSubscription

A pass is `StartPass`, one `Discover` or `DiscoveryError` per series in order,
then `AddTickers`; `PassError` is the outer `except`, and `PassDies` the end of the
task when the handler's own write fails. `listed` are the markets whose listing
has a strike, both times and a short cycle; the loop passes over the others. `AddTickers` closes the
socket and the feed notices later (`closing`, then `Reconnect`). The command of
`Subscribe` is built from the list as it then stands.

### OrderBook

`hist` is the exchange's book after each message of the connection, so
`hist[lastSeq]` is what the ladder should be. A change is sent as a difference
or as a new size; the network leaves it out or repeats it. `OnDelta` takes
the number first, as the code does; the rest may then fail to parse, which is
counted, or lack its side, price or amount, which is not. `base` is the
reading of the counters at the snapshot, with the levels whose message was
dropped uncounted since. Numbers are per market, since that is
how the code compares them. The connection numbers its messages from the
snapshot on.

### CommodityDaily

An action runs from one await to the next. `GoOn` is the rest of the pass: it
skips the strikes that are not due without an await, so it is part of the action
that ends the await before. `StartPass` reads the time once (`passNow`), and
`Listed`, `NoEntry` and `OrderReply` go on with it, however late. The price of an
evaluation is taken before the book is requested (`current.quote`). `Submit`
checks the caps and marks the strike before the order is sent; the spend is
recorded by `OrderReply`, with no look at the day. `OrderError` frees the strike,
whatever became of the order. A commodity's price is none, history (candles
only), fresh, or too old: a poll that fails changes nothing (`Stale` is time
passing). The keys of `markets` are a set with the order `before` in which they
were added, new ones as the exchange lists them (`Listing`, one order for all
listings); a pass takes the first due in that order and `todo` is what comes after
it. `NoShim` is the end of a process, after which everything is forgotten;
`orders`, `failed`, `paid`, `paidTotal` and `onOld` are the history of the running
process: `paid` counts an order from the moment it is sent, the engine's `spend`
only from its reply. A dry run is an order that is answered at once.

### Hourglass

`BookEvent` is one event through the three strategies: the trader's early
returns (`Evaluates`, `Enters`), its lock of the cycle and the size levers
(`TraderSize`); the sweepers' windows, caps and selections (`Triggers`, `Fires`,
`Selections`). What they decide is appended to `pending`, and `Veto` or
`Submit` takes its head, since the loop awaits every order before the next
event. A sweeper notes its rungs in the action that decides them
(`SweepersFire`); `OrderEnds` tells no strategy anything. `Settlement` books the
rungs of a ticker once, with the reset of the tally inside (`Tally`). Events may
be late: `seen` is the receipt stamp of the last one and the strategies go by
it, the exchange goes by `clock`. The tally alone goes by two clocks: a trigger
brings it to the day of its receipt, a settlement to the day of the exchange's
`stamp`, which may be any after the close. `left` holds the days a tally was
thrown away for; `TallyExact` and `CapStopsSweeper` speak of a day the tally did
not leave before, which is all the code gives: without that condition the run
finds a tally wiped by a settlement of the evening that is handled after
midnight, and a sweeper that fires past its cap. `sent`, `bought`, `booked` and
`left` are history.

### Replay and ReceiptOrder

A state holds a whole capture. `Merged` is the head that `heapq` would pick: the
first by `Key`, kind and stream among the rows of the burn-in, against the
first bar by receipt. `HandleBook`, `HandleTrade`, `HandleSpot` and
`HandleSettlement` are the branches of `_dispatch`, with the strategy's gate, the
envelope's freshness and the simulated fill inside the one action. `Resolve` is
the `SettlementResolver` under its three policies. With `pending` mapped to the
receipt times of what is left, a replay implements `ReceiptOrder` with a slack of
`MaxSkew`: the longest way from a stamp to its receipt in the captures, and the most by
which the exchange's clock is ahead of ours. The docs promise a slack of 0. A capture with a delayed message is replayed out of order, and
then a decision may rest on a spot received after its book; this is one of the
findings. `heard`, the receipt of each `lastSpot`, states by how much
(`LookAheadBounded`). Determined rows may contradict each other or be
unreadable: the replay goes by the first it can read in the order of stamps, the
resolver by the first received, and `ScoredAsResolved` says where they cannot differ.

### SpotFeed

There is no clock. `outage` adds up what Coinbase's loop spends connecting and
asleep since the last event or poll, `left` is what remains of the fallback. How long
an open session is silent is not counted, since nothing bounds it. A try to connect
takes up to `ConnectTimeout`, the default of the socket library, whether it succeeds
or not. With the code's numbers an outage lasts up to 37 s (`MaxOutage`); the envelope
takes spots of up to 10 s, so entries are vetoed meanwhile. A session of Coinbase ends in `SessionEnds` and is
counted by `Count` unless it had an event; `FallsBack` starts the polls, `Round`
is one round of them, `Retry` the way back. Bitstamp's socket is the third
source, with its backoff and no fallback.

### Cutpoints

The model has no state of its own, so a behaviour is one call: `Init` picks
a situation, `Evaluate` fills `decision` with the size in every mode (0 is SKIP).
A situation holds what the code measures, and `bb_div` is computed from it as
the code does: the fair follows from `d_norm`, which is the argument of the normal
distribution, and from the side of the strike spot is on. `Possible` says how
the measurements depend on one another: at the strike `d_norm` is zero, and
without volatility there is none and the percentile is 0, or 50 when there is no
history. Thresholds of the artifact are constants, the cutpoints in the code
are numbers. Scores are counted in halves, and Python's rounding to even is
`RoundHalves`. The engines ask only about favourites with a bid of 75c and more,
but what they pass is the mid of bid and ask (`Mid`). The ask is what the other
side's bid leaves of a dollar, and on a ladder that a lost delta left crossed it is
below the bid. Then the mid may be far below 75c: the guard's
`DOGE_NO_MIN_FAV_DECICENTS = 700` bites there, and `bb_div` may be small on the side of
the strike that spot is not on.

## What the runs check

| run | expects | shows |
|---|---|---|
| `two_markets` | pass | two overlapping markets, two processes, both modes: type, locks (`ShieldInv`), `HoldingKnown`, and that the engine implements `EntryLedger` (`BuysOnce`) |
| `chase_liveness` | pass | one market, orders of up to three contracts cut to two, split fills, spots stamped before and after their receipt: a process buys once at most, a fill message is applied, lost with its connection or unusable, the local view never overstates |
| `cap` | pass | two days, two processes, two markets: exact PnL from a complete log; once the cap has bound only orders already on the wire buy, over a restart too; a logged loss binds |
| `cap_midnight` | violation | a loss on a position that crosses midnight is counted on neither day |
| `subscription` | pass | three markets, two series, two faults: coverage of the live list, no market lost, and every open market heard of as long as the discovery task lives. It may die and all markets close, so deadlock is not checked |
| `ladder` | pass | two connections, three numbers, lost, repeated and unreadable messages: drift stays with the counters or with a message dropped unread, the favorite is real |
| `commodity` | pass | two strikes of gold, one of oil, a midnight, any number of restarts: both caps hold on each day, a strike is ordered again only after an error and at most once per mark, a shutdown ends |
| `commodity_stale` | violation | a price that has outlived `--pyth-max-stale-s` still decides an order |
| `hourglass` | pass | two strikes of one hour, one of the next, a daily market, a midnight: one trader order per cycle and crypto, one volley per sweeper, every bought rung on the books, no order on a longer market, and, as long as the tally does not leave its day, an exact tally and a cap that stops its sweeper |
| `replay` | pass | some thousand captures with delayed rows and settlements that contradict each other: the order of receipt and the look-ahead up to the longest delay and the difference of the clocks, no stale spot, nothing left open that the capture settles, a summary that adds up, results as the resolver gives them where the first row is the same by both clocks |
| `spot` | pass | three cryptos, three sources, tries that hang: at most 37 s without a socket or a poll, spots come for each crypto, Coinbase is tried again |
| `cutpoints` | pass | some eighty thousand situations, fifteen modes: on a ladder that is not crossed no mode buys against the spot, the floor of 4.0 means band and conviction, the production mode extends `h1h4` |

Every property of a passing run has a mutant: a change of one definition, of
the kind a bug in that code would be, under which the same run fails.

Disagreements of code and docs that need no run to be seen are listed under
"findings" with no run: among them that `max_concurrent_positions` counts a set
nothing fills, that a restarted engine re-enters in polling mode, that a
registered market may never be subscribed, that a phantom win of a rung, or a
settlement stamped before midnight, hides a loss from the ladder's cap, and that the production mode sizes up to 12 where
its docs say 10, and that a ladder can be crossed where the rules say it cannot.

### Bounds

Constants named `Max...` and `Days` bound the model, not the code. Two
processes are one restart, the smallest number at which memory is lost and
relearned; two markets let one be traded while the other is awaited. The queue
of one event still lets an event be stamped, wait during an await, and be
handled late: a longer one adds only lag. Time runs to the close of the first
market, so that window, cutoff, throttle, staleness and settlement all occur.
Two days hold one midnight. Two faults let a discovery pass and the feed fail
in one behaviour, or one of them twice. Three numbers per connection are a
snapshot, a gap and a delta after it; two connections show what outlives the
first; two price levels are a favorite's and one that both sides may bid. Spots
are stamped a step before, at or after their receipt in the run of one market; in
that of two, which is about locks and restarts, at it, and any entry may be vetoed.
Two strikes of one commodity and one of another, with costs that fill a cap in
more than one way, make each cap bind alone; two marks allow one retry; gold
closes and is pruned while oil still trades, and midnight lies between the marks
of oil and inside the awaits of gold.
Hourglass has an hour that ends before midnight and one that straddles it, so
that the loss of one day settles when the other trades, under the stamp of either;
a volley of two rungs can settle under both before the sweeper fires again. The
market is a favourite at one price, the loss of one rung fills a cap, and one process is enough since the
locks do not survive it (the engine's restart is in `FavoriteChase`). Replay
has two markets, settlements that repeat, contradict each other or cannot be read,
and spot from both sources; rows bear no stamp, one two before their receipt, or
one just after it, so that a row is handed over ahead of one received three before. SpotFeed keeps the code's delays, its timeout
and its three failures; the fallback lasts a few rounds, not two minutes. Cutpoints has
the v1 artifact, around each cutpoint the values just below, at and above it, and three
ladders that are crossed, by more and by less than the guard of DOGE asks.
The proofs remove these bounds where there is one.

### Fairness

`FavoriteChase`: weak fairness of the consumer on the head of the queue, of the
end of an await, which `aiohttp.ClientTimeout(total=10)` bounds, and of the fill
listener. `Die` remains possible at any time, and nothing is assumed of the
exchange or the feeds. `DailyLossCap`: the 30 s task runs.
That rests on its writes to the log: the one at `live.py:426` comes before the
counter is set and the one in the handler (433) is not guarded, so a disk that
refuses both ends the task and the cap with it. Nothing is assumed of the tasks
that write the log. `MarketSubscription`: each task of the loop makes progress, and no more
failures than `MaxFaults` happen, which is the code's own assumption in retrying
for ever. `CommodityDaily`: a request ends, if only by its ten-second timeout,
and the loop looks at `stop` between passes; no order need succeed. `SpotFeed`:
requests and sleeps end, by their timeouts; nothing makes an open socket speak or
close, and `SpotComes` says so. Strong fairness is that Bitstamp, asked over and
over, answers for each crypto some time. The runs of safety properties only use
a specification without fairness.

## What is proved

All proofs hold for any sets of markets and any bounds, from the named
`ASSUME`s of the modules only.

- `FavoriteChaseProofs`: `TypeCorrect`, `ShieldHolds`, `BuysOnceHolds`,
  `LocalHolds`, `HoldingsKnown`, `PurchasesPerProcess`, `SpotFreshAtBook`. That a
  market is bought once is not inductive: an
  order may be matched long after the engine gave it up. `ShieldInv` is what has to
  be added. It says that an order on the wire for a market that is not exposed is
  the only one and meets no earlier purchase, and that the running process holds
  a lock on every such market that it bought or has an order out for. With it each
  step of the engine is a step of `EntryLedger` or a stutter (`Match` with
  contracts is `Buy`, `Boot` is `Restart`). `LocalHolds` rests on an invariant
  of its own that bounds the messages and replies in flight by `bought`.
  `HoldingsKnown` needs the two ways an engine hears of a purchase kept apart
  (`HeardInv`): by the reply, which came, will come or was given up (`Replied`), and
  by the fill channel, which brought it, will or lost it (`Told`). One of the two
  alone says nothing of a position whose reply failed and whose fill was lost.
  `PurchasesPerProcess` is what remains of buying once for an exposed market, in
  either reentry mode: `n` processes buy it for at most `n` orders. `QuotaInv`
  counts what is bought and what is on the wire against the processes that may
  have sent for it, the running one only once it holds the lock.
  `SpotFreshAtBook` answers for the two clocks of the envelope. The queue is not in
  the order of its stamps, but a spot was received before the books behind it
  (`StampInv`), and the envelope's clock is never behind the book it decides on. So
  an order rests on a spot that its venue stamped at most `MaxSpotAge` before the
  receipt of that book, and no further after it than `MaxLead`. How long the book waited in the queue is not bounded, by the code or by
  the theorem.
- `DailyLossCapProofs`: `BoundStays`. The cap is compared with a counter, and the
  counter may be older than the log. `Remembered` says what the log was when the
  counter was last bound: its sum was at the cap, and the log has only grown since.
  So a process that reads the same log on the same day, a new one least of all,
  cannot come to another sum. What the sum is made of plays no part. A purchase
  comes later than the check it passed, so the theorem is about orders: what is
  on the wire was there when the counter was bound (`Covered`), and a market has
  one order (`OneOrder`).
  `CompleteLogIsExact` needs it: the PnL of the log is a sum over records, that of
  the position a sum over contracts. `Accounted` pairs the contracts of a position
  with the fill records and the messages on the channel that tell of them, each
  once, through every drop and crash of a market of which no message was lost; a
  message that is logged hands its contract to the record (`TraceLogFill`). With
  the channel empty the records alone make up the pairs, and paired sums are equal
  (`PairedSums`).
- `FeedProofs`: `LiveCovers` and `RegisteredReaches`. They are
  inductive together with the type invariant and the fact that a socket not
  being closed has not missed an extension. And of the spot feed
  `OutageStaysBounded` and `FallbackRunsDown`. The outage so far says nothing of what
  the next failure adds, so `Backoff` ties it to the count: with the count at `n` it
  is at most the cost of `n` tries and of the delays 0 to `n`. That the delays sum to
  what `MaxOutage` says needs a power of two to be twice the one before, which is found
  by counting subsets (`Doubles`). A session with an event starts both
  anew, and the count whose delay would be one too many starts the fallback, the
  only poll Coinbase has. `FallbackRunsDown` is the safety half of
  `CoinbaseRetried`: no round leaves the fallback before its deadline or keeps it
  going after.
- `OrderBookProofs`: `TypeCorrect`, `DriftConfined`, `FavoriteHolds`. The
  invariant `BookInv` says that every message on the connection fits the history
  (`Fits`), that their numbers do not decrease and none is older than `last_seq`
  once the snapshot is read (`PipeOrdered`, `Reading`), and that the books of
  the exchange never cross. A delta with no gap counted is then the next
  message, and applying it gives the next book, but at the levels whose message was
  dropped with no counter moved. The largest bid is found by the
  well-foundedness of the naturals (`MaxIsLargest`).

- `ReplayProofs`: `TypeCorrect`, `SummaryCorrect`, `SettlementsClose`,
  `ResolverAgrees`, `OrderImplemented`, `LookAhead`, all for any captures.
  `MergedIsNear` is the heart: a merge of streams sorted by one key with another
  stream by another key takes a row received no more than `MaxSkew` after any that is
  left. The key of a row lies between its receipt less the longest delay and its
  receipt plus the lead of the exchange's clock, so a row ahead of another in its
  source was received no later than the other by more than both, and the heads are
  compared by receipt. The summary needs that a settled position is not opened again, so
  the invariant relates `open`, `closed` and `decided`.
- `CutpointsProofs`: `OnSideOfSpot`, `FloorHolds`, `LooseHolds`, for every
  artifact whose `bb_div_skip_above` is below 0.25, which is 75c less one half.
  `OnSideOfSpot` is about ladders that are not crossed, whose mid is 75c at least.
  Every reachable decision is all skips or the verdicts on its situation
  (`JudgedHolds`), and the rest is about the gates and the score. `SizesStayWithin`
  bounds each mode by its largest tier, at most 12, so that `FavoriteChase` with a
  `MaxSize` of 12 or more covers the verdict of every mode. `FamilyNests` compares
  the copies of the score: all floor modes but the gate buy the same situations, the
  gate leaves out a band of `d_norm`, and `h1h4`, `h1h4_loose`, `s2` and `v13b` each
  buy what the one before buys.
- `HourglassProofs`: `TypeCorrect`, `HourMarketsOnly`, `FillsTracked`,
  `TalliesExact`, `CapStops`, `OrdersStayBounded`, for any strikes, lengths,
  sizes and caps. `Inv` follows an order back to where it comes from: the
  subscription holds markets of an hour only, a cached book comes only from the
  subscription, and what is pending or on the wire is in `Noted`, the requests for
  such markets whose rung, if a sweeper's, is open or booked. A settlement keeps
  that because none is handled while a decision is pending; a newer rung replaces
  an older one of the same strike (`RungsReplaced`), so the strike stays tracked.
  `Ledger` relates the tally of a sweeper to the rungs booked on its day: a rung
  leaves the table when it is booked, so no settlement is counted twice, and a
  booking is of the day of the tally or of one it has left, so that a day it comes
  to for the first time starts from nothing. `Rationed`
  relates the orders sent in a cycle to the locks and to the open and booked rungs.
  The sums over rungs and markets are folds by `CHOOSE`, as those of the loss cap;
  the first section of either module reads one
  as a table of the sums over all subsets (`SumIsTabulated`), shows by a smallest
  subset that such a table exists and that any two agree, and from that how a sum
  changes when a term is added, dropped or raised.
- `CommodityDailyProofs`: `TypeCorrect`, `EntersOnce`, `AttemptsAreBounded`,
  `CapsAlwaysHold`, `StopRunsDown`, for any strikes, marks, costs and caps, any listings and any
  order of errors. `Inv` has a part for each. `OrdersOK`: a strike whose order did not
  fail is in `entered`, or is closed and no longer listed, and what is closed is
  never listed again (`Gone`). `MarksOK`: each order used up a mark that fired, and
  so does an evaluation under way. `SpendOK`: on the day the spend is of, what was
  paid is what was recorded and what the awaited order will add, so an order that
  is answered after midnight is recorded on the day it was sent. `Passed` is what
  a pass leaves behind, whatever markets it skipped (`GoOnPasses`). `StopRunsDown` is
  the safety half of `StopEnds`: once asked to stop, the process begins no pass, and
  each step brings the one under way nearer to its end or leaves it where it is,
  since the markets still to come are those after the current one (`KeysOK`).

The proofs assume of the constants what the modules' `ASSUME`s say: sets that the
code iterates over are finite where a count or a sum over them is taken
(`Tickers` of `Hourglass`, `Marks` of `CommodityDaily`), strikes are listed once
each, and amounts are naturals. That of `Captures` asks little of the data: each capture
is finite, `MaxDelay` is the longest delay in it and `MaxLead` the most that a stamp is
ahead of its receipt, and a result is announced after the close by both clocks.

Only model-checked are the liveness properties (`FillApplied`,
`CapBinds`, `ListedIsHeard`, `StopEnds`, `SpotComes`, `CoinbaseRetried`), since the
prover does not treat fairness. Every invariant a passing run checks is a theorem.

## What is not modelled

- The rolling volatility and its percentile, which are floating-point statistics,
  and `research/sr_features.py`, which only feeds the logs.
- The observers and the research helpers: they write and never trade.
- The warehouse's CaptureReader, LiveLogReader and the full scan of old
  captures: readers for analysis, off the path of `bin/backtest.py`.
- `feeds/bitstamp_depth.py`, a sampler of the observers.
- Signing, log formats, exits (no live strategy returns one), the shutdown
  reconcile (it only logs).
- The equity engine `bin/live_inxu_v0.py`: it has the commodity engine's shape
  without its caps; its order call names a method that does not exist, so it
  places none (see the findings).

## Plan

1. `FavoriteChase` with `Cutpoints` in the place of the verdict it leaves open,
   on the few situations that tell the modes apart. `SizesStayWithin` already shows
   that the sizes it leaves open include those of every mode.
2. The rolling volatility window with its one record a minute, if its eviction is
   to be related to the percentile.
