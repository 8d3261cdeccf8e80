# A TLA+ model of quant_platform

quant_platform is a C++23 backtesting platform with a Python research layer. Market data is
fetched from an archive, parsed and merged, pushed through lock-free queues into an engine that
runs strategy, risk gate, execution and portfolio, and recorded as an equity series. This
directory holds TLA+ models of the parts of it whose correctness depends on the order of things,
the TLC configurations that check them, and TLAPS proofs, for every size, of every safety property that
the passing runs check.

Paths below are relative to the repository (`src/` in `PROJECT.json`). `PROJECT.json` lists
components, runs, mutants, the map from definitions to source lines, findings, hazards and theorems.

## 1. Inventory

| part | state it keeps | operations | used by |
|---|---|---|---|
| `core/spmc_queue.hpp` broadcast ring | published count, one cursor per consumer, slots | `push`, `try_pop`, destructor | sinks, control channel (outgoing) |
| `core/mpsc_queue.hpp` | enqueue and dequeue positions, ready flags | `push`, `try_pop`, destructor | control channel (incoming) |
| `core/work_queue.hpp` | positions, a sequence stamp per cell | `push`, `try_pop`, destructor | fetch pool's task queue |
| `core/spsc_queue.hpp` | head, tail, one slot kept empty | `push`, `pop` | equity recorder |
| `core/slot_ring.hpp` | a sequence stamp per slot | `place`, `ready`, `take` | stream's results |
| `core/viewable_pool.hpp` | array and length | `push`, `clear` | strategies, gates, execution |
| `core/portfolio.hpp` | positions, cash, marks, fees, funding | `apply_fill`, `apply_funding`, `apply_mark_price`, `equity` | engine, gate, strategy |
| `core/control_channel.hpp` | both queues, pump thread | `request_stop`, `poll`, destructor | source, engine and main thread |
| `engine/engine.hpp` | transport, strategy, gate, execution, recorder | `step`, `run` | engine thread |
| `engine/transport/backtest_in_process` | lookahead per leg, timer, flush flag | `next`, `flush` | engine |
| `engine/recorder/equity_series` | throttle, ring, drain thread, series | `sample`, `start`, `finish` | engine thread, main thread |
| `risk/basic`, `risk/python` | peak equity, trip flag, order ids | `check`, `on_tick` | engine |
| `strategy/carry`, `strategy/python` | thresholds | `on_event`, `on_timer` | engine |
| `execution/sim` (`last_trade`, `cost_aware`) | last prices, fills, rejects | `on_market_event`, `submit` | engine |
| `data_source/run_data_source.hpp`, `sink/fanout` | a pending event per leg, done flags | one polling round, stop poll | source thread |
| `apps/backtest/backtest_base.hpp` | threads, error slots | `run` | application, Python |
| `binance_historical/http_fetch_pool.*` | task queue, counters, sleepers, critical window | `submit`, worker loop, `quiesce` | streams |
| `binance_historical/stream.hpp` | plan, cursors, rows, `GapStats` | `pump`, `load_next_file`, `next` | source |
| `binance_historical/binance_historical_source.hpp` | `pending_`, `heap_`, fronts | `next` | source thread |
| `binance_historical/parsers/*`, `endpoints.hpp`, `listing.cpp`, `core/subscription.hpp` | none that changes | row parsers, dataset table, key listing, slot resolution | streams, source |
| `data_source/network/http/client.cpp` | a deque of idle connections per host, shared by the process | `get`, `close_idle_connections` | fetch pool's workers, listing |
| unzip | none | bytes to bytes | fetch pool's workers |
| Python bindings | the interpreter lock | `run` and `list_children` release it | Python callers |
| `python/qp_research/cache.py` | parquet files, an sqlite index | `scan`, `load`, `trim`, `clear` | notebooks, several processes |
| `python/qp_research/ledger.py` | a folder of parquet files; digests and a buffer per process | `record`, `save`, save at exit | notebooks, several processes |
| the rest of `python/qp_research` | none | statistics on arrays | notebooks |

How they interact. A backtest has up to seven kinds of thread: the main thread in
`BacktestBase::run`, the source thread in `run_data_source`, the engine thread in `Engine::run`,
the control channel's pump, the recorder's drain, and the fetch pool's workers, plus any thread
that quiesces the pool. Data flows in one direction: worker -> slot ring -> stream -> merge ->
sink (broadcast ring) -> transport -> engine -> recorder ring -> series. Stops flow the other way
through the control channel. The fetch pool's workers and any thread that lists the bucket use the
HTTP client's one pool, for different hosts (`kDataHost`, `kListingHost`): they never share a connection,
but `quiesce` closes the idle ones of both. A backtest object outlives its `run`: sources and sinks stay, threads,
channel, engine and transport are made anew. The research cache and ledger are shared by processes,
each of which may die. Within the engine thread `step()` is sequential, but its calls read
state that later calls of the same step change.

What is hard here: the queues' interleavings and their arithmetic on wrapping positions; a sink
that is full while the engine waits for another leg; stop requests racing with the end of the
data; errors in either thread; `quiesce` against a submit in flight, and lost wake-ups; retries
and cancellations answering the same slot; files that land while the merge walks its streams; rows
rejected in groups; orders of one step sized on a book that does not have the others' fills yet;
connections that the server has closed unnoticed; a call of `run` after a failed one; files and index
changed one after the other by a process that dies between, or by two at once.
`PROJECT.json` "hazards" lists them with their lines.

What makes each part correct, in a sentence:

* queues: an element is handed over once, in order, from a slot nobody else is using, and a refusal
  or an empty answer is true (a refusal of the MPSC queue only if nobody overtook the call, finding 3);
* portfolio and engine: cash is explained by what was booked, a held leg has a mark, the cap and the
  hedge hold between steps, and a halt is final;
* backtest: nothing is lost between source and engine, the engine sees one time line with its ticks,
  and `run` returns;
* fetch pool: every file submitted is answered once, read in plan order, and shutdown leaves nothing
  unanswered;
* historical source: one merged order, no stream lost, every row accounted for;
* HTTP client: a dead pooled connection is no reason to fail (true of a caller that is alone on its host,
  finding 4), and a shutdown leaves no connection of the workers open;
* recorder: the series is what was sampled;
* cache: the index never claims more than the files hold, and a scan serves what was asked for (true of
  calls one at a time but for a trim that died, finding 5);
* ledger: the latest record of a trial is the one shown, and only that one is skipped (true of one process
  at a time, finding 6).

## 2. Modules

Shared loads and stores are separate steps wherever two threads touch them; the program counters
(`ppc`, `cpc`, `rpc`, `wpc` ...) say where a thread is inside an operation. The code's atomics use
acquire and release (or stronger) on every word that publishes data, so the models are sequentially
consistent; relaxed loads of a word owned by the reader itself have one possible value. Variables
marked as histories in a module exist for its properties only.

| module | models | abstracted away |
|---|---|---|
| `SpmcQueue` | `SpmcQueue`: push scans the cursors one by one, then destroys, constructs and publishes; try_pop loads, copies, advances; destructor | the number of consumers, a template parameter, is the constant `NumConsumers` |
| `BroadcastLog` | abstract specification of the above: a log every consumer reads in order, never more than `Capacity` behind | slots, cursors, threads |
| `MpscQueue` | `MpscQueue` with positions subtracted modulo `WordSize` | |
| `WorkQueue` | `WorkQueue`'s stamped cells, its signed difference, lost races | |
| `Portfolio`, `BasicRiskGate`, `FundingCarryStrategy` | one class each, as operators on its state | floating point: money is counted in units of 1/`Scale`, in which fees and funding are whole |
| `CostModel` | `read_cost_rows_csv` and `HalfSpreadLinearImpact`: which row is in force for a leg in a week, what a fill costs | date text: a row carries its week; spread and impact are whole units |
| `SimExecution` | `SimExecution` over `LastTradeMatcher` or `CostAwareMatcher` | |
| `Engine` | `Engine::step` composed from those above: "carry", "costed" (carry on the cost aware matcher) and "python" | the run loop (in `Backtest`), recorder sampling (in `EquityRecorder`) |
| `Backtest` | `BacktestBase::run`, called `MaxRuns` times on one object, `run_data_source`, `FanoutSink`, `BacktestInProcessTransport`, `Engine::run`, `ControlChannel`, the interpreter lock of the Python variant | what an event does to the book; queues are FIFOs and counters, as the queue modules justify |
| `FetchPool` | `HttpFetchPool`, `SlotRing`, a stream's `pump` and `load_next_file` | durations, jitter, contents of files; `http::get` and `unzip` answer anything; the pump on every 256th row (`stream.hpp:90`), which finds work only after a refused submit: the model makes up for it when the rows are used up |
| `HttpClient` | `http::get` with `acquire`, `dial`, the retry on a pooled connection, `release`; `close_idle_connections` | url and TLS; a caller asks one host (`HostOf`), with its own deque of idle connections; the attempts inside a dial, which no other thread can see; the server (external) drops idle connections and answers anything |
| `HttpFetch` | `FetchPool` on `HttpClient`: an attempt is a call of `get`, step by step, and `quiesce` closes the idle connections; listers call `get` beside the pool, on the listing host | what a listing does with its pages (in `Datasets`) |
| `Datasets` | `Subscription`'s slots, the endpoint table, which streams a universe builds and in which order, listing in pages, planning, the calendar and the rows a file should have | url and XML text: a prefix is a tuple, a key a record with its stamp |
| `Parsers` | the field readers and the five row layouts, depth groups included | a row is a sequence of fields, a field one of the kinds the readers tell apart; prices and sizes are read and dropped |
| `HistoricalSource` | `BinanceHistoricalStream::next` and `BinanceHistoricalSource::next` over the two above; files land at any moment | |
| `EquityRecorder` | `EquitySeriesRecorder`, `EquitySeriesCollector`, `SpscQueue` over several recordings | the equity value: a point is its sample number |
| `PartitionCache` | `Cache.scan`, `_write`, `_read`, `trim`, `clear` by several processes; an sqlite transaction is a step, `os.replace` is a step, a process may die between any two. `trim` sums the sizes once and counts down (`total`). `Calls` says which calls are made, `OneAtATime` whether they may overlap | one symbol, consecutive partitions of two time units, so that one can be half published; files of equal size; trim may evict any partition it does not have to keep (the code takes the least recently read) |
| `TrialLedger` | `Ledger.record`, `save`, the save at exit, the index read once per process; a death may cut a file short, and from then on `_rows()` raises (`Readable`), for good: nothing repairs the folder. `OneOpen` says whether two processes may have the ledger open | returns are their digest; names are in the order of the saves |
| `ResearchStore` | the two above side by side; they share nothing, so a behaviour exercises one | |
| `SpmcQueueProofs`, `WorkQueueProofs`, `MpscQueueProofs`, `EquityRecorderProofs`, `EngineProofs`, `BacktestProofs` | theorems about the module each is named after | |
| `HttpFetchProofs` | theorems about `FetchPool`, `HttpClient` and their composition `HttpFetch` | |
| `DataProofs` | theorems about `HistoricalSource` (with `Datasets` and `Parsers`) and about `ResearchStore` (`PartitionCache`, `TrialLedger`) | |

`MC...` modules give small sets to the constants. Definitions named `X_Something` are mutants: the
definition `X` as a plausible slip would have it, kept to show that the property next to it in
`PROJECT.json` notices.

Four composition decisions deserve an argument.

* A sink in `Backtest` is a bounded FIFO. A `FanoutSink` there has one consumer, and
  `SpmcQueueProofs!Refinement` proves that the ring is a FIFO per consumer whose producer is refused
  only when it is `Capacity` ahead.
* The control queue in `Backtest` is a counter, since every command is Stop. Callers
  ignore a refused request, so refusals are kept: `EndRequest` may refuse when the inbox is full, which
  `UnracedRefusalIsFull` of `MpscQueue` says of a call nobody overtook, and when the pump has popped past
  the position loaded, the case of finding 3. That `run` returns nevertheless holds because a refusal means that
  another Stop is queued or has been popped.
* The task queue in `FetchPool` is a FIFO, which `EachTaskOnce` and `HonestEmptiness` of
  `WorkQueueProofs` prove it to be. A cell a worker has claimed but not freed still occupies capacity;
  `Claiming` keeps that.
* `FetchPool` by itself takes an attempt as one step with any outcome. `HttpFetch` replaces that step by
  the call of `get`. `HttpFetchProofs!FetchImplementsPool` proves that the composition implements
  `FetchPool!Spec`, so its invariants, checked with two workers and two quiescers and proved for all,
  need not be repeated with the client; the liveness properties are checked with it.

## 3. Runs

`tlc -config <cfg> <module>`; sizes are distinct states.

| run | size | shows |
|---|---|---|
| `mpsc` | 89 k | two producers, two slots, five pushes, `WordSize` 16 so that a stale position wraps: `SlotIsExclusive` (a destroyed queue leaks nothing, included), `ClaimOrder`, `UnracedRefusalIsFull` |
| `mpsc_refusal` | | refutes `FalseOnlyIfFull` (finding 3) |
| `market_path` | 3.5 M | the engine: carry for seven pulls on either matcher, Python for three: `CashReconciles`, `MarkedWhenHeld`, `CapRespected`, `HedgedWhenPriced`, `HaltIsFinal`; or the broadcast ring: two slots, two consumers, five pushes (two laps and more), destruction at any quiet moment: `NoSlotRace`, `InOrderDelivery`, `RefusalIsHonest`, `LiveObjects`, and the refinement `BroadcastsInOrder` |
| `engine_timer` | | refutes `FillsAppliedOnce` (finding 1) |
| `backtest` | 878 k | one- and two-leg tapes longer than their sinks, a timer, errors in either thread, a second call of `run` after either end: `NothingLost`, `OneTimeLine`, `TicksOnTime`, `ReturnsIfFits` |
| `backtest_hang` | | refutes `Terminates` under fairness (finding 2) |
| `fetch_pool` | 1.7 M | the pool: two workers, four files, three slots, two task cells, one retry, two quiescers: `ReadInPlanOrder`, `QuiesceAnswersAll`, `CountsReconcile`, `QueuedTracksTasks`, `CriticalFiresOnce`; or its task queue: two consumers, two cells, five pushes: `CellIsExclusive` (a destroyed queue leaks nothing, included), `TakenOnce`, `EmptyIsHonest` |
| `fetching` | 164 k | one worker and one lister on the client, each on its host, connections closed by the server at any time, a configured depth of 0, one quiescer: `ConnectionsClosed`, `RedialsWhenAlone`, `EverythingReadInTheEnd`, `QuiesceReturns` |
| `http_redial` | | two workers on one host: refutes `DeadPooledIsNoFailure` (finding 4) |
| `research` | 845 k | the history: 14 archives of three universes, a perpetual's klines, grouped depth and sequenced trades; spot and Coin-M klines with Coin-M funding; mark price, premium index and metrics: `MergedInOrder`, `OnePlace`, `RowsAddUp`, `MissingTapeShows`, `SourceReachesEof`; or the recorder: two recordings through a ring that holds one point: `SlotIsExclusive`, `SeriesComplete`, `MovesOn`; or the stores: two processes, two partitions and room for one, five calls one at a time; two processes, two trials, five records, a flush at two, one of them open at a time; two deaths each: `IndexMatchesFiles`, `ScanServes`, `LedgerKeepsLatest` |
| `cache_together` | | two scans at once, nobody dies: refutes `SafeTogether`, that is `ScanServes` and the first part of `IndexMatchesFiles` (finding 5) |
| `ledger_together` | | two processes with the ledger open, nobody dies: refutes `FolderKeepsLatest`, a part of `LedgerKeepsLatest` (finding 6) |

Three runs are about parts that share no state: `MCMarketPath`, `MCFetchPool` and `MCResearch` put their
specifications side by side, a variable `part` says which of them a behaviour exercises, and the others stay where
they begin. So their states add up and do not multiply, and nothing is concluded about one part from another.

Every module but the small value modules also states a type invariant (`TypeOK`, `RingTypeOK`, `WorkTypeOK`,
`RecorderTypeOK`, `CacheTypeOK`, `LedgerTypeOK`). It is proved for each of them, for `HttpClient` as part of
`ClientInv`, and can be checked by adding it to the cfg.

Bounds. Rings have two slots (three where a full task queue has to be reachable), the least for which
"one lap ago" is not "now", and runs are long enough to go round twice: every hazard of the ring
arithmetic is about adjacent laps. Carry needs seven pulls to price both legs, enter, mark down, trip
and go on after the trip, on either matcher; with costs the clock passes from the first week of the
table to the second (`MaxWeek` 1), so that a row goes in and out of force. Python needs three because its callables may do anything at each. Sinks of
two events with tapes of up to four make the source wait; `ControlCapacity` is the code's 8. Two
calls of `run` are the least for which something can be left over; which tape is longest does not
matter, so the tapes are few. In
`FetchPool`, `PrefetchDepth` exceeds the ring so that the upper clamp matters and four files lap three
slots; in `fetching` it is 0, for the lower one. There `HttpRetries` 1 gives a `get` one attempt after a dead
pooled connection; in `http_redial` two workers leave two of them in the pool, so that one `get` meets both. In `ResearchStore` two partitions with room for
one make every second scan evict, `Needs` asks for half of the second partition, so that a fetch can be
complete for a scan and overtaken for the next, five calls with two deaths let a call die, another meet what it
left, die too, and three more live with the result, and `MaxRecords` 5 lets a trial be recorded, changed and
recorded again across flushes and reopenings. `WordSize` scales 2^64 down; all it must exceed is the largest true difference.
`HistoricalSource` scales the stamp units too: `MicrosecondFloor`, `StampCeiling` and `MicrosPerMilli` are
small numbers in the order of the code's, `PageSize` 2 makes a listing take several pages, and
`DepthBands` 1 leaves a depth group of two rows (four with the inner bands), enough for a short, a long and an interrupted group.

Symmetry is used only for sets of threads and events, in runs that check invariants only.

Deadlock checking is off where the system ends by itself and the model has nothing left to do
(a destroyed queue, a source at Eof, a bound reached). It is on for `Backtest`, whose `Next` lets a
returned `run` stutter, so any other standstill would be reported.

Fairness.

* `Backtest`: weak fairness of each thread. All of them spin or poll, and the interpreter, which the
  caller has released, is free when the engine's callables want it, so an OS that schedules each thread
  now and then suffices. Nobody is obliged to call `run` again.
* `FetchPool`: weak fairness of reader, workers and quiescers, and strong fairness of acquiring
  `wake_mutex` and `shutdown_mutex` and of returning from the timed wait (a mutex is free again and
  again; the 50 ms timeout expires), and of the spin on `submits_active_`: `quiesce` must at some point
  load it between two submits of the pull thread. The last is an assumption about timing that the code
  relies on. With weak fairness alone a pull thread that calls submit without pause starves it.
* `HttpFetch`: the same for the composed steps. A call of `get` makes progress like everything else its
  thread does: its blocking connects, writes and reads return. The code sets a timeout
  (`client.cpp:160`), but on the blocking calls it makes the timeout has no effect, so this is an
  assumption about the server and the network. Listers and the server owe nobody anything.
* `HistoricalSource`: weak fairness of the pull loop, which the source thread repeats until Eof, and of the
  pool answering every file asked for (`FetchPool!EverythingReadInTheEnd`).
* `EquityRecorder`: weak fairness of the drain thread, of the engine once it is inside a push, and of
  the joining thread. The engine need not go on sampling.
* `ResearchStore`: none, its properties are invariants.

## 4. Proofs

Every theorem holds for all values of the constants that satisfy the assumptions named in the module
that declares them. No property below is inductive as it stands. Each proof module states
an inductive invariant as a conjunction of named parts, proves for each part that the initial states
have it and that every action keeps it (one lemma per part or per action, one case per action), and
derives the properties. TLC checked every inductive invariant on the instance of the module's run
before it was proved.

### The rings

All four map a position to a slot by masking. Each proof module begins with what that needs, by division with
remainder: positions less than a lap apart use different slots (`ModDistinct`), a lap later the slot
is the same (`ModLap`), masked indices may be counted on from (`ModAdd`), and a difference that would
be negative wraps to a large one (`ModWraps`).

`SpmcQueueProofs` (`TypeCorrect`, `SlotsNeverRace`, `DeliversInOrder`, `RefusesHonestly`, `NothingLeaks`,
and the refinement `RingSpec => BroadcastLog!Spec` as `Refinement`). `IInv` is `RingTypeOK` with

* `Lag`: no cursor is ahead of `published` or more than `Capacity` behind, and strictly less than
  `Capacity` while the producer is writing. A consumer inside try_pop has something to read.
* `ScanInv`: during `min_cursor` the minimum bounds every cursor already visited, although those have
  moved since: cursors only grow, so a stale minimum is a lower bound, and a slot found free stays free.
  If the ring was not full at the call, it is not full at the end of the scan either, which is what
  makes a refusal honest.
* `Contents`: every position among the last `Capacity` and not being overwritten holds what was
  published there, so writing one slot disturbs no readable one.
* `Histories`: the lengths of the logs are the counters, and what a consumer got is a prefix of the log.

In `Refinement` a `Publish` step is an append, allowed by `Lag`; an `Advance` step a delivery, by
`Contents`; every other step leaves `log` and `got` alone. `NothingLeaks` needs the converse of
`Contents`, `Kept`: a slot that holds an object is that of a recent position.

`WorkQueueProofs` (`TypeCorrect`, `ExclusiveCells`, `EachTaskOnce`, `HonestEmptiness`). The heart is
`Stamps`: the stamp of a recent position is that position plus one until the consumer that claimed it
gives the cell back, and then plus a lap; a consumer's stale copy of `dequeue_pos` therefore never
meets the stamp it waits for. `Positions` keeps claims distinct, `Handed` says that a claimed position is
on record or in somebody's hands, and `Emptiness` carries a false "empty" to a contradiction.

`MpscQueueProofs` (`TypeCorrect`, `ExclusiveSlots`, `OrderOfClaims`, `RefusalsHonest`). The fullness test
uses a position that may be stale. `Positions` shows that a successful compare-and-swap makes it
current, so that claims lie within a lap and differ; `Owners` and `Published` split the positions between
the two counters into those with a producer still inside, whose flag is down, and those with the flag
raised and the element in place. `Fullness` says that a producer found no room because the queue was full or
because its position lies behind the consumer's, so that the difference wrapped (`RoomMeans`); a position that
is still the next one to claim is not behind, which leaves the full queue.

`EquityRecorderProofs` (`TypeCorrect`, `ExclusiveSlots`, `CompleteSeries`). `Distance` ties the two masked
indices to the number of points recorded and not yet drained, `Contents` gives each slot from the tail
on, and `Threads` says that the drain thread ends only with nothing pending, however many recordings
went before.

### The engine

`EngineProofs` (`TypeCorrect`, `CashExplained`, `HeldIsMarked`, `ExposureCapped`, `BookHedged`,
`HaltedForGood`) holds for any prices, rates, caps, targets, thresholds, cost files, and any answers of
Python callables. `StepInv` speaks of `Book(l)`, the position of a leg once the fills not
yet drained are applied, because between `submit` and `drain_outcomes` the position itself
says nothing. Its parts: the history `net` is the running sum of the fills; a held or filled leg is
tradable, and stays so as time goes by (`TradableLater`); a last price implies a mark; the two intents of
a settlement are the strategy's targets, so after both the book is capped (`CapInv`) and hedged
(`HedgeInv`). `HaltInv` follows the flatten orders of a trip to their fills. `HaltedForGood` has one more hypothesis,
`TrackedOnce`: the gate's configuration lists no instrument twice. With a duplicate the gate would flatten
that leg twice.

### The backtest

`BacktestProofs` proves `OneLine` (`OneTimeLine`), `TickedOnTime` (`TicksOnTime`), `LosesNothing`
(`NothingLost`) and `TypeCorrect` for any number of legs, tapes, sink capacities, polling intervals and timer
periods, with errors in either thread and any number of calls of `run`. `TimeInv` has

* `StopInv`: nobody has asked for a stop, and the engine does not drain, while both threads are at
  work; so an engine that flushes finds in its sinks all it will ever get.
* `Line(l)`: a leg's lookahead, queue and held event ascend and lie within what was pulled.
* `LookInv`: in the pass over the legs, each leg looked at waits with an event, or is found dry while
  flushing, or the pass is marked as missing one.
* `OrderInv`: whatever was stepped comes before `Coming(l)`, all of leg l that this run may yet step.
  No step but a new `run` adds to `Coming` (`LineStep`). When `next` chooses, every leg either waits, with
  its earliest event first, or has nothing coming (`EarliestFirst`), so the chosen one precedes the rest.
* `TimerInv`: the next boundary is the first timestamp plus one more period than there were ticks, after
  all that was stepped and at most a period after all that is coming. `TicksOnTime` is then a quotient.

`LossInv` adds, for what was fed to the engine (the history `fed`, the events stepped per leg):

* `Fed(l)`: the events fed ascend and precede those on their way, and the two together are what was pulled
  less what a failed run forgot; with `Line(l)` the concatenation in `NothingLost` ascends.
* `EndInv`: a thread that stops early does so because of an error, a source that ends without one has every
  leg done, and an engine that ends has found its sinks empty while flushing. This gives the last conjunct.

`BoundInv` holds the remaining bounds, that no sink exceeds its ring and the control inbox never overflows.

The only assumption beyond sizes is `TapesAssumption`: a source yields ascending timestamps, which is
what its contract promises. Of the source in the repository `MergesInOrder` proves it up to backwards
stamps within one stream's own files, which that source counts.

### The fetch path

`HttpFetchProofs` proves of the pool `PoolTypeCorrect`, `FilesReadInOrder`, `QuiesceLeavesNothing`,
`BooksReconcile`, `QueuedIsExact`, `CriticalLatched`; of the client `LoneCallerRedials`; and of the two together
`FetchImplementsPool` (`FetchSpec => Spec`) and `WorkersLeaveNothingOpen`. `PoolInv` has

* `ThreadInv`: who holds `shutdown_mutex_`, and what a quiescer that far has established for good: the
  flag, the workers' end, no submit past its test;
* `CursorInv` and `SeqInv`: a stream never has more files out than its ring has slots, so that a stamp
  is the position or one more;
* `PlacesInv`: an unanswered file is in the queue, with one worker, or being cancelled, and in one of
  them only. This is what makes every file answered once;
* `AnswerInv`: a stamped slot holds the answer of its own file;
* `CountInv`, `QueuedTracksTasks`: the counters as cardinalities of those places;
* `FirstWindow`, `FiredOnce`: as long as nothing has succeeded every failure is in the first window, and
  whoever takes it finds them all.

`ClientInv` accounts for every connection (in the pool, or with the caller that used it last). `Attempts` says
that before it gives up a `get` has met no failure but those of pooled connections, and that a caller alone on
its host finds at most one there, the one it released last, and none on a further attempt, which therefore
dials. For `FetchImplementsPool`, steps
inside `get` stutter and its return is the pool's one-step attempt. `Closed` then needs both: no worker is in
`get` once a quiescer has joined them, and `close_idle_connections` empties what they gave back.

Assumptions: workers are finitely many; the value `None` is not a task; the machine word exceeds the
queue; every answer of `get` is an outcome the pool knows, and workers and listers ask different hosts
(`CompositionAssumption`).

### The historical source

`DataProofs` proves `SourceTyped`, `MergesInOrder` (`MergedInOrder`), `StreamsInOnePlace` (`OnePlace`), `TapeShows`
(`MissingTapeShows`) and `RowsBalance` (`RowsAddUp`) for any universe, listing and archive: which files fail,
what rows they hold and when they land. `IInv` has

* `SourceInv`: what the worlds fix, and `read_cursor <= landed <= Len(paths)`;
* `PlaceInv`: `Live` are the entries of `pending_` that count, during the walk those kept so far and those not
  visited yet. They are distinct and have no front, the heap is exactly the entries of the fronts, and a
  stream in neither is finished. The compaction of `pending_` overwrites entries in place, so `Live` is what
  makes this inductive;
* `OrderInv`: since an event came out, every other stream has a front that is not before it or is finished
  (`SettledInv`), and `last_ts` is the stamp of the stream's latest event (`StampInv`), so each step back is
  one that `Parse` counted, the one a front is about to make included;
* `TapeInv`: `last_sequence` is the id of the latest event, in the slot or handed out;
* `CountInv`: per stream the counters as cardinalities of the rows and files read, each event between the
  least and the most rows of one, and room for a row nobody parsed in every failed file.

`RunLength` is a CHOOSE; that the run it means exists is `RunEnds`, a counting argument on finite sets.
Assumptions: `SourceAssumption` (sizes, `None` is no event) and `WorldsAssumption` (finitely many
streams and files, rows are sequences of fields). Nothing is assumed of the order of stamps or ids.

### The research store

`DataProofs` proves `StoreTyped` without further hypotheses, `IndexMatches` (`IndexMatchesFiles`) and `ScanServesAsked`
(`ScanServes`) under `OneAtATime`, and `LedgerKeeps` (`LedgerKeepsLatest`) under `OneOpen`, for any number of processes,
partitions, trials, calls, records and deaths. The hypotheses are not for convenience: without them the properties
are false (findings 5 and 6). `CacheInv` has

* `LocalInv`: what the locals of scan, trim and clear mean at each place, and that a fetch is no older than
  the scan that made it;
* `StoreInv`: a file has rows of its own span, a row names a path exactly if the partition has rows, and neither
  is newer than the exchange;
* `CallsInTurn`: at most one process is inside a call;
* `SoloInv`: for that process, or any if there is none, `Work` (what it has made of the partitions in its hands,
  and what it knows of the index, which nobody else changes), `Serves` (how far its scan has come with each
  partition it must serve), and `Right` of every partition not in its hands, which is what `IndexMatchesFiles` says;
* `RestInv`: `Right` of every partition in nobody's hands.

A death hands the partitions over with `Right` because a write replaces the file before the row and never by an
older one, and a clear deletes rows first; only a trim unlinks first, hence its exemption.

`LedgerInv` has `OpenInv` (a process with something buffered, or with a file half written, has the ledger open),
`InTurn` (one at a time), `KeptInv` (a trial is remembered and buffered as it was recorded last, and that is what the
last file holding it has unless it waits in a buffer no save is writing) and `DeathInv` (no more files cut short
than deaths).

### What is only model-checked

* Liveness (`ReturnsIfFits`, `EverythingReadInTheEnd`, `QuiesceReturns`, `SourceReachesEof`, `MovesOn`): the prover has
  no support for fairness.
* What recursive definitions compute: listing in pages and the plan it gives (`Datasets`) enter the proofs only
  through `WorldsAssumption`, which TLC evaluates for the archives of the run.

## 5. Findings

1. *A timer step re-applies fills* (`engine_timer`, `engine/engine.hpp:122`). `drain_outcomes` applies
   all of `exec_.fills()`; only `on_market_event` clears them. A timer tick between two market events
   applies the last fills again.
2. *A backtest can hang* (`backtest_hang`, `backtest_in_process_transport.hpp:48`). With two legs, when one
   ends and the other has more events left than its sink and the lookahead hold, the transport waits for
   the ended leg, the source for room, and main for the source. `ReturnsIfFits` shows that this is the
   only way for `run` not to return, on a second call too: then what counts is what was left.
3. *A refused push on a queue that is not full* (`mpsc_refusal`, `core/mpsc_queue.hpp:57`). The comment says "False
   if the queue is full". A producer loads its position; another claims it and the consumer takes that element;
   `pos - dequeue_pos_` wraps and the first answers false. A call that nobody overtook is refused only by a full
   queue (`UnracedRefusalIsFull`). The control channel, the queue's user, ignores refusals, and `ReturnsIfFits` shows
   that it may.
4. *Dead pooled connections use up the attempts* (`http_redial`, `http/client.cpp:167`). The comment says "Redialing is
   the fix, and it is not a failed request, so it does not count as one". The next attempt takes another pooled
   connection if there is one, and it counts: with `max_retries` + 1 dead ones `get` throws without having dialled.
   The pool keeps up to 32 per host and `max_retries` is 5. A caller alone on its host is safe (`RedialsWhenAlone`).
5. *Concurrent scans are not safe* (`cache_together`, `cache.py:145`). `DECISIONS.md` item 15 of `docs/python/qp_research`
   says that "concurrent readers and writers are safe". Two processes fetch one partition, the second later and
   further; files are replaced in one order, rows in the other, and the row says complete as far as the newer
   fetch over the older file. No later scan fetches it again. `ScanServes` fails by itself too: a slower scan with
   an older, empty answer replaces a row by one without a path before the scan that stored it has read it back, or a
   scan's `trim` unlinks the file that another is about to collect.
6. *The last to save wins, not the last to record* (`ledger_together`, `ledger.py:91`). Item 46 says that "the latest
   record of a key replaces earlier ones"; files are ordered by when `save` began. A process that buffered a trial
   before another recorded and saved it saves the older returns on top.

Observations that are not findings: what the properties admit.

* A carry leg that has no price yet is rejected while the other fills, so the book is one-legged until
  the next settlement with both legs priced; `HedgedWhenPriced` shows that that settlement repairs it.
* `on_tick` sizes its flatten orders on positions without the fills of the same step. When the kill
  switch trips in the step of an exit order both close the position and the book stays reversed;
  `HaltIsFinal` says that what remains is exactly what that step's own orders filled, and that it stays.
  Item 6 of `docs/risk/DECISIONS.md` speaks of "the instruments to flatten on a trip" without those orders.
* `plan` keeps the files whose first day lies in the span, so a monthly file that begins before `from`
  is left out although it covers it. Funding that settles before the first mark of a leg settles at zero.
* A run that failed loses what it held in `pending` and in the lookahead, at most two events per leg;
  what is in the sinks goes to the next `run`, in order (`NothingLost`).
* `quiesce` closes the idle connections of the whole process, a lister's too.
* A trim that dies between its unlinks and its delete leaves rows without files: a later scan takes the
  partition for complete and its collect raises. A write that dies before its insert and a clear that
  dies before its last unlink leave files that no row names; they do no harm to a scan but count for
  nothing in `trim`. With calls one at a time there is no other way (`IndexMatchesFiles`).
* A ledger file cut short by a crash makes every reader raise until it is removed by hand; `LedgerKeepsLatest`
  says that only a death inside `save` does this, and what is shown as long as the folder can be read.

## 6. Not modelled

* Floating point rounding; wall-clock durations, back-off and jitter.
* Text: urls, the XML scan of a listing (and `list_children`), digits of numbers and dates. What the
  code tells apart in them is modelled, the characters are not. The values of prices and sizes in a row.
* The zip wrapper (a library that turns bytes into bytes; `Unzipped` is its outcome) and the declarations
  in the bindings, which expose types. What the bindings do with the interpreter lock is in `Backtest`.
* `ViewablePool`: a single thread's array. A push beyond its capacity is undefined behaviour in a release
  build, which no state of the model can stand for.
* The ring of recent failures that the fetch pool keeps for diagnostics, and `Ledger.frame`, which read
  and report.
* `python/qp_research` apart from cache and ledger: floating point statistics without state.
* Relaxed memory: see section 2.

## 7. Plan

The components whose behaviour depends on order are modelled, and every invariant and action property that the
passing runs check is proved. What remains is beyond the prover (liveness) or of little use without a larger model:

1. `Datasets` and `Parsers` as checked algorithms: listing in pages against the sorted keys of a bucket, and
   the layouts against the parsers' tests, over bounded inputs.
2. Several symbols per scan in `PartitionCache`, where one fetch serves a chunk of them.
