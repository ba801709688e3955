# PolyBob in TLA+

PolyBob is a personal trading workstation: it follows prediction markets and
crypto venues, computes features and signals, turns a judgement into a *trade
intent*, an intent into a multi-leg *order basket*, and keeps what happened in a
SQLite fact store.  One Python process runs the core on one asyncio loop; calls
to the database and to live venues run in threads.  This directory models the
part of it where state, concurrency and failure meet.  Paths below are relative
to the repository.

## 1. Inventory

| Component | State it keeps | Operations | What is hard | Properties wanted |
|---|---|---|---|---|
| `modules/execution_engine/intent_execution_service.py` | intents, status, basket, idempotency keys, recent signatures; table `intents` | create, submit, restore | every await lets other calls in; writes fail silently; a crash forgets the memory | no phantom or repeated submission, one intent per key, dedupe window kept over a restart, intent limit |
| `modules/execution_engine/basket_executor.py`, `contract_executor.py`, `order_manager.py` | baskets and legs, orders by number; tables `baskets`, `basket_legs` | submit, cancel, restore | live orders in threads, executors that raise, cancellation during submission, order numbers reused after a restart | what is reported was executed, once; orders are recorded; table and memory agree |
| `libs/db/repositories.py` | the tables | one transaction per call | commit order of concurrent threads; UNIQUE key | modelled with the two above |
| `libs/events/__init__.py` | subscriptions, queues, latest payloads, counters | subscribe, unsubscribe, publish, consume, drain, close | backpressure across chained handlers, coalescing, eviction, lists that change under an iteration | lossless topics lose nothing, lossy ones keep the latest, the bus settles |
| `modules/simulation/service.py`, `metrics.py`, `libs/db/simulation_store.py` | active runs, cached records, cooldowns; tables of runs, trades, positions | create/start/pause/stop, dispatch, settle a signal, equity, feedback, restore | status checked before awaits, cached row replaced by an older one, three transactions per trade, memory lost by a crash | a stopped run does not trade and stays stopped, balance and positions account for the trades, cooldown, an outcome is learnt once |
| `modules/realtime_ingestor/service.py`, `libs/polymarket/book_state.py`, `websocket.py`, `replay.py` | books, snapshot queue, resync marks, subscriptions | discovery, WebSocket messages, REST snapshots, resync, reconnection, replay | a snapshot overtaken by changes, a full queue, failed fetches, lost connections | a book converges to the venue's, a resync is served, replay gives the live book |
| `libs/db/book_log.py` | buffer, batches in flight, table `raw_book_events` | log, flush, read, stop | concurrent flushes, failed flush, overflow | logged = stored + buffered + gone, reads see what was logged |
| `apps/api/deps.py` | cached responses, locks | get, evict, clear | a lock dropped while held, a load that began before a clear | one load at a time, no answer older than its request |
| `modules/strategy_manager/service.py` | instances and their strategies | create, start, stop, delete | two strategies whose start never returns | a running strategy is held by its instance |
| `libs/db/trade_journal.py`, `apps/api/journal_api.py` | table `journal_entries` | open, fill, close, abandon | a row is read in one transaction and written whole in another, in threads; no status is refused | the return of a closed position is that of its own fills and fees; no fee is counted twice |
| `modules/risk_manager/risk_checker.py`, `libs/quant/promotion_registry.py` | limits; verdicts | check | - | pure decisions: an environment choice for the models |
| feature engines, market discovery, strategies, signal fusion, `libs/quant`, `libs/backtest`, `rust/` | numeric windows | compute | floating point | out of TLC's reach |
| `apps/api/main.py`, `apps/dashboard`, `apps/tui.py` | - | routes, pages | - | presentation |

How they interact: the realtime ingestor publishes order books and trades on the
bus (lossy topics), the feature engine and the pair engine publish snapshots
(lossy), the strategy engine turns them into signals (lossless); strategies and
the API call `IntentExecutionService.create_intent` and `submit_intent`, which
calls `BasketExecutor.submit_basket`, which calls a `ContractExecutor` per leg
and publishes the outcome (lossless).  `apps/api/main.py` restores the baskets
and then the intents before it serves.

## 2. Plan

Order of work, most important first.

1. `IntentExecution` - done; `IntentExecutionProofs`: all its properties proved.
2. `EventBus`, with the abstract `KeepLatest` - done; `EventBusProofs`: all its
   safety properties and the refinement proved.
3. `BasketExecution` - done; `BasketExecutionProofs`: all its properties proved.
4. `SimulationRun`: life cycle, settlement, equity and feedback of a run - done;
   `SimulationRunProofs`: all its properties proved.
5. `BookLog` and `BookIngest`, which extends it - done; `BookLogProofs` and
   `BookIngestProofs`: all their safety properties proved.
6. `ResponseCache` and `StrategyManager`, which extends it - done;
   `StrategyManagerProofs`: all their properties proved.
7. `TradeJournal`, composed with the two above in `ApiWrites` - done;
   `ApiWritesProofs`: all its properties proved.
8. Every safety property of a passing run is proved; the two liveness properties,
   `BusSettles` and `ResyncEnds`, stay with TLC.

`IntentExecution` and `BasketExecution` meet in one step: `submit_basket` is
`BasketPlaced` or `BasketRaises` in the first and the whole submission in the
second.  A module that composes them is not planned: the interface is one call
and one result, and the product of both state spaces is beyond TLC.

## 3. Modules and their correspondence to the code

One step of a model is the code between two awaits.  Writes go through
`asyncio.to_thread`, so a commit is a step of its own and commits of two calls
happen in any order.  The values a call holds across an await are in its record
(`call`), with a `pc` that names the await it is at.  `Bug...` operators are
mistakes of a plausible kind, each of which some property refutes; no
specification uses them.

**IntentExecution.**  `status`, `basketOf`, `key`, `recent` are
`intent_status`, `intent_baskets`, `_idempotency_keys`, `_recent_signatures`;
`db` is the table, `call` the coroutines.  `sig`, `placed`, `acceptedAt` record
what the world has seen; no guard but `Birth`'s (an identity is new) reads them,
apart from `sig`, which is also the intent's payload.

| Code | Actions |
|---|---|
| `create_intent` | `CreateWithoutKey`, `CreateWithKey`, `LookupReads`, `CreateReplays`, `CreateAfterLookup`, `SaveCommits` |
| `submit_intent` | `SubmitDuplicate`, `SubmitRejected`, `SubmitAllowed`, `BasketPlaced`, `BasketRaises`, `SubmitReturns`, `UpdateCommits` |
| `_persist` when the write fails | `WriteFails` |
| process ends, `restore_state` | `Crash`, `Restore`, `RestoreFails` |

Abstracted: the payload of an intent is its signature; the promotion gate
refuses before anything changes, so `Sigs` are promoted ones; the risk checker is
a free choice; error texts, decisions and events are left out.

**BasketExecution.**  `status` and `leg` are `baskets` with their legs, `manager`
the `OrderManager` of every venue (an order's number is its place in the
sequence, as the code's counter makes it), `row` the two tables, `venue` the
orders really placed and open.  `Kind` says what stands behind a venue: a paper
or a live executor, one marked unavailable, or none.  `submit_basket` is
`SubmitBasket`, then per leg `RejectLeg`, `UnavailableLeg`, `PaperLeg`, or
`LiveLegStarts`/`LegAccepted`/`LegRaises`/`LegRecorded` (the thread), each
followed by `Commits` or `WriteFails`, then `Finish`.  `cancel_basket` is
`CancelBasket` and `CancelContinues`, which cancel the next leg that has an order
(`CancelTrade`) or finish.  Abstracted: prices and sizes; paper order ids, which
the client makes from the millisecond clock, are taken to be distinct; no order
is ever filled, because nothing in the repository calls `fill_order`.

**EventBus.**  `subs` is the live list of subscriptions of each topic, `queue`,
`latest`, `pending`, `task`, `handling` the fields of a `_Subscription`, `pub` a
publisher that waits in `queue.put` with its place in the list, `stats` the
counters.  A publisher is interrupted only at a full queue, so `PublishLossless`
and `PublisherResumes` each put into every queue up to the first full one;
`PublishLossy` never waits.  `Take` is the consumer up to its handler,
`HandlerPublishes` a handler that publishes in turn (`Relay`), `HandlerReturns`
and `HandlerRaises` its end.  `CloseBegins`/`CloseEnds` are `close` with `drain`.
Events are numbered per publisher (lossless) or per key (lossy).  Left out: the
reset on a change of event loop.

**KeepLatest** is the promise of a lossy subscription: a bounded mailbox that
holds the newest event of each key, in which an arriving event may displace
another one.  `EventBus` implements it for every lossy subscription under the
mapping `box <- latest[s]`, `other <-` the number of items without a key,
`out <-` the last event of each key handed to the handler (`LossyKeepsLatest`,
which is its initial condition and `[][Next]_vars` for each subscription).

**SimulationRun** is one run: `row`, `trades`, `pos` are its rows of `sim_runs`,
`sim_trades` and `sim_positions`, `obj` the `_ActiveRun` objects ever bound for it
and `active` the one `_active` holds.  Runs share nothing but the feed, which
serves them in turn, so another run is a delay between two steps; a feed
handles one snapshot after the other and a source listens to one topic, so the
lock of a run is never contended.

| Code | Actions |
|---|---|
| `create_run` | `CreateRun`, `SaveCommits`, `Activates` |
| `start_run`, `pause_run`, `stop_run`, `_transition` | `TransitionRun`, `LookupReads`, `WriteCommits`, `Rereads`, `TransitionInstalls`, `StopPops` |
| `apply_feedback`, of the service and of `metrics.py` | `ApplyFeedback`, `Learns`, `MarkCommits`, `Rereads`, `FeedbackInstalls` |
| `_dispatch`, `_process_signal` | `Dispatches`, `SettleBegins`, `Sizes`, `TradeCommits`, `PositionCommits`, `CashCommits`, `Rereads`, `TradeInstalls` |
| `_equity_loop`, `_record_equity` | `PollVisits`, `Values`, `PointCommits` |
| errors, end of the process, `restore_state` | `DatabaseFails`, `Crash`, `Restores` |

Abstracted: a balance is the set of trades it has paid for and a position the
set of trades it adds up, which keeps exactly what can be lost or counted twice;
sizes, prices, fees, the risk checker and the book decide in `Sizes` whether
there is a fill and whether it closes; time passes only where it is compared with
the cooldown; the list of positions is read where it is used, since only the
feed writes it; equity points are written and not read here.  The row may exist
when the process starts.  `upset` notes which unguarded case has happened (an
overlap of life cycle calls, or of feedback calls, a record replaced by an older
row, a crash, an error), and each property names those that void it; for each one
TLC refutes the property without the exception.

**BookLog** is `BookEventLog`: `buffer` and `stored` hold events by number, and a
`batch` per flusher (the loop, `stop`, each reader) is what a flush has swapped
out and not yet written.  **BookIngest** extends it with the ingestor: `book` and
`based` are the reducer's levels and `_has_snapshot`, a level being the number of
the change that set it; `pending`, `queue`, `fetch` are `_resync_pending`,
`_snapshot_queue` and the workers; `wanted` the subscriptions of the WebSocket
client.  `venue`, `live`, `wire`, `socket` are the venue and the connection: it
sends each change of what is subscribed, now and then a whole book, and loses
what is on the wire when it breaks.  `VenueChanges`, `VenueSendsBook` and
`RestAnswers` are the venue; `Connects` and `Cut` the reconnection loop;
`Discover`/`DiscoverPuts` `_on_market_discovered` before and after its wait at a
full queue; `WorkerAsks`, `RestFails`, `SnapshotArrives` a worker;
`HandleBook`/`HandleChange` `_handle_message`, which logs before it reduces;
`Stops` and the log's actions the end and the flushes.  `Replayed` is
`replay_from_log`.  Abstracted: prices; the flush threshold, since the loop may
wake at any time; a handler's publications, which go to lossy topics and never
wait.

**ResponseCache** is `cached_api_response` with its two dictionaries: `Hit` and
`Miss` the check without the lock, `HitAfterWait`/`LoadAfterWait` the second
check, `LoadEnds` (with `Evictions`), `LoadFails`, `Expires`, and `Clears`.
A value is the number of writes its loader saw.  **StrategyManager** extends it
with `create_instance`, `start_instance`, `stop_instance`, `delete_instance`
behind the endpoints that empty the cache after them.  `StartScanner` is
`start_instance` for the two strategies whose `start` is their scanning loop
(`strategies/us_insider_cluster_buy/strategy.py:247`,
`strategies/altcoin_retail_crowding/strategy.py:192`): the call does not return.

**TradeJournal** is the table `journal_entries` (`entry`) and the handlers of
`apps/api/journal_api.py` (`edit`).  `Opens` is the insert; `Reads` the first
transaction of `record_fill`, `close_entry` and `abandon` together with what they
make of the row in memory (`Filled`, `Closed`); `Updates` or `UpdateFails` the
second transaction, and `Responds` the end on the loop.  A price stands for a
fill with its quantity, 0 for every price that is not positive; each fill and
each close costs one fee; the result is the list of the columns it is computed
from, so two results are equal when their inputs are.  `charged` and `raced` record what has
happened.  **ApiWrites** runs the journal beside the strategy manager and the
cache, which a journal request empties before it answers (`JournalAnswers`).

## 4. Runs

| Run | Instance | What it shows |
|---|---|---|
| `intent_serial` | 3 intents, 1 signature, 1 client key, 1 call at a time, `MaxOpen` 2, window 2, time 0..2, 1 crash and 1 fault | `PersistedSubmitIsFinal`: a submission the table knows is never executed again; `DedupeWindowKept`, with the exceptions a restart makes spelled out; `OneIntentPerKey` |
| `intent_overlap` | 2 calls in flight, `MaxOpen` 0, window 1, 1 crash | `SubmissionHasBasket`, `OpenBound`, `MemoryKnowsSubmissions`, `SubmittedIsSticky` under every interleaving |
| `intent_restart` | as serial, no faults | **violation** of `DedupeSurvivesRestart` (finding 1) |
| `intent_idempotency` | 2 calls, no faults | **violation** of `OneIntentPerKey` (finding 2) |
| `basket` | 2 baskets of 2 and 3 legs over a shared live venue, a paper venue, an unavailable and a missing one; 1 cancellation at a time, 1 crash, 1 fault | `ReportedIsReal`, `LegPlacedOnce`, `OrdersAreRecorded`, `OrderIdsAreOwn`, `RowsAgree`, `CancelledIsClosed`, `OutcomeIsFinal` |
| `basket_restart` | 1 basket on the venues of `apps/api/main.py`, no faults | **violation** of `RestartKeepsBaskets` (finding 3) |
| `bus_lossless` | 3 subscribers in a chain, 2 publishers, queues of 1, one failing handler | `LosslessInOrder`, `BusSettles`, queue bounds |
| `bus_lossy` | 1 subscriber, 2 keys and unkeyed events, a queue of 2, unsubscription and close | `QueueAgreesWithKeys`, `FreshestKept`, `CountersAccount`, `LossyKeepsLatest` |
| `simulation` | 1 run, 2 instruments, snapshots of 1 or 2 signals, 2 API callers, 2 calls, 2 trades, cooldown 1, time 0..1, 1 crash or error | `NoLateTrades`, `PositionsAccount`, `CashAccounts`, `CooldownKept`, `EquityWithinOneTrade`, `FedOnce`, `StoppedIsFinal` |
| `market_data` | 2 markets of 1 level, 1 worker, a queue of 1, 2 messages, 1 mishap; a log with a buffer of 1, 1 read | `BookConverges`, `PendingIsServed`, `ReplayIsLive`, `LogAccounts`, `ReadSeesLogged`; `ResyncEnds` under fairness |
| `strategy_api` | 2 keys, 3 requests, a cache of 1, 3 calls; 2 instances, one a scanner; 1 position, 2 editors, prices 0 and 1; 2 writes in all | `OneLoader`, `AnswerIsRecent`, `OnlyScannersLeak`, `ResultIsOwn`, `FeesAccount` |
| `bus_unsubscribe` | as lossless, one subscriber removable | **violation** of `LosslessInOrder` (finding 4) |

Bounds.  Three intents let two compete for a signature or a key while a third
counts against the limit, or holds the key column; window 2 in time 0..2 has
moments inside, at and beyond the window.  Two calls suffice for a race of two
reads or two writes.  One crash and one fault each occur at every point of every
call.  A queue of 1 is full after one event, so that every publisher waits; three
orders keep the relay and its source waiting at the same time.  Two keys and a
queue of 2 allow coalescing, eviction of a key by another and by an unkeyed
event, and the case where everything fits.  Two calls and two trades in the
simulation put a transition or a feedback call at every point of a settlement,
and a second trade within the cooldown of the first.  In `market_data` a second
market meets the queue full, and two messages are a change and another change or
a book, one of which can be on the wire, lost or overtaken by a fetch; the mishap
is a broken connection, a failed fetch or a failed write of the log.  A cache
for one answer evicts when two keys are used; two writes, of the manager or of
the journal, overlap each other and a load, and a position that was planned when
the process starts needs no more to be filled and closed.  `ApiWritesProofs` proves
the same five properties without any bound.  The type invariants of
`IntentExecution`, `BasketExecution` and `BookIngest` are proved and not checked again.  One lossy subscriber is enough since
lossy subscriptions share no state but the counters.  Clock, crashes, faults,
events per source and identities are bounded, so the models stop where the
system would go on: the runs do not check for deadlock.  Symmetry is used for
identities only, and never with a liveness property.

Fairness.  `BusSettles` is checked under `FairSpec`: a publisher whose queue has
room resumes, a consumer with an item takes it (asyncio runs what is ready), and
a handler that is not waiting for a queue ends (handlers are ordinary
coroutines).  Nothing forces anybody to publish, subscribe, or close.  The claim
is for chains of handlers that do not lead back to themselves, as in the
repository; a handler that publishes to its own full lossless queue would wait
for itself.  `ResyncEnds` is checked under `BookIngest!FairSpec`: a snapshot worker
that can go on does, and a request over HTTP is answered or fails, which the
client's timeout ensures.  Neither the venue nor the connection is fair, so the
property does not lean on a book that happens to arrive.

## 5. Findings

1. `DedupeSurvivesRestart`.  `restore_state` rebuilds the window from rows whose
   key column is the signature; with a client's idempotency key in that column,
   the submission is forgotten and a duplicate goes through.
   `tests/test_persistence_recovery.py:149` covers the case without a client key.
2. `OneIntentPerKey` with two calls.  The key is registered after the await that
   looks it up; both calls create.  The docstring at
   `intent_execution_service.py:246` promises the existing intent.
3. `RestartKeepsBaskets`.  A cancellation that overlaps the submission: the basket
   is cancelled in the table and `partial` in memory, or the other way round,
   with an order open.  `apps/api/main.py:606-607` has memory as a cache of what a
   restart restores.
4. `LosslessInOrder` with an unsubscription: `publish` iterates over the live list
   and awaits, so a removal shifts the list and the next subscriber is skipped.
   `libs/events/__init__.py:9-11` calls these topics lossless.

Found and not stated as properties, because the code does not claim them: two
overlapping submissions of one intent place two baskets; a basket that raises
midway is placed again by a retry; a cancelled leg may still be open when a live
venue refuses; after a restart the number of an old leg may name a new order, so
`OrderIdsAreOwn` and `CancelledIsClosed` speak of the time before the first crash.
In the simulation, a start that overlaps a stop revives the stopped run, and two
starts bind it twice; a record set back by an older row pays for the next trade
out of the old balance; a crash between the transactions of a trade leaves a
trade without its position.  In the ingestor, the comment at
`modules/realtime_ingestor/service.py:258` says that a full queue keeps the
pending mark, which the code discards; a failed fetch leaves the mark for good,
so nobody asks again; a discovery on a closed connection never asks for its
snapshot; a reconnection neither invalidates nor fetches the books, although
`PolymarketBookReducer.invalidate` (`book_state.py:256`) is meant for it; snapshots
fetched over REST and messages about several assets cannot be replayed from the
log.  `read_events` misses what another flush holds at that moment.  The cache
holds one answer more than its cap.  Of two overlapping edits of a journal entry
the later write undoes the earlier one, fee included (`raced`); a close after a
fill that was reported at no price keeps the result of an earlier close; an entry
that is closed or abandoned can be filled and closed again.  A scanner strategy that was started cannot
be stopped, nor seen to run.

## 6. Proofs

`IntentExecutionProofs` (TLAPS) proves for all values of the constants, from
`IntentsAssumption`, `KeysAssumption` and `BoundsAssumption`:

- `TypeCorrect`: `Spec => []TypeOK`;
- `SubmissionsHaveBaskets`: `Spec => []SubmissionHasBasket`;
- `Invariance`: `Spec => []IInv`, from which both follow;
- `MemoryIsAhead`: `Spec => []MemoryKnowsSubmissions`;
- `SubmittedStays`: `Spec => SubmittedIsSticky`;
- `OpenIsBounded`: `Spec => []OpenBound`, if `Calls` is finite;
- `KeysAreUnique`: `Spec => []OneIntentPerKey`,
  `SubmittedOnce`: `Spec => PersistedSubmitIsFinal` and
  `WindowIsKept`: `Spec => []DedupeWindowKept`, if calls do not overlap (`OneCall`).

`SubmissionHasBasket` is not inductive: `SubmitReturns` copies a basket number
out of the call's record, and `UpdateCommits` writes one to the table.  `IInv`
therefore adds `CallHasIntent` (a call that waits for anything but the lookup
names an intent) and `CallHasBasket` (a call that returns from the executor, that
is about to write a submission, or that read one from the table carries a number
in `1..placed[i]`).  The argument: `placed` only grows (`PlacedGrows`), so what
holds of a call, a status or a row at rest goes on holding (`HoldsAfter`,
`CallHolds`), and each action moves a number only from a place where it was
already justified (`SubmissionStep`).  `TypeStep` is one case per action.

The rest builds on `Known`, what memory, table and calls know of each other: a
process that is down holds nothing (`Down`), an intent that a call works on is in
memory and is submitted there before its row can be (`CallsKnown`), and after a
full read of the tables whatever has a row is in memory (`RowsKnown`).
`CountInv` counts: a call that is about to submit passed the limit check, so the
submitted intents and the calls between check and result are together at most
`MaxOpen` plus the calls; the rows have the same bound, for a restart reads them
back.  `OneCall` is an assumption of the last three theorems because the service
does not guard its calls against each other: the run `intent_idempotency` shows
two calls that break what one call at a time keeps.
Under it `HeldKeys` adds that no intent in memory holds the key a creation is
looking up; `FinalInv` that a call past the status check works on an intent whose
row does not say submitted, and that what it is about to write does not undo a
submission; `WindowInv` that `recent` is not older than the last submission of a
signature (`RecentInv`), unless a crash came and its row does not carry the
signature (`Forgotten`), and that a call past
the window check is a window away from every other submission (`SubmitInv`).

`StrategyManagerProofs` proves for all keys, requests, instances and bounds, from
`CacheAssumption` and `ManagerAssumption`:

- `TypeSafety`: `Spec => []TypeOK`, which bounds the cache by `MaxEntries + 1`;
- `Recency`: `Spec => []AnswerIsRecent`;
- `SingleLoader`: `Spec => []OneLoader`;
- `StrategiesAreHeld`: `Spec => []OnlyScannersLeak`.

They follow from `IInv`, whose conjuncts are: `Recent` - what is cached, being
loaded or answered is as new as the last write, unless its key was crossed by
it; `LockInv` - a request that loads or waits for a key does so with the lock the
table has for it, unless the key's lock was forgotten while in use (`OwnLock`),
no two loaders share a lock (`Exclusive`), and locks are numbered as they are
made (`Minted`);
`Bounded` - the cap, for which `EvictionsSuffice` counts what an eviction leaves;
`ManagerInv` - the numbers of strategies are new, and an instance that runs holds
the only one alive that is its own.

`ApiWritesProofs` extends it to the composition with the journal, from
`JournalAssumption` besides: `ApiSafety` (the three properties above under
`ApiSpec`), `JournalTypes`, `ResultsAreOwn` and `FeesAreAccounted`.  The cache and
manager part is `IInv` again, because a journal step is for them an operation or
the end of one.  For the journal `ResultIsOwn` and `FeesAccount` are not
inductive, since a row waits in a handler before it is written; `JournalInv`
adds what holds of such a row (`Pending`): it is sound, it shows at most the fees
written plus its own, and exactly these if nobody else has edited the entry.

`BasketExecutionProofs` proves for all baskets, numbers of legs, venues, kinds of
venue, cancellations, crashes and faults, from `BasketsAssumption`,
`VenuesAssumption` and `BasketBoundsAssumption`:

- `TypeCorrect`: `Spec => []TypeOK`;
- `NoFakeExecution`: `Spec => []ReportedIsReal`;
- `PlacedOnce`: `Spec => []LegPlacedOnce`;
- `OrdersAreOwn`: `Spec => []OrderIdsAreOwn`;
- `OutcomesAreFinal`: `Spec => OutcomeIsFinal`;
- `RowsComeBack`: `Spec => []RowsAgree`;
- `OrdersInTheTable`: `Spec => []OrdersAreRecorded`;
- `CancellationCloses`: `Spec => []CancelledIsClosed`.

The inductive invariant is `TypeInv /\ RealInv /\ AheadInv /\ OwnInv`.  `TypeInv`
types the calls as well: what a call at some await holds (`CallsInv`).
`RealInv` follows the word "submitted" to every place it is copied to: the legs
in memory, the rows, and the snapshots that wait in a thread to be written.
`AheadInv` says that a leg beyond the one its call is at was not placed, which
makes the next placement the first.  `OwnInv` says that an order number in a leg,
or in the record of a thread that is about to store it, names that leg's entry of
the venue's manager, with `Apart`: two placements at one venue have different
numbers until a crash resets the counter.

The last four rest on `BornInv`: a call works on a basket that exists, a process
that is down runs none, and a basket whose past is "alone" has one call at most;
`None` must be no basket and no leg for that, which `BasketsAssumption` says.
`FreshInv` says that the legs a submission has not reached are as they were
created.  `AgreeInv` says what the row of a basket lacks at each await of the one
call that works on it, which is nothing when none does.  `RecordInv` says of the
order numbers alone, for any overlap while no write was dropped, that a row lacks
the number of one leg at most, the one a submission is at, and that the row is
then says submitting or cancelled (`RecordOf`).
`CloseInv` follows a cancellation: the legs before the one it is at are shut
(`Closing`); an open order has its number in its leg, or in the submission that
is about to note it (`Numbered`, `Held`); nothing is cancelled behind the back of
a submission (`Submitting`).  Since numbers are a leg's own (`OwnInv`), cancelling
one order opens or leaves open no other.

`BookLogProofs` proves for all buffers, readers and numbers of reads, from
`LogAssumption`:

- `EventsAccounted`: `LogSpec => []LogAccounts`;
- `ReadsSeeLogged`: `LogSpec => ReadSeesLogged`;
- `LogIsOrdered`: the rows of a log that lost nothing, wrote everything and whose
  flushes never met (`Whole`) are `1..logged`, in that order.

`LogAccounts` counts, and counting is not inductive by itself: `PlacesInv` says that
every event is in exactly one place - stored, in the buffer, in one batch, or
gone - and once there (`Partitioned`, `Covered`), from which the sum follows
(`PlacesAccount`).  `ReadInv` says that what a read must see is stored, in its own
batch, or gone, from the moment it takes the buffer.  `OrderInv` says that, while
nothing was lost and no two flushes met, the rows, the one batch in flight and the
buffer follow each other as the events were logged.

`BookIngestProofs` proves for all assets, levels, workers, queue sizes and bounds,
from `IngestAssumption` besides:

- `UsesLog`: `Spec => LogSpec`, every step of the ingestor is a step of the log or
  leaves it alone; hence `EventsAreAccounted` and `ReadsSeeLoggedEvents`;
- `TypeCorrect`: `Spec => []TypeOK`;
- `ResyncsAreServed`: `Spec => []PendingIsServed`;
- `BooksConverge`: `Spec => []BookConverges`;
- `ReplaysAreLive`: `Spec => []ReplayIsLive`.

`PendingIsServed` needs that an idle worker serves no asset (`FetchOK`); a mark that
is set goes into the queue in the same step, and whoever takes it out serves it
until it is answered or fails (`ServedByWorker`, `ServedByMessage`).

Messages are applied level by level (`Applied`): the last one that sets a level
decides it, which is what a reduction of the messages one after the other comes to
and needs no recursion.  `BookConverges` speaks of the end of the wire; `SyncInv`
says for each level what must hold at every place of it.  The last change of the
level on the wire, and any book after it, carry the venue's value (`Agrees`), and
once no change of it is on the wire (`Quiet`) the book has that value, and so has
every fresh answer of a fetch (`LevelAt`).  What is on the wire belongs to a live
asset (`LineInv`), so a change that is not sent overtakes nothing.  `ReplayIsLive`
rests on two invariants: `OrderInv` of the log, by which the rows of a whole log
are all messages in their order, and `HistoryInv`, which compares the live book
with the messages logged so far, one level at a time (`LastSets`).  That there is a
last message at all comes from the well-foundedness of the naturals (`LatestIs`).

`SimulationRunProofs` proves for all instruments, callers, settings and bounds,
from `ProcsAssumption`, `SettingsAssumption` and `SimBoundsAssumption`:

- `TypeCorrect`: `Spec => []TypeOK`;
- `TradesAreHeld`: `Spec => []PositionsAccount`;
- `StopIsFinal`: `Spec => StoppedIsFinal`;
- `OutcomesFedOnce`: `Spec => []FedOnce`;
- `NothingLate`: `Spec => []NoLateTrades`;
- `CashIsPaid`: `Spec => []CashAccounts`;
- `PointsAreClose`: `Spec => []EquityWithinOneTrade`;
- `TradesAreSpaced`: `Spec => []CooldownKept`.

A call of this module waits at many awaits with what it read before, so `TypeOK`
is not inductive: `TypeInv` adds what each of them can rely on (`CallFits`,
`FeedFits`, `RowFits`) - the row exists, the object was made, the trade that is
being settled is the last one, its leg the head of those left.  `Down` says that a
process that is down holds nothing.  `StopInv` is about a run whose row says
stopped, as long as nothing overlapped or failed: it has no object, or the one
stop that wrote the row is about to take it out (`Still`), and no call is left
that would write another status or enter an object.  `FedInv` says that the
watermark covers every outcome that was fed, or the one feedback call that fed it
is about to store a watermark that does (`Covered`); saving a new run resets the
watermark, and `SaveInv` says that nothing was fed before that.

For the last four, `SoloInv` says what holds while life cycle calls do not overlap:
there is one record in memory at most, each call keeps to the one in `_active`,
and the row says what the call wrote (`Steady`, `Retired`).  `TradeInv` says that
the trade being settled is the last one, `TornInv` that no trade was cut short
where nothing broke, `AbsentInv` that a run without a row has none.  `QuietInv`:
from a pause or stop on, nothing says running and no start is under way, so the
feed begins no trade.  `CashInv`: the
record's balance is the row's, or behind it by the trade just stored, and the
balance a trade starts from is still the row's.  `PointInv` compares what a
valuation read before and after its await; `CoolInv` says that the record
remembers the last trade of every instrument but the one in flight.  Each is
conditional on what the property is conditional on, and the condition, once
broken, stays broken (`UpsetGrows`).

`EventBusProofs` proves for all topics, subscribers, publishers, keys, queue sizes
and bounds, from `TopicsAssumption`, `SourcesAssumption` and `CapAssumption`:

- `TypeCorrect`: `Spec => []TypeOK`;
- `QueuesAgree`: `Spec => []QueueAgreesWithKeys`;
- `KeepsLatest`: `Spec => LossyKeepsLatest`, the refinement of `KeepLatest`;
- `DropsAreCounted`: `Spec => []FreshestKept`, if `Keys` is finite;
- `EventsInOrder`: `Spec => []LosslessInOrder`, if no lossless subscription and no
  handler that publishes on a lossless topic can be unsubscribed;
- `EventsAreCounted`: `Spec => []CountersAccount`, if `Subs` is finite.

The inductive invariant is `TypeInv /\ QueuesFit /\ Seen`.  `TypeInv` adds to the
types that a topic lists its own subscriptions and that a publisher waits only at
a subscription of the lossless topic it publishes on.  `QueuesFit` says that a
queue stands for each key at most once and that its keys are the pending ones and
the ones with a latest payload; `Counts` derives the length of the queue from
that, which the mailbox's capacity is about.  `Seen` says that nothing kept or
handed over is newer than what was sent.  The step simulation goes through
`Moves`: for each subscription a step of the bus keeps it, puts a key or a plain
event into it, posts to it what coalesces, or takes from it, and each of these is
a step or a stutter of the mailbox.  `DropInv` adds for `DropsAreCounted` that what a
listed subscription keeps of a key is the key's newest event, and that an eviction
misses at most one more key and counts one drop.

`EventsInOrder` needs its hypothesis: the run `bus_unsubscribe` shows that an
unsubscription in the middle of a publisher's walk makes it skip a subscriber.
`OrderInv` says that what a queue holds of a publisher is a `Run`, numbers that
follow each other without a gap, which ends at the last event that has reached
its place of the list (`SentTo`): the newest one, or the one before if the
publisher still waits in front of it.  For that a publisher that waits stands at
a place of the list with its newest event (`Walks`), what is not subscribed has
got nothing (`Unfed`), and a list names a subscription once (`Once`).

`EventsAreCounted` adds up over the subscriptions.  A sum is the size of a set of
units (`Units`, `Total`), so that adding one at each member of a set adds the size
of the set (`TotalGrows`): no induction over the subscriptions is needed.
`Balanced` and `Accounted` are kept by every kind of step (`PutBalance`,
`LossyBalance`, `TakeBalance`, `TakeAccounts`, `EndAccounts`, `CutAccounts`), and
`CountInv` adds that a cancelled subscription is listed no more (`Gone`), so that it
cuts off one event at most, and that events have numbers (`Numbered`), so that a
handler that was given one is busy.

Only model-checked: `BusSettles` and `ResyncEnds`, which are liveness under
fairness, out of the prover's reach.

## 7. Not modelled

Of the simulation, starting and stopping the service itself, the audit trail and
the experiment registry; of the ingestor, trades and order updates, which pass
through to the bus, and the backoff of reconnections; of the journal, the
queries, which only read.  Numerics (features, strategies, quant,
backtests, Rust kernels) are floating point; the risk checker and the promotion
registry are pure and appear as choices; the HTTP layer and the dashboard present
state and keep none that matters.  The decision log, the audit trail and the
order events are written and never read back by the modelled parts.
