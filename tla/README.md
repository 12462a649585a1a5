# Verification of the sports-tail-trader backend

TLA+ models of `polymarket_trader` (an asyncio program that trades sports markets on
Polymarket), the TLC runs that check them on small instances, and the theorems about them
that TLAPS proves for every instance. Paths below are relative to
`src/src/polymarket_trader/` unless they start with `src/`.

`PROJECT.json` is the index: the components with their source files, every run with the
properties it checks, for every property a mutant of the model (a plausible bug of the code
that makes the property fail), the source lines of every definition, the findings, the
hazards, and the theorems.

Contents: 1 the system, 2 the modules, 3 the runs, 4 what is proved, 5 findings, 6 what is
not modelled, 7 what the plan has left.

## 1. The system

One process, one event loop; worker threads only run the exchange adapter's HTTP calls.
Everything that is shared is shared between coroutines, so races happen at awaits, between
the process and the exchange, and between the process and the feeds. The repository has no
tests of its own to compare with; its claims are in docstrings, comments and READMEs.

| Part | State it keeps | Operations | Talks to |
|---|---|---|---|
| Order executor (`infra/polymarket/order_executor.py`, `auth.py`) | idempotency index, bounded cache of results, confirmation windows per market | submit, cancel, replace | exchange through worker threads; order gateway, operator, reconcile |
| Event bus (`runtime/event_bus.py`) | trading queue of keys with the latest event per key, maintenance queue, retained events, pause flag | publish (waits), publish_nowait, next event of a lane, pause, resume | feeds, timers, decision worker, reconcile loop, outbox |
| Account state, the gate (`runtime/account_state.py`) | connection and reconcile flags, `allow_new_entries`, pauses per market | mark_*, set_allow_new_entries, pause, resume | hooks of the user channel, reconcile, order results, operator |
| Account state, the data (`app/order_projection.py`, `pipeline/feedback/`, `recovery/authority_refresher.py`) | positions, open orders, balances, fills | apply order results, user-channel messages, REST polls | executor, user channel, poller |
| Order answers (`execution_response_mapper.py`, `order_result_builder.py`, `schemas/clob.py`, `user_ws_adapter.py`) | none | decode answers, messages, listings | executor, account state |
| Reconcile (`recovery/`) | the round in progress | refresh, plan per market, apply, prune, mark | account state, registry, executor |
| Decision worker and gateway (`pipeline/decision/`, `pipeline/execution/`, `domain/risk.py`) | lifecycle per market | process_event: snapshot, decide, gate, send, handle the result | bus, account state, executor |
| Entry sizing (`workflow/quant_*.py`, `workflow/allocation.py`, `domain/kelly.py`) | none | probability, Kelly stake, plan, order | decision worker, live scores |
| Order control (`app/operator_service.py`, `app/operator_order_control.py`, `recovery/action_applier.py`) | the requests under way | forced exit, cancel one or many, replace, planned cancels | gateway, account state |
| Registry and its prune (`runtime/registry.py`, `runtime/lifecycle_*.py`) | markets, event index, failure counts, listeners | ingest, refresh, quarantine, prune | stream, reconcile, exposure of the account |
| Discovery scan and ingest (`pipeline/ingest/market_discovery/`, `app/market_payload_parser.py`) | cursors of the queries, back-off, last rejections | tick, expand an event, refresh a held market, ingest one market | Gamma, registry, bus |
| Orderbook ingest and its transport (`pipeline/ingest/orderbook_ws/`, `runtime/ws_loops.py`) | books, sequence numbers, frame queue | whole book, price change, gap, REST snapshot, resubscribe | bus, registry |
| Book readings (`domain/orderbook*.py`, `runtime/orderbook_*`) | samples, window of past books, metrics | compute with every frame | orderbook ingest, strategy |
| Live scores (`infra/sports/`, `pipeline/ingest/live_source/`, `runtime/tracked_event_index.py`) | subscriptions, poll tasks, snapshots, buckets, tracked matches | reconcile, poll, parse, distribute, match, prune | providers, registry, metadata |
| Match feeds (`goalserve_livescore_parsers.py`, `goalserve_inplay_parsers.py`) | last seconds told | status, period, seconds, score of every sport | live scores |
| Market sides (`workflow/outcomes.py`, `workflow/live_state.py`, `sports/slug_resolver.py`) | none | family, type and sides of a market, its match | live scores, sizing |
| Score certainty (`sports/math_prob.py`) | none | the probability a score gives a side | sizing |
| Pregame odds and metadata (`goalserve_pregame_*.py`, `runtime/market_metadata.py`) | snapshots and timestamps per sport, records and aliases | incremental round, upsert, find, evict | providers, live scores |
| Local outbox (`infra/outbox/local_queue.py`) and persistence worker (`app/audit/`) | ready queue, stored and queued events, retained events, merge index; batch, deduper window | put_nowait, get, ack, retry, dead_letter; poll, filter, classify, write, settle | bus mirror, decision recorder, PostgreSQL |
| Audit tables (`infra/outbox/event_sink.py`, `app/audit/records.py`, `infra/db/`) | rows | sink, records, batch and single writes | outbox |
| Audit retention (`app/audit_retention.py`, `infra/db/retention_policy.py`) | the purge under way | purge by tier in batches | database |
| Settlement (`recovery/settlement_scanner.py`) | markets already published | scan, look up, publish, mark | Gamma, account state, bus |
| Scheduler, supervisor, process (`runtime/scheduler.py`, `runtime/supervisor.py`, `main.py`) | phase, degraded reasons, breach count, jobs | run and trigger jobs, refresh, back-pressure, start, stop, operator's pause | everything |
| Paper trading (`app/paper/`) | virtual ledger | match, book, project, synchronise | decision worker, account state |
| Virtual paper drill (`app/virtual_paper_trading.py`) | the scan under way | scan, rank, trade one candidate | registry, exchange, a worker of its own |
| Event streams (`api/routes/stream.py`, `api/ws/publisher.py`) | bounded queue per client, queue of the publisher | broadcast, register, read, drain, send | bus, HTTP clients |
| HTTP pages, repositories' queries, gauges, front end | | | read only |

### What is hard in it

* **At-most-once execution with unknown outcomes.** Caller, task and adapter thread time out
  separately; a late answer, a second caller with the same key, an evicted result and a
  retry all meet in the idempotency index.
* **One decision, many awaits.** A BUY is decided on a snapshot and sent several awaits later,
  while polls overwrite the account, frames are lost, the operator shuts the gate and the
  market is pruned. Only the lifecycle in the worker's memory stops the second BUY.
* **Account data from three sources** (order results, user channel, REST), each overwriting
  or adding to the others, with snapshots taken before awaits and written back after them.
* **Bounded queues everywhere, each with another rule when full**: wait, drop the oldest,
  retain and merge, refuse, evict by class. A waiting publisher may find its key changed.
* **A safety gate with many writers.** Hooks, concurrent reconcile rounds with plans made
  several awaits ago, order results and the operator write the same flags.
* **Entities that come and go.** Markets are found, pruned, quarantined, resolved and found
  again by writers with copies of their own, while the account holds them.
* **Judgements on sparse feeds.** Two score feeds tell sixteen sports in different words;
  a missing timer, a break or overtime may make a score look final.
* **Nothing persists but the audit log.** A restart begins with empty state; what the
  exchange holds is recovered by polls.

### What makes each part correct

* executor: one execution per key at a time; an answer that speaks for the exchange is true;
  cache and index agree under eviction.
* bus: queue and dict agree; conflation never loses the newest awaited event of a key.
* gate: open only if earned; a pause that is not recoverable is not undone by a stale plan;
  the gate opens again while the loop lives.
* account data: a poll that nothing disturbs makes the projection the exchange's; it comes to that.
* decision worker: a market that was answered for, and truly, is bought once; a shut gate takes hold; no
  BUY beside a resting one.
* sizing, order control: one half of the pipeline does not refuse what the other sized;
  concurrent exits never ask for more shares than there are.
* registry, discovery: a held market leaves only knowingly and comes back; every page of every
  query is read; the audit log says what the registry has.
* books, streams: a copy of a book becomes the exchange's again; onlookers get events in
  order and losses are counted.
* live scores: a match stays tracked while a market needs it; nothing of a pruned market
  remains; scores keep coming; what the feeds say is what was played; a certainty is final.
* outbox, tables, retention: a critical event is written, given up or left out on purpose; an
  acknowledged event has its rows; nothing is purged early.
* settlement, paper, supervision: marks are what the closed market said and everything closed is settled; no money
  from nothing; trading is enabled again when the load is gone.

## 2. The modules

A step of every module is the code between two suspensions: where the code awaits something
that can suspend, the model has two actions; where it does not, one. The environment
(exchange, feeds, operator, clock) may do at any time what its interface allows.

| Module | Models | Proofs | Run |
|---|---|---|---|
| `AtMostOnceExecution` | abstract: per key fresh, executing, settled; a known outcome may be forgotten | | property of `OrderExecutor` |
| `OrderExecutor` | submit, cancel, replace, tasks, adapter threads, the exchange's effect | `OrderExecutorProofs` | `OrderExecutor` |
| `EventBus` | both lanes, publishers, consumers, retention | `EventProofs` | `Streams` |
| `EntryGate` | the gate and the pauses with every writer | `EntryProofs` | `EntryGate` |
| `AccountProjection` | positions, open orders and balance of one token with every writer | `AccountProjectionProofs` | `AccountProjection` |
| `OrderAnswers` | decoding of answers, messages and listings | | `Functions`, `FillsAreOurs` |
| `DecisionWorker` | events in turn, lifecycle, risk gates, results | `DecisionWorkerProofs` | `DecisionWorker` |
| `EntrySizing` | probability, Kelly stake, plan, money gates | `EntryProofs` | `Functions` |
| `OrderControl` | operators, recovery plan, exchange | | `Functions` |
| `MarketRegistry` | the registry and everyone who writes it | `MarketRegistryProofs` | `MarketRegistry` |
| `MarketDiscovery` | the scan | | `Upkeep` |
| `MarketIngest` | what becomes of one listed market | `UpkeepProofs` | `Functions` |
| `OrderbookStream` | the market channel and the copy of a book | | `Streams` |
| `BookSignals` | what is read out of a book | | `Functions` |
| `LiveSource` | one sport's way from the feed to the record | `LiveSourceProofs` | `LiveSource` |
| `MatchFeeds`, `MarketSides`, `MathProb` | what the feeds say; which game and side; what a score makes certain | | `Functions` |
| `PregameOdds` | incremental odds and the metadata store | `UpkeepProofs` | `Services` |
| `LocalOutbox` | the outbox and the persistence worker | `EventProofs` | `Streams` |
| `AuditTables` | records and rows | `UpkeepProofs` | `Services` |
| `AuditRetention` | the purge | `UpkeepProofs` | `Upkeep` |
| `Settlement` | settlement scan, poll, marks | `UpkeepProofs` | `Upkeep` |
| `Supervision` | scheduler, supervisor, reconcile loop, start and stop | | `Services`, `PauseStopsTrading` |
| `PaperTrading`, `PaperDrill` | the paper exchange; the virtual trade | | `Services`, `Functions` |
| `EventStream` | server-sent streams and web sockets | `EventProofs` | `Functions` |
| `MC...` | the instances TLC checks | | |

The components share no variable in the code but through calls, and each module has the other
side of those calls as actions: the bus mirrors to the outbox (`mirrored`) and the worker
consumes (`TakeTrading`); the gate has order results and registry changes as actions; the
account has its exchange; the decision worker has account, poll, channel and pruning. No two
of them share a step in which both change state that a property of either relates, so a
product of modules would only multiply states. What is composed is what interacts: the
executor with its abstract specification, feed with client, feeder, matching, index and
store (`LiveSource`), outbox with persistence worker, ledger with projection and
synchroniser (`PaperTrading`), scheduler with supervisor and loop (`Supervision`).

**OrderExecutor.** A *call* is a coroutine in submit, cancel or replace; a *task* is the asyncio
task of one execution; *thread*, *effect* and *reply* are its adapter job, what the exchange
did, and what the adapter will report. `Execute` is the critical section of `_execute` (no
await, and a free asyncio.Lock does not yield). `AwaitDone` and `AwaitTimeout` are
`_await_task`; `Signed` to `StoreResult` are `_run_operation` and the done-callback. A job may
start late, land, be refused, answer or never answer, and land after an answer that took a lost
connection for the end (`Lands`). `Uncertain` are the answers that may be wrong: the adapter makes
"rejected" of every exception of the SDK that carries a message. Requests are records whose equality is
that of fingerprints. Left out: metrics, wording, building and signing of payloads.

**EventBus.** `AwaitedPublish` and `Unblock` split `publish` at its await; `NowaitPublish` is
`publish_nowait`; `Flush` moves retained events up. The kinds of events that differ in lane,
merge key or addressee are the model's kinds. The supervisor's decision to pause is free here
(`Supervision` has it). Left out: `next_event` and the persistence lane (no caller).

**EntryGate.** A market is the verdict a reconcile reaches about it. A round advances in the
steps its awaits cut it into: refresh and plan (`MakePlan`), one market at a time
(`ApplyMarket`), mark (`MarkRound`), prune (`PruneMarket`). `older[m]` is a history variable:
the rounds whose plan for `m` was made before its present pause.

**AccountProjection.** `venue` is the exchange, `frames` and `lane` the two queues between user
channel and worker, `store` and `open` the account, `desk` whoever is between two awaits with
the snapshot it took. `Send`, `AnswerBuy`, `AnswerSell`,
`AnswerExit`, `ApplyFlags` are an order of the worker's or the operator's up to the end of its
projection, `SendReplacement` and `AnswerReplacement` a replacement; `TakeEvent` and
`CountEvent` an event of the user channel;
`ProcessFrame`, `Resubscribe`, `StartPoll`, `ApplyPoll(answered)` (each of
the four requests may fail by itself). Orders are of one share at price one.

**OrderAnswers.** `Submit*` and `Delay*` produce the answers the mapper reads; `Taken` is a
trade that meets several makers; `ProcessMessage` and `ApplyListings` are the projector and
the poll. What the exchange writes is the set of fields that are read.

**DecisionWorker.** `TickSkip`, `EndSkip` and `TickEnter` are `process_event` for a book event,
`Answer` the executor's result (`Answers`: rejected also what landed), `HandleResult`, `CancelResting` and `HandleEvent` the result
processor with its follow-up cancel; `Frame`/`LoseFrame`, `StartPoll`/`ApplyPoll`,
`Shut`/`Open`, `Evict`/`Discover` what goes on between its awaits. Every BUY has a stake of
one. `told`, `forgot` and `late` are history variables that only properties read.

**EntrySizing.** `Tick` computes for both outcomes what `quant_decide` and `kelly_plan` do, from
the moneyline or, per outcome, the spread, as fair shares or raw quotes (`SourceOf`,
`GoalserveSays`); `Refused`, `Order`, `Skip` are the risk gates and the FAK. `OrderInDoubt` is a FAK
whose answer does not tell what it filled; the wallet has paid, the account learns it with a poll
(`Learn`), and until then the next tick may buy again. Integers in percents, cents and
hundredths of a share, divisions rounded down as when the order is signed.

**OrderControl.** `ForceExit`, `AskBulkCancel`/`CancelNext`, `ReplaceOrder`,
`PlanCancels`/`CancelPlanned` with their answers; `Take`, `Close`, `Fill` the exchange; `Feedback` brings the
account the whole truth at once (`AccountProjection` has how).

**MarketRegistry.** `Ingest` (discovery), `Message`, `MarketResolved`, `NewMarket` (the stream
worker with its copies), `BeginRound`/`Answer`/`Conclude` (a round that refreshes what the
account is exposed in, counts failures, quarantines, prunes), `PruneStale`. Init is also the
state after a restart.

**MarketDiscovery.** `Tick` is one run of the job: pages within the budget, the event of a live
match, one held market; errors, 422s and back-off are the environment's. **MarketIngest** is
one market's way through parser, workflow policy, registry and audit log, including the
suppression of repeated rejections, beside the writers that tell the log nothing: the reconcile
round and the stream take a copy and write it after their awaits (`TakeUp`, `WriteBack`), and only a
change of fees is told (`FeesChange`). `quiet` remembers whose copy they changed last.

**OrderbookStream.** `Connect`, `Break`, `Resubscribe`, `Change` (the exchange), `Handle` (one
frame: a whole book, a change, a gap), `Fetch` (the snapshot). A level holds the number of the
change that wrote it last. **BookSignals** computes, for each frame, what the derived book,
the delta store and the history buffer compute.

**LiveSource.** `Ask`, `Served`, `FetchFails`, `StoreAnswer`, `BackoffEnds` are a poll task;
`Distribute` the feeder with the match service; `Reconcile`, `MarketAdded`, `MarketPruned`,
`ActivityTurns` the binder and the registry; `FeedMoves` the provider. A snapshot is the time
it was taken and the matches on it.

**MatchFeeds.** A match of one sport is played (`Begin`, `Clock`, `Point`, `PeriodEnds`, ...); at
every point `Poll` reads it through both parsers. It may be halted (`Halt`, `GoOn`), end in a shoot-out or
be decided off the field (`Decide`), told with the texts the documents of the feeds have for it. A
phrase is found as the code finds it, also inside another word (`Stands`). **MarketSides** matches one market against
two games of the same teams at every poll. **MathProb** plays a match of six sports and asks
every lock at any time; a verdict is a class: one, zero, estimate, raises, ... Soccer's second half
may be `late`: from minute 48 on the code sees no time left.

**PregameOdds.** `SyncOnce` is a round of the worker for one sport, `LiveFrame` the live
source's write into the same records, `Evict` their end, `QuoteChanges` the provider.

**LocalOutbox.** The outbox is one record of the five structures of the class; its methods are
functions on it, the actions say when they are called. `put_nowait` comes only where the
worker is suspended. `PollPatience` and `DrainPatience` are the caller's limits in units of
the enqueue timeout (100 and 5 in the code). **AuditTables** starts where the worker takes a
batch: `WriteTogether`, `WriteSingly`, `Finalize`. **AuditRetention**: `Start`,
`Batch(locked)`, `BatchFails`, with `Write` and `DayPasses` in between.

**Settlement.** `ScanStarts`, `SkipPublished`, `NotSettled`, `Looked`, `Settle`, `ScanEnds` are the
steps of `run_once` over the markets a run takes up (`WithinRun`); a market closes before it is
final, and its prices may favour either outcome meanwhile (`VenueMoves`; `shown` is a history of
what they favoured once it was closed); `PollAnswered` and `PollWrites` the account poll; `Restart` forgets what
was published while the log stays.

**Supervision.** `TurnLoop`, `Tick`, `TriggerNow` are a job's loop; `RunRefresh` is the
supervisor's refresh (no await that suspends); `PublishTrigger`, `TakeTrigger`, `EndRound` the
way of a reconcile round; `Bootstrap`, `StartupRound`, `ShutdownScheduler`, `CancelTasks`,
`PauseTrading`, `ResumeTrading` the process and the operator.

**PaperTrading.** `Buy`, `Exit` and `Replace` (the operator's, of a SELL) match against any book and
book the ledger; `Project` and `ApplyFlags` are the worker's projection in its two parts, `Sync` the
synchroniser, `Prune` and `Discover` the registry, whose markets are all it writes.
**PaperDrill**: `Visit`, `AskExchange`, `ExchangeAnswers`, `EndScan`, `Plan`, `Submit`,
`TimesOut`, with `BookMoves` at any time.

**EventStream.** `Broadcast` calls both listeners; `Register`, `Read`, `Unregister` a server-sent
stream; `Drain`, `Send`, `SendFails`, `Subscribe`, `Unsubscribe` the web sockets.

## 3. The runs

| Run | Module, instance | Checks |
|---|---|---|
| `OrderExecutor` | 2 calls, 5 requests over 2 keys and 1 market, cache of 1; 285 thousand states | `IndexTrue`, `AnswerMatchesExchange`, `ImplementsPromise` (refinement of `AtMostOnceExecution`) |
| `AccountProjection` | 1 BUY, 2 SELLs, four agendas, frame queue of 2; 146 thousand | `SettledAgrees`, `ConvergesToExchange` |
| `DecisionWorker` | 1 market, 2 BUYs, 2 events waiting, its gate, a trade that may fail; 9.0 million | `BoughtOnce`, `GateTakesHold`, `NoBuyBesideResting` |
| `MarketRegistry` | a traded market and a sibling named like their event, 2 failures, yield after each; 652 thousand | `ExposedLeavesKnowingly`, `ExposedRecovered` |
| `EntryGate` | 1 market, the loop's and the operator's rounds; 55 thousand; deadlock checked | `OpenGateEarned`, `StickyPauseHolds`, `GateReopens` |
| `LiveSource` | 2 markets, 2 matches, the parser takes 1 unknown match; 261 thousand | `MatchedStaysTracked`, `NothingOfPruned`, `FollowsTheMatch` |
| `Streams` | `EventBus` (4 publishers, 2 tokens, queues of 2 and 1), `LocalOutbox` (4 puts, room for 1), `OrderbookStream` (2 levels, queue of 3, 6 changes, 3 breaks); 1.9 million | `LaneAgrees`, `AwaitedNotLost`, `CriticalKept`, `BookSettles` |
| `Services` | `PaperTrading` (3 trades), `Supervision` (2 slow looks, 1 order), `PregameOdds` (3 markets of 2 matches, 3 versions), `AuditTables` (7 shapes of events, 2 events, 1 retry); 539 thousand | `NoMoneyFromNothing`, `AccountFollows`, `BackpressureLifts`, `LineIsCurrent`, `AckedIsWritten` |
| `Upkeep` | `AuditRetention` (4 tiers, 2 rows, batches of 1), `MarketDiscovery` (3 queries, 2 held markets), `Settlement` (3 markets, runs of 2, 2 moves of Gamma, 1 restart); 352 thousand | `MarksAreTrue`, `EveryPageRead`, `ClosedIsSettled`, `KeptForItsTime` |
| `Functions` | ten modules, see below; 748 thousand | the types of all of them (`TypesHold`) and one property for each |
| `FillsAreOurs` | `OrderAnswers` | finding 1: TLC ends it with a counterexample |
| `PauseStopsTrading` | `Supervision` | finding 2: TLC ends it with a counterexample |

What each property says stands in the comment above it; what each run shows, in
`PROJECT.json`. The properties of `Functions`: `ExitsFit` (OrderControl), `LogFollowsRegistry`
(MarketIngest), `SizedIsAccepted` (EntrySizing), `SaidAsPlayed` (MatchFeeds), `OwnGameMatched`
(MarketSides), `AnswerIsTrue` (OrderAnswers), `MadeIsFinal` (MathProb), `ReadingsAgree` (BookSignals), `FunnelAddsUp`
(PaperDrill), `PushedInOrder` (EventStream).

**Several modules in one run.** `Streams`, `Services`, `Upkeep` and `Functions` check modules that
share nothing. The first state chooses the part that moves; the variables of the others stay
as they are, so the state space is the sum, not the product, of theirs, and a run's property
`part = p => P!Inv` is the module's own invariant. Where a module has several invariants the
run checks their conjunction; the conjuncts have names of their own in the module. A module
with theorems is extended by such a run, not instantiated, so that TLC evaluates the
assumptions the theorems rest on. Where several such modules meet in one run or one proof
module, their specifications have names of their own: `PushSpec` of `EventStream`, `SettleSpec`
of `Settlement`, `IngestSpec` of `MarketIngest`, `SizingSpec` of `EntrySizing`, `OddsSpec` of
`PregameOdds`, `TablesSpec` of `AuditTables`. In `Functions` the
sockets and the orders still to be made are interchangeable, and TLC is told so: no module
names one of them, orders them or chooses among them, and the run's one temporal property is
about single steps.

**Bounds.** The bounds are the smallest at which each interesting case occurs; the mutants show
it, since each needs its case. Executor: two calls suffice for sharing an execution, for a
stored result met by an equal and by a different request, for the retry of a replace and for
eviction. Account: one BUY or exit beside a forced one, two exits of which one replaces the
other. Worker: a second BUY is the first that can be wrong; one event of a failed trade and one
behind it. Gate: a stale plan needs two rounds and one market. Registry: a market and a sibling
the lookup may confuse with it. Bus: one more event than a lane has slots, two publishers of
one key. Outbox: an event evicted in the worker's hands needs a snapshot in hand, a critical
event queued, a merge and one more critical event. Book: two levels, so that no later change
makes up for a lost one. Feeds: a match behind another one that nobody trades. Settlement: one held market more than a
run takes up. Ingest: one market, since no action reads another one's state. For the
modules with theorems the instance only has to be large enough to refute; the theorems cover
the rest (`DecisionWorker` has one market because two exceed what TLC does in minutes).
`MaxSent`, `MaxPuts`, `MaxTrades`, `MaxClock`, `MaxMoves`, `MaxRestarts`, `Changes`, `Breaks` and their like
bound what the environment does, never what the code does.

**Deadlock.** `CHECK_DEADLOCK FALSE` stands where calls, events, orders, trades or days are finite:
when all are used up and settled the model stops, as a program does that is given no more
work. `EntryGate`, `AccountProjection` and `LiveSource` have no such end and are checked.

**Fairness** is only on what the event loop or a timer of the code runs, never on the
exchange, the operator or the feeds' content:

* `AccountProjection`: weak for desk work, frames and the start of polls; strong for each of a
  poll's four requests (each succeeds again and again, `asyncio.gather` per request).
* `MarketRegistry`: weak for a round's answers and end, strong for the start of rounds over all
  that is exposed and for Gamma's answer about a live traded market.
* `EntryGate`: the loop is triggered each interval and its steps end, as HTTP requests carry
  timeouts; that the loop lives and the connection stays up are hypotheses of `GateReopens`.
* `LiveSource`: weak for reconcile, feeder, polls and the end of a back-off; strong for an
  answered request and for a distribution that finds a fresh snapshot (the feeder runs each
  second, the polls every five).
* `OrderbookStream`: weak for connecting, handling, fetching and, when the socket is closed,
  resubscribing (`ws_client` reconnects for ever).
* `Supervision`: weak for each job's loop, the reconcile loop and the ageing of the gauge.
  `Settlement`: weak for the scan, strong for an answered lookup of each market; that a market is
  among those a run takes up is a hypothesis of `ClosedIsSettled`.
  `PaperTrading`: weak for projection and synchroniser. `MarketDiscovery`: weak for the tick.

`OrderExecutor`, `DecisionWorker`, `EventBus`, `LocalOutbox`, `PregameOdds`, `AuditTables` and the parts of `Functions` are
checked for safety only.

**Types.** Every module states its types (`TypeOK`; with a prefix where the specification has one).
They are proved for `OrderExecutor`, `EntryGate`, `AccountProjection`, `LiveSource`, `EventBus`,
`EventStream`, `AuditRetention`, `MarketRegistry`, `DecisionWorker`, `MarketIngest`, `EntrySizing`,
`PregameOdds`, `AuditTables` and `LocalOutbox`, checked by TLC for the modules of `Functions` and
`Services`, for `MarketDiscovery` and `Settlement` (with `EveryPageRead`), and stated as
documentation in `OrderbookStream`.

## 4. What is proved

TLAPS proves the following for every value of the constants, from the assumptions named in the
modules (`ASSUME ...Assumption`), which TLC evaluates in the run of the module.

| Module | Theorems | States the run's property |
|---|---|---|
| `OrderExecutorProofs` | `Invariance`, `TypeCorrect`, `ExecutionIsSingle`, `CacheAndIndexAgree`, `IndexIsTrue`, `AnswersAreTrue`, `Refinement` | `IndexTrue`, `AnswerMatchesExchange`, `ImplementsPromise` |
| `DecisionWorkerProofs` | `Invariance`, `TypeCorrect`, `NeverBoughtTwice`, `ShutGatesHold`, `NothingBesideResting` | `BoughtOnce`, `GateTakesHold`, `NoBuyBesideResting` |
| `AccountProjectionProofs` | `TypeCorrect`, `PollSettles` | `SettledAgrees` |
| `EntryProofs` | of the gate: `Invariance`, `TypeCorrect`, `GateIsEarned`, `StickyPausesHold`; of the sizing: `SizingInvariance`, `SizingTypeCorrect`, `SizingIsSound` | `OpenGateEarned`, `StickyPauseHolds`, `SizedIsAccepted` |
| `EventProofs` | of the bus: `Invariance`, `TypeCorrect`, `LanesAgree`, `AwaitedIsNotLost`; of the streams: `PushInvariance`, `PushTypeCorrect`, `LossesAreCounted`, `SentInOrder`; of the outbox: `OutboxInvariance`, `OutboxTypeCorrect`, `CriticalIsKept` | `LaneAgrees`, `AwaitedNotLost`, `PushedInOrder`, `CriticalKept` |
| `MarketRegistryProofs` | `Invariance`, `TypeCorrect`, `IndexIsTrue`, `KnowinglyLeft` | `ExposedLeavesKnowingly` |
| `LiveSourceProofs` | `TypeCorrect`, `MatchesStayTracked`, `PrunedIsForgotten` | `MatchedStaysTracked`, `NothingOfPruned` |
| `UpkeepProofs` | of the purge: `Invariance`, `TypeCorrect`, `NothingPurgedEarly`; of settlement: `SettleInvariance`, `MarksFollowTheVenue`; of ingest: `IngestInvariance`, `IngestTypeCorrect`, `LogIsTold`; of the odds: `OddsInvariance`, `OddsTypeCorrect`, `LineStaysCurrent`; of the tables: `TablesInvariance`, `TablesTypeCorrect`, `AckedStaysWritten` | `KeptForItsTime`, `MarksAreTrue`, `LogFollowsRegistry`, `LineIsCurrent`, `AckedIsWritten` |

Each proof has one lemma per action (or group of actions that disturb the same conjuncts), and
the last step combines them by temporal logic. TLC checked each inductive invariant on the
run's instance before it was proved. Why the properties are not inductive as they stand:

*Executor.* That a fresh execution does not collide needs that the index points at every
unsettled task (`IndexInv`) and that the tasks a call may still create are unused (`FreshInv`);
that an answer is the one the exchange gave to the caller's own request needs what a reply says of
the exchange, `Uncertain` ones nothing, and a result of the reply (`AdapterInv`, `TaskInv`), and that
a call awaits a task of its own request (`CallInv`). `AnswerMatchesExchange` takes an acceptance of an
order for its landing, a missing balance and a refused cancel for the contrary, and a rejection of an
order, or a cancellation, for neither: the adapter says them of lost responses and refusals too;
eviction needs `CacheIndexAgree`. The refinement goes action by action: starting is `Begin`, the
result is `Settle`, eviction is `Forget`, the rest stutters.

*Decision worker.* `BoughtOnce` speaks of executed orders, but what prevents the second BUY is
the lifecycle, so the invariant relates the two: of a market without doubts at most one order
is *live* (with the executor, at the exchange, resting or matched), and if there is one the
market is paused or holds a position, or the worker has that order at hand and is about to
make it so (`OneLive`, `LiveIsKnown`, `NothingElse`). It needs that an order still with the
executor is the one at hand or was given up in doubt (`Told`), that the worker hears of a failed
trade only after it failed (`LaneTrue`), and that doubts are never taken back (`Grows`). A market
is *in doubt* when an answer was "unknown" or "failed", or "rejected" of an order that had landed
(`LeavesDoubt`), a trade failed at settlement, or the market was pruned: there the code may buy
again, and the property says so. `GateTakesHold`
needs `LateKnown`: the first order that leaves behind a shut gate was at hand or in doubt, and
from the second on one is in doubt.

*Registry.* `ExposedLeavesKnowingly` is an action property: a market with exposure leaves the
registry only by the prune of a round that began before the exposure, or by the discovery of a
sibling that is named like their event. It rests on a fact about the state before the step:
the index of events is true (`OwnersAreListed`: whom it names is listed, is of that event and
says so), however registrations, updates and removals of the four writers interleave.
Without it the lookup by slug, from which discovery decides what a new listing replaces, could
hand a market of another event to the removal. Each action then lets nobody go who is exposed
(`NoneLetGo`), or is one of the two that do (`LetGo`). `WaitingIsAskable` (whom a round waits for
is below the threshold) keeps the counts of failures in their type.

*Account.* `CalmInv`: while a poll that began in a quiet moment runs and nothing moved, what it
gathers is one state of the exchange; after it, projection and book are that state and what a
running poll has seen is too. *Gate.* `GateInv` adds the channel's state to `OpenGateEarned`,
because `connected` may hold only with a stream; `PlanInv` says that a round not in `older[m]`
has no plan left for `m` that would undo its pause, with `PauseInv` for what kinds of pauses
exist. *Bus.* That a waiting publish may store its event blindly needs that keys belong to one
publisher, so nobody has stored one of its key meanwhile (`WaitersKnown`), and that every event
was numbered by its publisher (`EventsIssued`); the theorems cover any number of publishers and
any capacities. *Live scores.* Only listed markets subscribe; then the index and the
metadata follow the registry through rematches. *Event stream.* `Ascending`: from what the
sockets were sent over what is being sent and what is queued to what was published, numbers
go up; `Sound`: a stream's counts add up in every state of its queue. *Retention.* The buckets a
purge still has to take are the policy's; `BucketHasItsDays` is where the policy must be
consistent.

*Sizing.* `SizedIsAccepted` promises three things of the sizing, and each rests on another fact.
That what was sized is not refused for money and buys the market's minimum is a fact about one
computation: whatever money is left after the exposures and after the outcome served before
(`PlanIsGood`), a Kelly stake is positive only within the cap, the depth and the minimum
(`KellyIsGood`, with what its roundings do), and the fee on at most a tenth of the account never
reaches the rest of it (`FeeBelow`). What is at stake on an outcome needs more than one tick, since
the account may not know of what an order in doubt has bought and the next tick buys again. The
bound is a tenth of the budget for every such answer since the outcome was last left, and one more
for what the account knows (`StakesKept`, by `Spent` and `Within`); a decision that passed was made of
an outcome not known to be held, so that all that is at stake on it is in doubt (`PassedIsSound`),
and that stays so until its order is sent, through polls and exits (`StillPassed`). That both outcomes
are never bought at a sure loss is arithmetic over the two at once, and holds where one source
judges them (`OneSource`: formulas alone, or the fair shares of one line): what it says of them adds
up to 100 at most (`FairAddsUp` for the line without its margin, the assumption on forecasts for the
formulas, `BelievedIs` for the clamp), and each must exceed its price by the least edge. With the
moneyline for one outcome and the spread for the other, or with raw quotes, the code does buy both
(section 5), and the property does not claim otherwise.

*Settlement.* A mark is written long after its lookup: the scan awaits the publication, and
polls, prices and restarts come between. `SettleInv` therefore speaks of every place where what was
looked up waits: the account, a poll whose answer is not yet written (`PollIsTrue`), the log
(`LogIsTrue`) and the winner a scan looked up and has not published (`ScanIsTrue`). Each is something
Gamma favoured while the market was closed, because an open market resolves nothing and what was
favoured is remembered (`ShownIsTrue`, `ShownGrows`). The code asks for no more than closed and a price
of ninety cents, so a mark is the decision only where the closed market never favoured another
outcome; `MarksAreTrue` says exactly this.

*Ingest.* That nothing is discovered twice needs that a market no listing showed was never told as
discovered (`UnseenIsUntold`). That what a listing made active was told follows from what each of the
code's branches leaves (`CopyIs`): it either says so or finds the copy active and unchanged
(`ActiveIsTold`). Four other writers of the registry say nothing. A copy they made active is `quiet`
until a listing is published or changes it, and of those nothing is claimed; one they wrote
without changing it stays told.

*Pregame odds.* The provider answers only what changed since the worker's timestamp, so a
round leaves most records alone. That they are current all the same needs that the timestamp
never runs ahead of the provider and moves on only with an answer (`ChangesAreKnown`): what the
answer lacks was current before. A record found by its event is a sibling's, of the same
match, so copying it copies the right line; a live frame puts one without a line in its place.

*Tables.* An event is acknowledged long after its records were written, and meanwhile other
events write the same rows. `TablesInv` says of every record that counts as written that its
table has a row for it (`WrittenHasRow`), of every row that it is under the key of the event it
came from (`GoodRows`), and of what is acknowledged the first of the two (`AckedHasRow`): an
upsert never removes a row, and writing one again after an error of a commit that did happen
changes nothing of that. An event whose kind is not routed is never counted as written.

*Outbox.* That an open critical event is stored and on its way says nothing of where else its id
is, and that decides what the next step does to it. `OutboxInv` follows each critical event: it
is in one place only (`LanesTold`, `OnePlace`, `HandOnce`), so that acknowledging it leaves no second
copy to be read; an id known as queued has no retained copy (`QueuedTold`), or a promotion would
pass over it for ever; whatever merges do to it, it stays critical or not (`KindsTold`,
`IndexTold`), so that eviction, which goes only by the retained version, spares it; and a version
in hand has the tries of the stored one (`HandTold`), so that a retry ends in the dead letters.
The hard case is the error of a vanished event, after which the worker drops what is left of the
batch: nothing critical is lost, because only an event that is not critical can have vanished and
a batch is settled with the critical ones first (`CriticalFirst`). Between `retry` storing an
event and queueing it the worker is suspended, and that event alone may be both in hand and
retained (`RetainedTold`). That retention is over its size with critical events only (`Fits`) is
an argument on cardinalities: eviction takes the newest ids until the rest fits.

*What is computed one step after the other.* The odds and the tables go through a list: the markets of a
sport, the records of a batch. Their functions are recursive, from the first element to the
last. That such a function exists (`StepsDefine`) and that what its first value satisfies and
each step keeps holds of its last (`Climbs`) are proved once, from the least element of a set of
naturals, and then cited with the set of indices up to which the claim holds.

**Assumptions worth knowing.** `NamesAssumption` of `EventBus`: ids do not collide with merge keys
(the code draws ids at random). `PolicyAssumption` of `AuditRetention`: tiers that share a title
agree on its days, as the declared tiers do; the code would break the property for a policy
where they disagree. `SizingAssumption` of `EntrySizing`: a fee is at most the whole price, a line
implies at least one outcome, and the formulas' answers for the two sides add up to at most one (they
answer only for the side that leads, or one is the complement of the other). `NoneAssumption`,
`ContentsAssumption`, `NoReasonAssumption`, `OddsAssumption`, `ShapesAssumption`: the value for "nothing" is not among the values proper. `OrdersAssumption` and `IsFiniteSet` of markets and streams: there are
finitely many. The remaining ones say that limits and amounts are natural numbers and
capacities positive.

**Only model-checked.** Liveness under fairness (`ConvergesToExchange`, `GateReopens`,
`ExposedRecovered`, `FollowsTheMatch`, `BookSettles`, `AccountFollows`, `BackpressureLifts`,
`EveryPageRead`, `ClosedIsSettled`) and whatever needs ENABLED are out of the prover's reach, and
the library's induction theorems are: they take an operator as a parameter. Functions that go
through a list step by step are reasoned about with the two lemmas above, which serves where a
step is simple and the claim is about the rows it touches. It was not carried further: what the
computations of `BookSignals`, `MathProb`, `MatchFeeds` and `MarketSides` return is checked over
bounded inputs; `OrderControl` (`ExitsFit`) and `PaperTrading` (`NoMoneyFromNothing`) sum over sets
and levels, `OrderAnswers` and `PaperDrill` fold over listings and flatten the registry, and stay with TLC.
Of `Settlement`'s types, that the scan's list keeps to the markets held is model-checked: the
list is made by `SelectSeq`, of which the provers know nothing; no proof needs it.

## 5. Findings

With a run that TLC ends with a counterexample (`PROJECT.json` quotes the claims):

1. `FillsAreOurs` (`infra/polymarket/user_ws_adapter.py:391`): a trade's message lists every maker
   it met, and the handler takes all of them for ours, though its docstring (:384) promises
   "从 maker_orders 中抽取用户自己的成交腿" and the REST reading of the same message picks the leg by
   address (`schemas/clob.py:487`).
2. `PauseStopsTrading` (`app/operator_service.py:697`): the operator's pause moves the supervisor's
   phase and flag, but nothing between the bus and the exchange reads the supervisor; the worker
   goes on submitting.

Met while modelling; the models have the behaviour, no run is about it:

*Orders and decisions*
* `auth.py:217-225, 273-293`: an exception of the SDK that carries a message becomes REJECTED, whether
  or not the order landed (the docstring speaks of HTTP 400 alone). The worker changes nothing upon
  REJECTED or UNKNOWN (`worker.py:1232`) and `risk.py` sees an account that has not learned of the
  fill, so the next tick may buy the same outcome again before a poll.
* `quant_signal.py:178-182`: with one side of the moneyline missing or suspended the spread's
  probability stands in for that side alone, and :204-206 takes a raw quote with the bookmaker's
  margin; the two sides may then add up to more than one and both be bought at a sure loss.
* `order_executor.py:312`: the retry of `replace` reuses the idempotency key and gets the stored
  rejection back. :518: a caller returns by `wait_for` alone. :247 relies on a risk gate against a second open
  BUY that `domain/risk.py:78` does not have. :291 tests the confirmation window on entry only.
* `runtime/event_bus.py:205`: with the queue full of other keys the decision worker waits for a
  slot only it frees. :160: a refused `publish_nowait` loses the event although :139 says otherwise.
* `order_gateway.py:97`: `review_intent` has no `**kwargs`; `confirm_candidate`
  (`operator_service.py:605`) and the reconcile's submission (`action_applier.py:114`) pass arguments it does
  not know: TypeError each time. Nothing plans SELL or REPLACE (`recovery.py:95`).
* Operator replace and cancel pass the gateway without the risk manager (`order_gateway.py:170`,
  against `operator_service.py:73` and `risk.py:53`). `force_exit` projects nothing, so a second
  one before feedback asks for the same shares (against `operator_service.py:1036`). A replacement is
  always signed as SELL (`auth.py`, against `operator_order_control.py:129`) and posted
  whatever the cancel answered (`auth.py:412`). A refused cancel without reason is reported cancelled
  (`auth.py:233`); the operator's page announces ORDER_CANCELLED even when refused.
* The lifecycle PAUSED of the worker is left by neither reconcile nor resume; a failed
  trade leaves POSITION_OPEN, so that market is never entered again.
* `order_projection.py:268` writes the balances of before an order's handling back over a poll's; a reconcile
  cancel writes back the position of the plan (`action_applier.py:88`); a poll gathered before a fill
  overwrites it. All end at the next undisturbed poll, which is what `SettledAgrees` proves.
* Reading of answers: "delayed" and "unmatched" mean CREATED on the channel and submitted or
  no fill over REST; a missing amount on "matched" counts as full; the REST reading takes only
  the first leg of ours; each of matched, mined and confirmed applies the fill again until a poll.
* Sizing: the larger of two sources may make both probabilities sum above one; segment markets
  are not excluded from whole-match formulas; a draw implied as 0 makes a three-way line
  two-way; the bankroll subtracts an exposure the available money already lacks.

*Markets, books, scores*
* `ingest_service.py:134`: discovery judges the exposure of the listed market and may remove the
  sibling its lookup found. A resolved status is overwritten by a late listing; a copy of the
  stream brings a pruned market back; a market put aside while neither held nor listed is not
  refreshed again (`authority_refresher.py:471`).
* `discovery_runner.py:402` claims one extra request per tick at most, which expansion plus refresh
  exceed; a failing event expansion blocks the later ones; more than about eight held markets
  starve.
* `main.py:1240`: a REST snapshot failing at a sequence gap ends the market channel for good.
  Removed levels stay with size 0 (`book_projector.py:207`), so the best price may be one
  nobody offers; a new subscription cancels the stream without its hooks.
* Writers that tell the audit log nothing make a market active: the refresh and the exposure targets
  of a round (`authority_refresher.py:462-496, 687-692`), `track_market` and an unchanged new_market of
  the stream (`orderbook_ws/worker.py:151, 644`). Later listings that change nothing stay silent too, so
  the log may end with "filtered" for a market that is traded.
* A quiet book that then jumps gives one sample and no direction; nothing consumes the labels.
* `goalserve_inplay_parsers.py:1117`: the cap takes the same first unknown matches on each fetch,
  so a match behind them is never parsed unless it is tracked, against the comment above it.
  `_sports_to_fetch` never asks for golf, horse racing and formula 1. `id(events)` as a cache key
  may name another tuple. Stale cached events are issued anew each second.
* `math_prob.py:290`: a half-time market is judged by the present score when the half-time score was
  not told, against the comment at :284. A missing remaining time counts as the end; "half_time"
  and "halftime" differ; the bottom of the ninth counts as over; a set winner is read off the
  current set. Sports whose codes differ ("ice-hockey", "american-football") have no lock.
  `MadeIsFinal` states what remains true, and under which exemptions.
* `math_prob.py:383-384`: soccer's second half has no time left from minute 48 on, since the clock
  told is the minute of the match (`goalserve_inplay_parsers.py:581-591`): the locks settle by the
  present score with up to 42 minutes to play, and a side "certain" by it can lose.
* `math_prob.py:99-106, 152-158`: a lost total is answered with probability 1 and "lose" in its
  details, against :506, which answers 0; only `quant_signal.py:141-145` drops it.
* Endings the documents of the feeds have and no parser knows are UNKNOWN (not ENDED): soccer's "Pen."
  (`src/goalserve/soccer-data-feed.md:278`; `goalserve_livescore_parsers.py:981-983` knows "pen" and
  "after pen."), hockey's "After Penalties" (`hockey-data-feed.md:59`), "Retired", "Awarded", "Walk over"
  (`tennis-data-feed.md:66, 140`, and basketball's and baseball's); also soccer's "P" while a shoot-out
  is played. "ended" stands in "suspended" (`goalserve_inplay_parsers.py:186-224`): a suspended match
  whose period text says so is ENDED. `SaidAsPlayed` exempts exactly these (`Untold`, `Misread`).
* Feeds: overtime of handball, rugby and American football is UNKNOWN; baseball's tenth inning and
  later read as the first digits; a missing timer is a full period.
* Sides: the side of a "will the away team win" market stays the placeholder HOME; nothing consumes
  `invert_side`. `live_state.py:941` says the exact start keeps two games of one pairing apart;
  tolerances do not always. League yes/no markets of soccer become outrights.
* Pregame odds: a failed round replaces a sport's snapshot by an empty one; a live frame replaces
  the metadata and wipes the moneyline (`match_service.py:116`); finding by event alias returns a
  sibling's record and copies it, against "只更新已有记录…不创建新记录".

*Records, services, onlookers*
* `infra/outbox/local_queue.py:281`: with some hundred events retained `get` spends its caller's
  timeout on waiting for room nobody can make, and nothing is consumed until a restart.
* `app/audit/worker.py:241`: an event whose write failed is counted as a duplicate of itself when it
  comes back. Filtered, counted and merged events are never acknowledged (:238 against
  `infra/outbox/README.md:26`). A snapshot merged into an event being written goes with its ack.
* `app/audit/worker.py:401`: the order of kinds lacks `account`, so each BALANCE_UPDATED is retried and
  dead-lettered though `event_sink.py` must keep it. No payload carries `filled_shares`; fills are keyed by
  trade, so two legs share a row; a retried older event overwrites a newer row; incomplete
  records are skipped yet acknowledged.
* Retention: `_` in a prefix is a wildcard of LIKE; the table of the docs and the tiers differ on
  `allocation_decision_recorded` (7 and 30 days).
* Settlement: the docstring (:15) promises that a failure is retried; the publisher swallows it and the
  market counts as published. Closed and a price of 0.9 count as decided (:235-246, 278-284), so a
  mark may precede the decision, and contradict it for good: the market is published once and a
  blank one stays blank. A run is cut to the first 50 held markets before the published ones are
  skipped (:103): with more positions that are not redeemed the later ones are never scanned. Where the
  data API leaves `redeemable` empty a poll erases the mark for good.
* Supervision: the lambda of `sync_runtime_metrics` returns None and is awaited: TypeError at each run;
  a trigger during a run is lost; an exception in a round ends the maintenance loop (`main.py:1454`);
  startup reasons are never cleared; the reconcile trigger is P2 and held back (`main.py:1333`, against :1090);
  a manual pause of a market is recoverable and lifted by the next reconcile
  (`operator_service.py:1113`); pauses of pruned markets remain (`main.py:1287`); the first round may open
  the gate before account data were read (`main.py:601`).
* Paper: the synchroniser skips positions whose market the registry lacks (`paper_balance_syncer.py:57-59`)
  and replaces all others, so a pruned market's shares vanish from the account; a replacement of a SELL
  trades whatever became of the order it replaces. A SELL without shares answers FULL_FILL; cash may go below zero; cancel always answers
  CANCELLED. Drill: an unknown condition with a known token runs another market, against its
  docstring (:71); plans of the drill enter the live decision recorder.
* Event streams (`api/routes/stream.py:188`): the marker takes the slot freed for the newest event, which is
  lost too, and later overflows drop the marker while it counts as pending: the client is not told of
  the gap, against the docstring. A socket whose send hangs holds up all sockets.

## 6. What is not modelled, and why

`PROJECT.json` says it part by part. Whole components left out: the HTTP pages and their
aggregators, the repositories' queries and gauges (they read), the front end and the two proofs
of concept in other languages (`src/frontend`, `src/cpp_poc`, `src/rust_poc`: other programs). Within modelled
components: partial fills (orders are filled whole), decimals (integers in small units), names and
dates (tables), the wording of messages, sports without a lock, priorities within a class of
events, statistics. The outbox lives in memory: a crash loses what it holds, and no model
claims otherwise; restarts are modelled where something outlives them (`Settlement`) or where
the start differs from Init of the rest (`MarketRegistry`, `Supervision`).

## 7. What the plan has left

1. **Proofs** about `OrderAnswers` and `PaperDrill`, with their folds written as functions of which the
   needed facts can be stated one step at a time.
2. **Partial fills** in `AccountProjection` and `DecisionWorker`; today an order is one unit.
3. **The planner's own actions** (`apply_submitted_intent`) once the code can reach them.
