# A verification of AI_System_Trading

TLA+ models of the parts of `src/app` where several processes meet or where the
arithmetic is hard to get right: the durable market-data worker, the live candle
streams, the life and trading of paper bots with the risk gate and the backtest
that shares it, halts and reconciliation, connections, the histories people
read, and the notification outbox. TLC checks them on small instances; TLAPS
proves the central safety properties for every value of the constants. This file
is for a reader who has the repository.

Contents: 1 the system, 2 the modules and the code, 3 runs and bounds,
4 fairness, 5 what is proved, 6 where code and documents disagree, 7 what is
left out, 8 the plan.

## 1 The system

AI_System_Trading collects candles from Binance and OANDA, lets bots trade them
on paper (no real order is ever sent) and tells people what went wrong. Four
kinds of process share one PostgreSQL database: the API (FastAPI), the
market-data worker, the trading worker and the notification worker. They talk
to each other through rows only. Isolation is READ COMMITTED and a session does
not flush by itself (`SessionLocal(autoflush=False, expire_on_commit=False)`),
so what a transaction decided may rest on rows that have changed since. Row
locks are taken in three places only (leases, delivery, access), advisory locks
in three more, and nowhere in the trading code.

| component | state | operations | hard behaviour | correct when |
|---|---|---|---|---|
| market-data worker (`market_data/infrastructure/leases.py`, `pages.py`, `candidates.py`, `application/execute_page.py`, `worker/`) | lease rows, checkpoints of jobs and subscriptions, candles | discover, claim, heartbeat, prepare, fetch, save, complete, fail, release, recover | a fetch of unbounded length outside any transaction, expiry and takeover, crashes, page boundaries, starvation | only the owner writes; the cursor covers what was asked for; every job ends; polling is served; a stop is announced |
| market-data requests (`use_cases.py`, `backfill_locks.py`, `gap_reports.py`) | the same rows | enqueue, enable, disable, repair gaps | two requests at once, a request during a page | no overlapping jobs; what the user turned off stays off |
| candles and bars (`candle_store.py`, `domain/`, `indicators.py`, `bar_aggregation.py`) | candle rows, gap rows | upsert, coverage, report and settle gaps, aggregation | overlapping checks, unflushed changes, boundaries | no bar invented, none lost; a hole is counted once |
| live streams (`candle_stream.py`, `stream_session.py`, `stream_protocol.py`, the exchange streams, `useMarketStream.ts`) | feeds in memory, ring buffers, subscriber queues, a browser's cursor | subscribe, publish, fan out, overflow, resume, tear down, reconnect | callbacks and tasks, a slow subscriber, the grace period, late events of an old feed, a restart of the API | a subscriber misses nothing in silence; nobody's feed lives on |
| bot lifecycle (`bot_lifecycle.py`) | `trading_bot`, `bot_run` | start, pause, resume, stop, fail | commands that race each other and the worker | an active bot has a run; a halt keeps it stopped |
| evaluation (`bot_execution_loop.py`, `bot_evaluation.py`) | signals, decisions, the failure count in memory | one pass over the bots per poll | two workers, restarts, a bot that raises every time, an outage | a run acts on a bar once; a bar is handled or the bot failed |
| order flow (`order_flow.py`) | orders, fills, positions, cash | place, fill, close, reduce, flip | positions read without a lock | the books add up; halts stop entries |
| risk gate and locks (`risk_gate.py`, `risk_locks.py`, `paper_ledger.py`) | snapshots, streaks, peaks | size, measure, deny, lock | costs that the size must allow for, a lock nothing clears | a stop costs what it was sized for; a lock can be seen |
| halts (`trading_halt.py`) | `trading_halt` | activate, escalate, step down, release | read, then written by id | one row per cause; down in two steps; in the end what the cause says |
| emergency stop (`emergency_stop.py`) | halts, bots, positions | halt, stop all, close all | a double click, a partial failure | bots stopped, positions only closed |
| ledger check (`ledger_check.py`, `ledger_reconciliation.py`) | reads all account rows | reconcile, halt | six reads that are not one snapshot | a loss is found, and nothing else |
| provisioning (`paper_provisioning.py`, `backtest_batch.py`) | versions, profiles, accounts, bots, runs, snapshots | ensure, create, store a run, batches | two tasks that create one name; an item that fails in a batch | one row of each key, whole, with the content asked for |
| histories (`trade_history.py`, `decision_history.py`) | none | pages by a cursor, totals | rows stamped before they are committed | nothing missed, nothing twice, outcomes as they were |
| notifications (`notifications/`) | `outbox_event`, `notification` | publish, claim, send, retry, give up, acknowledge | several workers, sends before the commit, failures of some recipients | everyone owed is told, nobody told again of what is recorded, giving up is announced |
| watchdogs (`worker_watchdog.py`, twice) and status page (`system_status.py`) | the last alert | find the stalled, alert once | telling outages apart | each outage alerted once, and each is |
| backtests (`backtest_*.py`) | a replay in memory, results | replay, fill, measure, walk forward | look-ahead, window edges, the same policy written twice | the same books as live; no bar of the future is used |
| strategies (`*_signal.py`, `live_strategies.py`) | none | a signal from a series | short series, indicators that are carried on | equal to the definition; one signal per event |
| connections (`routes/connections.py`, `verify_connection.py`, `stream_tickets.py`) | connection, secret files, account, used tickets | create, verify, change, disable, delete, issue, consume | file and row changed one after the other, a verification that waits for the exchange | the row's secret is there; disabled means closed; a ticket works once |
| sessions and roles (`security/`, `auth.py`) | cookies, nonces, memberships | log in, log out, authorise | a third party's protocol | |
| monitoring, CRUD routes, launcher, frontend | | queries and forms | | |

Interactions: requests and the market-data worker meet in `market_data_lease`,
`backfill_job` and `market_data_subscription`; candles it stores are the bars
the trading worker evaluates; requests, the trading worker, the emergency stop
and the ledger check meet in `trading_bot`, `bot_run`, `trading_halt` and
`trading_position`; halts, failed bots, stopped collection and stalled workers
publish a `system_event` and an `outbox_event` in the transaction that causes
them, and the notification worker delivers those.

## 2 The modules and the code

`PROJECT.json` maps each definition to its lines; here is how to read them.
Common conventions: one action is one transaction, or one part of it between
two points where another process can come in; "Faulty form" definitions are
plausible bugs and no specification uses them; variables marked "history" record
what happened for a property and no guard reads them; time is kept as what
remains (of a lease, of a delay) wherever possible, so no clock grows.

### Market data

**FencedFeed** is what a lease promises seen from outside: a feed has at most
one holder, a client knows it by a token, only the holder moves the progress of
its target forward and gives the feed back in the same step, and a client whose
token was taken over can only give up.

**MarketDataLease** models the market-data worker on one feed. `lease` is the
row of `market_data_lease`; `target` holds the checkpoint of each
`backfill_job` and `market_data_subscription`; `worker[w]` is what one process
remembers between transactions (`pc` names the next one). A transaction that
holds the row lock (`guarded_write`) is open from `BeginWrite` to its commit
and time may pass meanwhile; `txn` is its worker. Each action is one method:
`RecoverExpired`, `Discover`, `Claim`, `ClaimRefused`, `Heartbeat`, `Prepare`,
`FetchReturns`, `FetchFails`, `CancelFetch`, `Save`, `Complete`, `Fail`,
`Release`. Faults are `Crash`, `DatabaseError`, `CancelFetch` and
`KeepaliveDies`. The requests are `EnqueueBackfill`, `EnableSubscription`,
`DisableSubscription` and `ChangeAccess`. Candles are numbered bars.
`Feed!FeedSpec` is the abstract specification under the mapping at the end of
the module.

**CandleGaps** has the rows that report the holes of a series: a check computes
coverage, settles the rows it overlaps and inserts what is missing
(`Settled`, `Reported`), a user asks for a gap under the advisory lock of
`backfill_locks`, a job saves candles and settles its gap when it ends, and for
public research data the import, the refresh and the validation do the same in
sessions that do not flush between two questions.

**CandleFeed** is the hub with one key: `feed` is the current feed with its ring
and subscribers' queues, older workers that have not noticed their end live on
in `oanda`/`binance`, and callbacks on the event loop are single steps.
**MarketStream** adds the sessions and the browser (`client[c]`), which keeps the
greatest sequence it saw, reconnects and resumes. `skipped` and `mixed` are
history: that an event was passed over in silence, and that the cursor came from
another feed.

**TickCandles** makes candles of ticks that come late, twice and at the edges.

### Trading

**BotTrading** models one bot and its account. A transaction that reads and
then writes is two actions (`Read...`/`Evaluate`/`PlaceClose` and
`Commit...`), since nothing it read is locked; what it decided is remembered in
`worker[w].order` or `request[q].order`, as the values the UPDATE will write.
That is why `Rewritten` writes the quantity that was computed, whatever became
of the row. A pass lists the bots, takes the active run, evaluates the latest
bar (`StopOrders` then `SignalOrders`, in one transaction), and counts
failures; `ReadFailed`/`FailBot` end a bot that keeps raising. `late` is a
history variable: entries committed by workers since a halt came up.

**RiskGate** is the arithmetic that the live pipeline and the backtest share:
fills, fees, slippage, the size of an order (`Quantity`, `Stress`), the measures
that bar it (`Barred`) and protective exits. **BacktestReplay** walks a series
with it (`replay`), **PaperDesk** lets a live bot evaluate the same bars beside
it, with late bars, outages, halts that the gate raises and relaxes, risk locks
and an Owner who releases them. `parted` becomes true when one of the two has
refused an entry the other took; from there the books may differ.

**TradingHalt** has the halt rows of one cause: sessions look (`Looks`) and write
by id what they decided from what they saw (`Activates`, `StepsDown`), Owners
release. **LedgerCheck** has the rows that an order writes, the loss of a row,
and a reconciliation that reads six tables one after another.

**Provisioning** has tasks that create bots and store backtests: each asks for
its versions, profile and snapshot by name and inserts what it does not find
(`Finds`, `Inserts`, `Fails` on a unique index that another task holds), and
commits once per item. A row that is written and not committed blocks an equal
key of another task (`Waits`). **Journal** has the two histories: bots evaluate
and fill with times taken before the commit, and a reader turns the pages, each
page being several SELECTs.

**BarAlgorithms** has aggregation, indicators (from the definition and carried
in a table), strategies and filters over a growing series; **WalkForward** folds,
choice of the strategy, joined curves, drawdowns and samples.

### Access, supervision, notification

**ConnectionAccess** has one connection with its secret files, in the order in
which each handler touches file and row, a verification that waits for the
exchange, the selected account, and tickets. `Flushed` is the ORM's UPDATE: only
the attributes that were changed.

**Watchdogs** has both watchdogs, which are one text over different tables, and
the judgement of the status page.

**NotificationOutbox** models the outbox. An event is an original or the notice
of its giving up. `worker[w]` is an open transaction: the batch it has locked,
the events not begun (`left`), the recipients to be tried (`todo`) and the
outcomes written and not committed (`sent`, `unsent`). `Commit` writes the
whole batch; `RollBack` is any exception the loop catches, or the end of the
process. `owed` is a history variable: who has been a recipient all the time
since the event was recorded.

### Composition

`...Proofs` modules hold the theorems. The `MC` modules give the constants their
values. `MCMarketDataLease`, `MCBotTrading`, `MCPaperDesk`, `MCStreams` and
`MCNotificationOutbox` instantiate one specification each. `MCTrading`,
`MCSupervision` and `MCOperations` put components that share no state side by
side: a variable `part`, chosen in the initial state, says whose next-state
relation runs, so that the state space is the sum and not the product.
`PaperDesk` composes the gate, the replay and the live bot, `MarketStream` the
hub, its sessions and the browser; these share state and interleave.

## 3 Runs and bounds

| run | question | instance |
|---|---|---|
| `lease_backfill` | fencing, cursor, access at save, refinement of FencedFeed | 2 workers, 1 job of 3 bars, pages of 2, 3 tokens, lease of 2 ticks, other delays 1, faults that are retried, new credentials |
| `lease_polling` | disabled is left alone, stops are announced | 2 workers, 1 subscription, first of 3 and at most 4 bars, lease of 1 tick, lost access |
| `lease_served` | every job ends, polling is served | 1 worker, a job and a subscription on one feed, 2 bars, fair |
| `bot_serial` | emergency means stopped, late entries, every bar is handled | 1 worker, 1 request at a time, 2 bars, 2 runs, 1 unit, 3 rows, shorts allowed, fair |
| `bot_workers` | a run acts on a bar once; histories are true; provisioning is sound | bots: 2 workers, 1 request, 1 bar, 2 runs, 2 rows; journal: 2 traders, 2 ids, pages of 1; provisioning: 2 tasks, 1 name, 2 series, 2 contents |
| `outbox` | giving up is announced to those it concerns, nobody is told again, every event ends | 2 workers, 2 subjects and their notices, 1 person, both channels, batches of 2, 2 attempts, fair |
| `desk` | live and backtest keep the same books; stops are kept; no lock is silent | 4 bars of 4 shapes (a gap down and a spike among them), 4 setups, at most 1 late bar, loss streaks of 1 and 2, a day of 2 bars, a week of 4 |
| `streams` | nothing is skipped in silence, an unwatched feed ends, a failed one retries | 1 client, 2 subscribers, ring of 2, queue of 1, threshold of 2 attempts, 2 feeds, sequences up to 3 |
| `supervision` | alerts, steps down | 2 items, 2 watchers, 3 minutes; 2 evaluators, 1 Owner, 3 swings, 2 releases |
| `operations` | seven parts, a question or two each | bot: 2 requests, 1 run, 2 units; access: 2 callers, 1 session, 1 ticket, 2 secrets; gaps: 2 askers, 6 candles, 2 jobs; bars: 5 hours of 3 closes; ticks: 4 ticks, 3 prices; walk: 6 points; ledger: 3 orders |
| `bot_fills`, `gaps_ignored` | (violated) see section 6 | 2 requests; 1 asker |

Why the bounds are enough. Interference here is between pairs: owner and
successor, evaluation and stop, two claims, two callers; two actors of a kind
give every pair, and the theorems of section 5 lift the safety properties they
state to any number. Pages of 2 bars over a range of 3 give a first page, one
that overlaps the page before, and a partial last page; two bars per page is the
least the code allows to advance with an overlap of one. Three tokens are one
more than can be held, so a token is used again only when nobody remembers it,
as a uuid never is. A lease of one or two ticks expires before, during and after
a page. Failure limits (3 interruptions, 2 failed passes, 2 attempts, loss
streaks) are reached and exceeded in the runs. A ring of 2 and a queue of 1
overflow with the third event, after which a resume finds its place or has lost
it. `MaxBars`, `MaxRuns`, `MaxUnits`, `MaxWall`, `MaxClock`, `MaxSwings` and the
like stop actions of the environment (bars that close, starts, approved entries,
clock), never a reaction of the program. `MaxRows` is the exception: when it is
reached, the commit that would open a further row waits. In `bot_serial`, the
fair run, three rows are as many as the other bounds let it open: the number of
states is the same for every larger bound.

`CHECK_DEADLOCK FALSE` is set for the bots, `desk`, `supervision`, `operations`,
`bot_workers` and `gaps_ignored`: when the last bar has closed, the clock is at
its bound or everything asked for is done, nothing need happen. The lease runs,
`outbox` and `streams` check deadlock. Symmetry is used in runs without liveness
only, over workers, traders and requests, of which no definition singles one out.

## 4 Fairness

* MarketDataLease: weak fairness of each worker's steps (`runner.run` loops
  until it is told to stop and its waits have a timeout) and of `Tick` (time
  passes). `<>[][Undisturbed]_vars` says that at some point the process is no
  longer killed and the database no longer fails: a page cut off each time never
  ends, and no code can change that. Requests, access changes and closing bars
  are not fair and may happen forever.
* BotTrading: the same for the trading worker's poll loop. Evaluations may
  raise forever: the failure count is the program's own answer to that.
* NotificationOutbox: the same for the notification loop, with `Tick`. Emails
  may fail forever. Rolled back batches stop: a send that raises something that
  is neither `OSError` nor `SMTPException` rolls back its whole batch uncounted,
  and one that does so every time would keep the batch pending forever.
* MarketStream: weak fairness of what the event loop owes: the timer of the
  grace period (`GraceEnds`), an answer to a waiting subscriber (`Join`,
  `Refuse`), a worker that finds its feed gone when it sends or when its interval
  ends (`Notice`), and the exchange task, which always has a next step
  (`BinanceRuns`). Exchanges and browsers owe nothing.
* Watchdogs: each notification worker checks every 30 seconds, and after some
  point no check fails (`<>[][DogUndisturbed]`).
* TradingHalt: a bar that was closed is evaluated and an evaluation that failed is
  tried with the next bar: weak fairness of the judgement, strong fairness of the
  look and of the write that follows it. It must be strong: each failure of a
  session withdraws the step for a moment, and the code's answer is to come again.

## 5 What is proved

TLAPS checks the theorems for all values of the constants that satisfy the
modules' assumptions, which TLC evaluates in every run. They are what the code or
its configuration guarantees: positive lengths, limits of at least one, pages of
at least two bars, finitely many worker processes (`ConstantsAssumption`); natural
times and a natural number of secrets (`AccessAssumption`, `DogAssumption`,
`GapAssumption`); ids that are numbers and pages that hold a row
(`JournalAssumption`: an id is drawn at random and compared as a number, and the
routes demand `limit >= 1`); positive prices with open and close between low and
high, which is what `final_points` lets pass, and probes that cover a bar
(`SeriesAssumption`: pages.py:48-60, and a bar without finer ones is its own
probe, backtest_replay.py:456); limits that deny no later than those that halt
(`RulesAssumption`, of CONSERVATIVE_V1_RULES); a smallest order and an evaluation
that reads a bar (`RiskAssumption`, `WindowAssumption`); prices above zero and
orders that are not empty, which `place_order` demands (`LedgerAssumption`,
order_flow.py:231, 473); a ring and queues that hold
something, which `CandleFeed`'s constructor demands (`SizeAssumption`,
candle_stream.py:237-240); that `None` is no token, failure or client
(`FailureAssumption`, `ClientAssumption`); closing prices above zero, channels of
at least one bar, candles and windows of some length (`BarAssumption`,
`TickAssumption`, `WalkAssumption`); and a stored curve of at least four points
(`WalkAssumption`; the code keeps 400, backtest_metrics.py:156, and with fewer
than four its one bucket may keep a point too many). Each proof has an inductive invariant,
one lemma per action or per action and conjunct, and the three facts
`Init => IInv`, `IInv /\ [Next]_vars => IInv'`, `IInv => property`. The inductive
invariants were first checked by TLC on the instances of section 3.

* `MarketDataLeaseProofs`: `TypeCorrect` and `Fencing` (`OpenWriteIsOwner`).
  `OpenWriteIsOwner` is not inductive alone: it needs that a worker in a write
  transaction remembers the token and the cursor it claimed with (`WriterOK`)
  and that a lease names a worker exactly when it has a token (`LeaseOK`).
  Recovery and claiming skip the locked row, and any other transaction that
  could change its target is excluded by the target's own lock.

  The same module then goes on to what the worker does to its targets. A step of the row of one target is
  classified once (`RowStep`: kept, failed, written, queued) and the properties
  are read off. `DisabledAlone` and `StopsAnnounced` are action properties of
  every row step. `SavedWithItsAccess` needs that the page in hand was fetched
  under the access that is checked again at the save. `CursorIsHandled` needs
  three more facts: a claim in hand names the target it was made for
  (`ClaimsOK`), a page starts at the cursor or one bar before it and ends where
  the fetch ended (`PagesOK`), and while a token is good the worker's cursor is
  the row's (`CursorsOK`). `Refines` shows that MarketDataLease implements
  FencedFeed: `MappedInit`, and `MappedNext` with one case per action.
* `BotTradingProofs`: `TypeCorrect`, `ActsOnce`, `ActiveHasRun`, `StopHolds` and
  `LateBounded`. The third holds because every command writes the bot and a run
  in one transaction, the run it names being one that exists; `StopHolds` is
  about an instance with one request at a time (`\A p, q \in Request : p = q`:
  section 6 shows what two can do), and adds to `IInv` that a worker's stale
  decision can stop a bot and never start one (`Coupled`, `Admitted`).
  `LateBounded` counts: the entries committed under a halt and the workers that
  still hold a decision to enter are together no more than the workers
  (`LateOK`), because nothing decides on an entry while the halt is up.
* `TradingProofs`, of Provisioning: seven theorems, among them that a key has one row, that
  what is committed is whole and has the content asked for, that no two tasks
  wait for each other (every task inserts versions, profile, account and bot in
  that order: the deadlock that would need two orders cannot arise), and that an
  item that failed leaves nothing behind. The invariant says of each task which
  rows it has written so far (`Before` its stage), that nobody else holds their
  keys, and that what it uses is what it asked for.

  Of Journal: `JournalTold` (`JournalIsTrue`), for any page size, any bots and any
  number of rows. Ids are drawn once by the tables and the open transactions
  (`OwnIds`), so the order of the pages is total; the last row of a page that is
  not the last page is older than everything on it and newer than everything left
  out (`LastOfAll`, `OldestOfPage`: ranks of rows in a finite set, and the least
  of a set of numbers). From there: what was there when the first page was read is
  shown or older than the cursor (`FirstOK`), what is shown is not older than it
  (`Paged`), and a signal is told from rows that were written with it (`SignalOK`).

  Of LedgerCheck: `LossesAreFound` (`LossIsFound`) and `VerdictsHaveCause`
  (`VerdictsNeedCause`), for any prices, quantities and number of orders. The
  books are whole until a row is lost (`Whole`: what each fill is told to have
  cost, one entry of a type, and three equations between the position and the
  ledger) and short ever after (`Missing`, per table). An order adds the same to
  both sides of each equation (`Rebooking`, with the rounding of a cost;
  `WritesSums`), so equations that hold stay and differences stay too. What a
  reconciliation has read is what the tables hold, or has a fill of an order it
  lacks, until an order is committed behind its SELECT of the fills (`RowsRead`).
  The lemmas on sums come first: a sum over a finite set is that of the rest plus
  one element, whichever is taken out (`SumTakes`, `SumPlus`), by a smallest
  counterexample among the subsets.
* `OperationsProofs`, of ConnectionAccess: `SecretKept` (the row of a live connection names a
  secret that is there) and `AccessClosed`. A handler that has created a secret
  and not yet written the row names a file nobody else deletes (`PendingOK`), a
  file about to be deleted is not the row's (`DroppedOK`), at most one handler
  replaces it (`OneReplaces`, the row lock), and those that wait for the exchange
  read a reference that may be old but that they do not write (`ReadersOK`).

  Of CandleGaps: `AskedOnce` (`NothingIsAskedTwice`) and `GapSettled`
  (`JobSettlesItsGap`), for any calendar and any number of askers. Internal gaps
  are maximal runs of missing candles, so two of them never overlap
  (`GapsApart`), and what is recorded of a gap stays of one piece when candles
  arrive (`OldAndNewApart`). A request that was admitted holds the advisory lock,
  under which what it found about the other jobs stays true until its own is
  inserted (`LockOK`, `AskedOK`).
* `SupervisionProofs`, of TradingHalt and Watchdogs: `ReleasedInTwoSteps` for halts and `AlertsTellNews` for the
  watchdogs. For halts: one active row per cause (`OneActive`, from the unique
  index and the write by id), what a session decided from is a row that still
  exists, perhaps changed (`LookedOK`, `JudgedOK`), and a calm judgement is
  followed by a warning level before any release (`CalmOK`, `WarnedOK`). For the
  watchdogs: what an alert told is what was stalled when it was raised (`ToldOK`,
  `RaisingOK`).

  Of NotificationOutbox: `TypeCorrect`, `PublishedToAll`, `GiveUpTold`,
  `NotToldAgain` and `EndsTrue`. The invariant says what an open transaction
  knows: its rows are pending and in no other batch (`LocksOK`), what it tried
  was not received before (`TriedOK`), and for each event it has begun everyone
  the event is owed to has it, was tried or is about to be (`CoveredOK`). The
  last needs `MembersOwed`: people an event is owed to are members when their
  names are read.
* `MarketStreamProofs`: `SkipsAreNoticed` (`NothingIsSkipped`) for any number of
  clients, subscribers and feeds, and any ring and queue. What is on its way to
  a client, the replay and then the queue, is a run of consecutive numbers up to
  the feed's last event (`Lined`) and continues what the client heard (`Ready`),
  in each phase of a session (`Serving`); the ring is the last events in order
  (`Ordered`); what a client remembers is of the feed it names (`Known`); a client
  has one session (`OneEach`).
* `PaperDeskProofs`: five theorems about money, with the code's rounding
  (`DivIs`), for every series of bars, window and limits. `CashAccounted`
  (`TradesExplainEquity`): every state of the replay is `Sound`, which holds the
  identity of cash, what was earned and what was paid, and each way a fill can go
  (opening, adding, closing, at a stop) keeps it; the walk of a bar over its
  probes is a function on `0 .. n`, and the least index at which `Walked` would
  fail is refuted. `StopNeverFalls` is read off the same walk. `LocksAreTold`
  (`NoSilentLock`): an evaluation raises the locks before it decides, from the
  account it woke with, and what denies is past the limit that raises
  (`HardIsLost`). `StopsKept` (`StopsAreKept`) needs two invariants: a stop that
  was touched since the last evaluation is on a bar of the window, or more bars
  were missed than it holds (`Honoured`: the window moves by one bar and drops
  its oldest); and the size of a position one order opened is such that the loss
  at its stop is within the budget (`InBudget`, `LossAtTheStop`).

  `BooksAgree` (`SameBooks`) relates live and replayed accounts: after a bar is
  evaluated the books are the same (`SameBook`) and no bar of the window has
  reached the stop (`Untouched`); between the closing of a bar and its evaluation
  the replay's books are what the bar makes of the live ones (`Tracked`:
  `LeftBy`, then `ActedBy`). It has the premise `FarFromZero`: every price is
  above the distance of a stop. Below it `_entry_stop_price` sets no stop where
  the replay keeps one that no price reaches; the instance of `desk` meets it.

* `StrategyProofs`: three theorems about what is computed from prices. Their loops
  are recursive functions, and induction over data is out of the prover's reach
  (the library states it for an operator as a parameter), so each loop is
  reasoned about by its least counterexample: a set of numbers has a least member
  (`LeastOf`, from the well-founded order of the naturals), and the round before
  the least one that fails did not fail. Stated once for all loops (`Recurs`,
  `RecursAt`, `RecursTyped`: a loop exists, obeys its rounds and keeps a type;
  `RecursAgree`: loops with equal rounds are equal; `Carries`: what every round
  keeps holds at the end), this serves sums, smoothed averages, replays and
  chained curves.

  `SeriesAreSound` (`SignalsAreSound`): the entry that the table carries is that of
  the series so far (`EntryOK`, the invariant that makes the property inductive):
  its sums are the totals of the ranges, gains and losses, and each average is
  unknown until its seed is complete and then Wilder's or the EMA over all of
  them. A new bar adds one value to each list, and an average over a list and one
  more value is a round of the loop. Events follow because the second of two bars
  reads as "before" what the first read as "now". Of four bars of one hour, either
  all are there, and then both pairs are, or some pair is not whole.

  `TickCandlesAreExact` (`FinalsAreExact`): the open candle shows the ticks that are
  its own (`Shows`), a tick joins it or closes it, and what is closed is not
  touched by any tick after the one that closed it (`Settled`). Final candles are
  below the open one, so each interval ends once, in the order of time.

  `WalkForwardSound` (`WalkForwardIsSound`), for any market and any lengths of
  windows. The folds: a quotient times its divisor tiles the series (`TilesAre`);
  a warm-up of one bar less than a history reaches the first bar every history of
  the window reads (`WarmupSuffices`); and two replays whose rounds read the same
  bars are equal, so a fold is chosen and tested blind (`ReplayBlind`,
  `ChoosingIsBlind`). The figures: a chained curve ends at the sum of its parts and
  holds each of them, lifted (`ChainHolds`); a drawdown is the deepest fall from an
  earlier point to a later one, so a part falls no deeper than the whole
  (`PartFallsLess`); the time under water that the loop counts is the longest dip,
  a stretch below the value it began with (`LongestIs`), and a dip of a part is one
  of the whole; returns of years add up by their ends (`YearsAddUp`), a least term
  times their number is at most their sum (`WorstIsWorst`); and the buckets of a
  sample cover the curve and are few enough (`BucketsAre`, `KeptIs`).

Only model-checked, and why:

* liveness: `BackfillEnds`, `PollingIsServed`, `EveryBarIsHandled`, `EventsEnd`,
  `UnwatchedFeedEnds`, `FeedRetries`, `StalledIsReported`, `HaltsSettle` (TLAPS
  1.4.5 has no ENABLED);
* the two properties of section 6 that the code does not keep.

Every safety invariant that a passing run checks is stated by a theorem.

## 6 Where code and documents disagree

Shown by a run:

* `bot_fills`: two closes of one position book two fills for it, after which
  the ledger check finds a mismatch and halts the account.
* `gaps_ignored`: a gap that a user chose to ignore is counted as missing again
  by the next check.

Met while modelling, each visible in the model and not made a run of its own:

* use_cases.py:367: nothing ever clears `blocked_reason`;
  docs/design/modules/durable-market-data-worker.md:121 says the start operation
  does.
* bot_lifecycle.py:250: two concurrent starts leave two running `BotRun` rows;
  bot_execution_loop.py:103 says the commands keep bot and run in lockstep.
* emergency_stop.py:196: two emergency stops that close positions can leave an
  account with a position the other way; emergency_stop.py:14-15 calls a double
  click safe.
* useMarketStream.ts:121-131 keeps the greatest sequence across feeds, so a new
  feed can say "replayed" after a loss (docs/plans/realtime-market-data-stream.md:303,
  RT-07).
* order_flow.py:716 and backtest_replay.py:36-38: a trade that breaks even ends a
  loss streak in one and not in the other.
* ledger_reconciliation.py:7-8 reads six tables one after another under READ
  COMMITTED, so an order that commits in between is reported as a mismatch.
* decision_history.py:142: a page is several reads, and a closing that commits in
  between is told as "paused".
* `create_approved_bot` allows two bots on one account and instrument;
  trade_history.py:10-12 says one account backs one bot.
* connections.py:218: a connection that was ever verified cannot be deleted (500);
  docs/design/api/reference.md:40 says 204.
* connections.py: a verification in flight undoes a disabling, and marks
  credentials that replaced the ones it verified; a deletion that meets an update
  leaves the update's secret without an owner.

## 7 What is left out

* MarketDataLease: the counter `attempts` and audit rows, a heartbeat in flight
  when its page ends, random jitter, the data of a gap.
* CandleGaps: offsets below a candle; one source per series.
* CandleFeed, MarketStream: the OANDA worker, which ends with its connection, the
  display of the client, the spread; the replay is a suffix of the ordered ring.
* BotTrading: everything the gate measures (an entry may always be denied; see
  PaperDesk), halts below the emergency level (see TradingHalt), heartbeats,
  prices and cash, the case of a closed row with a quantity among the mismatches,
  other bots of the account. Two hazards have no property, because the code does
  not promise one: a bot paused during an evaluation still opens
  (bot_execution_loop.py:99) and a failed bot keeps its position
  (bot_lifecycle.py:360).
* TradingHalt: a step down that is committed over an escalation, other causes.
* LedgerCheck: rows are lost only between reconciliations, one reading at a time,
  one instrument. A share of a cost is exact in the run and rounded to a whole
  number in the theorems; the tolerance of the comparisons
  (ledger_reconciliation.py:46), which the rounding of stored amounts needs, is
  left out with that rounding.
* BarAlgorithms: series shorter than `_HISTORY_WINDOW`; arithmetic is exact and
  scaled, RSI is floored.
* WalkForward: `max_drawdown` and `chain_windows` start at the first mark;
  `equal_weight_portfolio`, `top_share`, `hold_windows` and crash windows.
* Journal: filters by time, halts on the page, the list of positions.
* Provisioning: names of strategies and profiles other than one, the budget of a
  batch; a snapshot is reused by the ids of its candles.
* ConnectionAccess: contents of secrets, audit rows.
* Watchdogs: enabling a subscription keeps its old `next_run_at` (a false alarm
  is possible), an item whose last sign is older than an alert and that stalls
  later is never named, and two watchers may each alert once.
* NotificationOutbox: the order by `available_at` (any due events may fill a
  batch), the order of sends, the count of messages, channels without an adapter,
  and an outbox row without its `system_event`, which no producer writes; the
  back-off runs from the commit. A message sent before a rollback is sent again:
  delivery is at least once and no property says otherwise. A deadlock between
  two handlers of `connections.py` (:164) ends one of them with an error.

The components of section 1 without a module in section 2 (login and roles, the
launcher, reports, research strategies, forms) are listed in `PROJECT.json` with
the reason: a third party's protocol, process control, or queries that decide
nothing.

## 8 The plan

Done: every module of section 2, the runs of section 3 and the theorems of
section 5, which are of every safety property of the passing runs.
