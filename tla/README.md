# TLA+ specifications of the TradeOps Intelligence Platform

This directory holds a specification of the parts of the platform whose
correctness depends on interleavings, crashes, retries and ordering. TLC checks
small instances; TLAPS proves the most important properties for every value of
the constants. `PROJECT.json` maps each definition to the source lines it stands
for and lists runs, mutants, hazards, findings and theorems.

## The system

The platform is a set of services around PostgreSQL and Kafka.

| part | state | operations | talks to |
| --- | --- | --- | --- |
| order-service: API and lifecycle (`internal/service`, `internal/repository`) | `orders`, `idempotency_keys`, `order_executions`, `order_risk_decisions`, `order_events` | create, cancel, amend, risk decision, matching on acceptance | risk engine (HTTP), outbox (same transaction) |
| order-service: matching engine (`internal/matching`) | none: a function of an order and a book | `Match` | called inside the transaction that accepts an order, under an advisory lock per tenant and symbol |
| order-service: expiry worker (`internal/expiry`) | `orders.expires_at` | `ExpireDueBatch` on a ticker | orders table |
| order-service: stop trigger (`internal/stoptrigger`) | `reference_prices` | consume price events, `TriggerDueStopOrders` on a ticker | market-data topic, matching |
| order-service: outbox publisher (`internal/outbox`) | `order_outbox` and each replica's claimed batch | claim, publish, mark, retry, give up | Kafka |
| portfolio-service | portfolios, cash, holdings, transactions, processed events, its own outbox | apply a trade execution exactly once, publish portfolio events | `order-events` topic, DLQ |
| surveillance-service | rule windows in memory, alerts, rule configurations | evaluate events, create alerts, alert lifecycle | all source topics, alert topic |
| notification-service | notifications, delivery attempts | create and deliver notifications, retries | alert topic, webhooks |
| audit-service | audit log | normalise and insert events | all topics |
| market-data-service | ticks | validate, store, publish ticks | MQTT, market topic |
| risk-engine-service | risk policies, limits | pre-trade evaluation, portfolio risk | called by order-service |
| identity-service | users, refresh tokens | login, refresh, logout | called by the gateway |
| strategy-service | none | back-tests | called by the gateway |
| api-gateway | WebSocket subscriptions, rate-limit counters, JWKS cache | proxying, streaming | everything |
| frontends, deployment, scripts | | | |

### What is hard in it, and what makes it correct

* **Outbox.** A replica publishes outside any transaction, under a lease. A lease
  may run out at any point, another replica then claims the row, and the first
  one comes back with its mark; the broker may have stored a message whose
  publish "failed"; processes die with a batch in hand. Correct: every
  committed event is published or given up, never both or twice decided; what is
  called published is in Kafka; the attempt count is the number of failures that were recorded.
* **Order lifecycle.** Handlers read a row, decide, and write in a later
  transaction; matches write absolute quantities computed from rows they read;
  the risk engine is asked between two transactions. Correct: terminal
  states are final, executed volume and quantities agree up to the decimals each is written with, an amendment hits the
  version it was meant for, one order per idempotency key, nothing trades that the
  risk gate has not cleared, the book is never left crossed.
* **Matching.** Price-time priority, fill-or-kill as a separate precheck, what may
  rest. Correct: agreement with a declarative definition.
* **Stop trigger.** Prices arrive late or in a different order; a batch is taken
  before its orders are tested. Correct: an order trades as a stop only until its
  trigger and as a market or limit order after it, is triggered once, and is
  eventually triggered when its price is reached.
* **Portfolio.** Trade events arrive twice, out of order, and concurrently.
  Correct: each execution is applied once, cash and holdings add up (up to the eight decimals of the
  transaction rows), updates leave for Kafka.
* **Consumers.** All of them retry in memory, write a dead letter and commit the
  offset, whatever the outcome. Correct: a message is processed, or in the DLQ, or lost in one of
  three known ways; the documentation allows none of the three (see Findings).
* **Surveillance, notification, audit.** State is kept in memory or written before
  the effect it records, and one alert crosses three consumers that each redeliver.
  Correct: one alert per key, one notice per alert and channel, one audit row per
  event, statuses that only move forward, a rule change that takes effect.
* **Access.** A refresh token lives in two stores, rotation and logout race, and the
  gateway fetches the key set concurrently with requests that need it. Correct: no
  refresh after logout, no request refused for a key the gateway could have had, a
  cache that catches up with a rotated key.

`PROJECT.json` lists each of these hazards at its line.

## Modules

| module | models | composed with |
| --- | --- | --- |
| `OutboxContract` | what a transactional outbox promises: no workers, no leases | the abstract specification of `OrderOutbox` |
| `OrderOutbox` | the `order_outbox` table and the publisher of every replica | refines `OutboxContract` (`Contract`) |
| `MatchingEngine` | `internal/matching` as functions on a book | used by the next two |
| `Decimals` | rounding to a number of decimals: `big.Rat.FloatString`, `%.10f`, NUMERIC columns of a fixed scale | used by `OrderService` and `PortfolioService` |
| `MatchingBook` | one incoming order against every small book, with the reference definition of price-time priority | `MatchingEngine` |
| `OrderService` | the orders table with create, risk decision, matching, cancel, amend and expiry | `MatchingEngine`, `Decimals` |
| `StopTrigger` | reference prices, the price consumer and the trigger worker | extends `OrderService`, whose handlers keep running beside it |
| `EventConsumer` | the Kafka consumer that portfolio, surveillance, notification and audit each have a copy of: fetch, retry, dead letter, commit, crash, shutdown, rebalance | extended by every service that consumes |
| `PortfolioLedger` | what applying executions promises: each once, to both portfolios at once | the abstract specification of `PortfolioService` |
| `PortfolioOutbox` | `portfolio_outbox_events` and its publisher, which has no lease | part of `PortfolioService` |
| `PortfolioService` | the trade consumer, the transaction that applies a trade, the outbox | extends `EventConsumer`, `PortfolioOutbox` and `Decimals`, refines `PortfolioLedger` (`Ledger`) |
| `PlatformEvents` | the events and topics between surveillance, notification and audit | extends `EventConsumer` |
| `RuleConfigs` | the rule configuration table, its cache in the engine and the calls that update it | part of `Surveillance` |
| `Surveillance` | rule evaluation with its memory, alerts, their announcements, the analysts' calls | `PlatformEvents`, `RuleConfigs` |
| `NotificationService` | preferences, notices per channel, webhooks with retries, the users' calls | `PlatformEvents` |
| `AuditTrail` | keys and rows of the audit log | `PlatformEvents` |
| `AlertPipeline` | the three services connected by their topics, with restarts | the three modules above |
| `IdentityTokens` | refresh tokens in PostgreSQL and Redis, the signing key over restarts | part of `GatewayAuth` |
| `GatewayAuth` | the gateway's JWKS cache and concurrent validations | extends `IdentityTokens` |
| `AccessControl` | identity service and gateway together | the two above |
| `FoldLemmas` | induction stated about a set, sums over functions, and sequences that list a set by rank: lemmas about no module in particular | extended by `MatchingProofs` and `PortfolioProofs` |
| `MatchingProofs` | theorems about the engine and about `MatchingBook` | extended by `OrderServiceProofs` |
| `OrderOutboxProofs`, `OrderServiceProofs`, `EventConsumerProofs`, `PortfolioProofs`, `AlertProofs`, `AccessProofs` | theorems | the module they are named after; `OrderServiceProofs` is about `StopTrigger` too; `PortfolioProofs` and `AlertProofs` extend `EventConsumerProofs` |
| `MC...` | the instances TLC checks | |

### How state and actions correspond to the code

`OrderOutbox`: `status`, `publishedAt`, `attempts`, `lockedBy` are columns.
`available` and `lease` stand for the comparisons of `available_at` and
`lease_until` with `NOW()`; `BackoffElapses` and `LeaseExpires` are the passing of
those times. `claimed[w]` is the batch a replica holds in memory, with the
`attempt_count` each record had when it was claimed, which is the count the retry
decision uses. `pc[w]` is how far the replica is with the first of them, so a crash
(`Stop`), an expiry or another replica's step fits between any two of: claim,
publish, mark. `PublishErrored` may have stored the message. `MarkLost` is a mark
statement that fails or matches no row; the code logs it and goes on. A restarted
process has a new worker id, so it is another element of `Workers`.

`OrderService`: a transaction is one action, because it locks the rows it changes
before it reads them and two matches of a symbol exclude each other by the
advisory lock. A handler is several actions: `FindIdempotency`, `CreateOrder`
(or `CreateRefused` by the primary key), then `ApplyRiskDecision`; `CancelRead` and
`CancelWrite`; `AmendRead` (the client reads a version) and `AmendWrite` or
`AmendRefused`. `Lose` ends a request anywhere in between. `expiry` holds what
`expires_at` is compared with; `ExpiryPasses` is time. Matching happens inside
`CreateOrder` and `ApplyRiskDecision`, as in the code, by `MatchedOrders` and
`MatchedExecutions`, which apply `MatchingEngine!Match` and then what
`persistOrderState` writes. The engine's nil dereference on a book with a NULL
price (`Panics`) disables the transaction: it is rolled back, and the request ends
in `Lose`. What a request asks for is its body and its `Idempotency-Key` (`body[r].key`), which a
client sends with each try of the same order.

Amounts are integers that count the smallest unit that occurs. An execution is written with ten decimals
(`RatString`), and an amount that this rounds to zero violates the CHECK of `order_executions` and rolls the
transaction back (`Storable`). The columns of an order are unbounded NUMERIC, written and read as float64:
the model is about orders whose quantities, sums and differences have at most fifteen significant digits,
which that round trip returns exactly. `TenthDecimal` is what the tenth decimal counts: with 1 no amount is finer
than the rounding, with more of it some are, and the executions are off what the rows say.

`StopTrigger`: `reference` is the row of `reference_prices` and whether it is younger than
the maximum age; `triggers` holds `stop_trigger_reference_price` of the orders with a
`triggered_at`. One batch is one transaction and one action: the pending orders that are
not locked (`skipped`), oldest first up to the batch size, those among them whose
price is reached, each activated and matched in turn on what the one before it left
(`Trigger`; `AfterTriggers(batch)[n]` is what the first `n` of the batch lead to).

`MatchingEngine`: `RestingFor` is the sorted queue, `Round` one iteration of the loop,
`After(...)[n]` what `n` rounds lead to, `CanFullyFill` the separate precheck. The engine computes with exact
rationals; only sums and comparisons matter, so small integers stand for them (what is rounded when its
results are written is `OrderService`'s).

`EventConsumer`: `position` is how far the reader library has handed messages out,
`handling`, `stage` and `tries` are the loop variables of `Start` and
`processWithRetry`, `marked` what was last given to `CommitMessages` and `committed` what
the broker has. With `CommitInterval` zero (portfolio) a commit takes effect or fails;
with an interval (`AsyncCommit`) nobody sees it before a restart, so the restart decides
how far it got. A group without an offset starts at the end (`StartsAt`), as
`StartOffset: LastOffset` says. `dropped` is a history variable: messages the code
passes by without processing them or writing a dead letter. There are three ways: a
dead-letter write that fails, a shutdown whose last commit gets through, and a restart
before the first commit.

`PortfolioService`: the transaction of `ApplyTradeExecution` is cut where it can meet
another one: after it has looked for the execution (`BeginTransaction`), at the row lock of
the buyer (`LockBuyer`) and of the seller (`LockSeller`). The rest happens under both locks and is one step
at its commit, whose answer may be lost. Opposite trades lock in opposite orders;
`DeadlockVictim` is PostgreSQL aborting one. Amounts are rounded where the code does it: to ten decimals on the way
into a statement (`Ten`, `Product`), to eight in the NUMERIC(20, 8) columns of `portfolio_transactions`
(`Transaction`) and in the texts of the event (`PortfolioUpdated`); cash, holdings and profit are unbounded columns,
and the average price is a quotient (`Bought`). `TenthDecimal`, `EighthDecimal` and `One` say what these
decimals and the number one count. `Insert` puts the update into the outbox
in the same transaction. A poll moves rows to `publishing` (`FetchPending`); they
leave it by `MarkPublished` or `MarkFailed`, or never (`MarkLost`, `Restart`), because no
query takes a row in that status: `Stranded`. A row marked `failed` is taken like a pending one (`Due`).

`Surveillance`: `Evaluate` is `EvaluateForTenant`, which changes the engine's memory
(`lastPrice`, `recent`) before anything is stored; then each match is looked up and inserted
(`RaiseAlert`), and announced (`PublishAlert`), with failures between any two. The
retry of a failed event evaluates it anew on the memory the first attempt has left.
Events in a rolling window may have left it whenever it is looked at, which stands for
time. `RuleConfigs`: an update is four steps (`ReadRule`, `WriteRule`, `LoadRules`,
`InstallRules`) with nothing around them, as in `RuleConfigService`.

`NotificationService`: the channels are read once per attempt (`ReadPreferences`), then each is looked up
and sent. A webhook notice is inserted as `PENDING` (`OpenWebhook`), posted (`PostWebhook`,
`PostFails`) and settled (`SettleWebhook`), and users and managers get in between. `received`
is history: what the endpoint has. A retry request only changes the row and announces
itself: nothing in the code delivers it.

`AuditTrail`: `SourceEventKey` is the id of an event, or the time when it has none; the
unique index makes `Insertion` a no-op for a key that is there.

`IdentityTokens`, `GatewayAuth`: login, refresh and logout are a step per statement
(`Login`, `StoreInRedis`; `LookInRedis`, `QueryRow`, `SignAccess`; `RevokeRow`,
`DeleteFromRedis`), and `CallFails` ends one anywhere. A validation is `Arrive`, and when a fetch is needed
`AnswerKeys` (the identity service reads its key) and `InstallKeys` (the promise
continues), so that answers are installed in any order and after the key has changed.
Another key may come with an id of its own or be published under the same id, as an
ephemeral key is after a restart.

## Runs

| run | question | bounds and why they are enough |
| --- | --- | --- |
| `outbox` | invariants, refinement of the contract, and that every event settles | two replicas (one stale, one current), two events from two transactions, two attempts (one retry and the last one), batch of two |
| `matching` | the engine equals the reference for every order and book | three resting orders: one ahead, one at the margin, one behind; three prices: better, equal, worse; quantities 1 and 2 (`Quantities`), incoming up to 6 (`Demands`), so exact, partial and over-fills occur |
| `orders` | lifecycle safety, idempotency, the risk gate when failing open, priority across calls, expiry | three requests: two makers of different rank and a taker, or up to three concurrent tries under one key, with one body or two; one amendment, one cancel, batch of two, risk checks on; an order without a price is among them, which the gate has to refuse; `TenthDecimal` is 2, so that a fill of an odd volume is rounded |
| `stop` | stop orders are activated once, batches trade in order, due orders trigger | three orders, so that a batch of two has a maker or a third pending order beside it; two prices on both sides of the stops; one cancel; any rows locked; `TenthDecimal` is 3, so that a fill of two is rounded up and a fill of one to zero |
| `stop_starved` | (violation) every due stop order triggers | the instance of `stop` with a batch of one |
| `price` | (violation) a live LIMIT order has a price | the instance of `orders` |
| `portfolio` | the ledger refinement, balanced books, accounting for every message, and that trades settle and updates leave | two processes and two partitions, so that opposite trades meet; a purchase and a resale that needs it (in another partition, hence in any order), a trade with oneself and a legacy event; one fault of any kind (crash, shutdown, rebalance, failed statement, lost commit answer, failed publish or mark); one retry, so that a message can fail once and be dead-lettered at the second time; one is two units and the eighth decimal is as coarse, so that a gross amount, a traded quantity and the average price of the resale all fall between two numbers that can be written |
| `portfolio_dropped` | (violation) a message is committed only when it was processed or dead-lettered | the instance of `portfolio` without faults |
| `portfolio_settles` | (violation) an update is delivered or given up for good | the instance of `portfolio`, under its fairness |
| `alerts` | one alert per key, one notice per channel, one audit row per event, no message passed without its mark, statuses, rule updates, and that alerts reach users | per behaviour one plan (`MCPlans`): two orders of a user, an order with a call and a fault, two ticks of another tenant with two calls (two overlapping updates, or an update and an analyst), a high score, an unreadable event; one retry and one post, so that both the retry and its end occur |
| `tenant_rules` | (violation) a tenant's rule update is stored | the instance of `alerts` |
| `access` | no refresh after a logout, no needless rejection, and a cache that catches up | one session with two concurrent calls (every conflict is between calls of one session), two requests, so that an old answer can be installed over a young one, two keys and two ids (a rotation and a reuse of the id), one failure |

`CHECK_DEADLOCK FALSE` in every configuration but `AccessControl.cfg`: the requests of those instances are
finite, so they end in states where everything is settled and nothing is left to do.

### Findings

* `price`: `repo.AmendOrder` assigns `limit_price`, `stop_price` and `expires_at` from
  the request even when the field is absent. Amending the quantity alone leaves
  a LIMIT order without a price, out of the book, and able to crash later matches.
* `stop_starved`: the worker's `LIMIT` comes before the price test, so as many older
  stop orders as a batch holds, none of them due, keep a due order from its trigger for ever.
* `portfolio_dropped`: `docs/reliability/graceful-shutdown.md:24` says that messages are committed only after
  processing finishes or the event was sent to a DLQ. The portfolio consumer commits
  whatever came of the attempts; a trade that fails and whose dead letter cannot be written is gone. `:38` says
  that consumers do not silently drop malformed or failed events during restarts. The consumers of the other
  services are the same in this, and all of them start at the end of a topic whose offset their group has not
  committed yet, so that a restart before the first commit loses what came before it, without a dead letter.
* `portfolio_settles`: `docs/portfolio/transactional-outbox.md:13` says that publishing is retried until
  the attempts are used up and that terminal failures remain `failed`. `FetchPending` takes `failed` rows
  again, without end: that is the trace. The other half of `UpdatesSettle` fails as well: `:43` says
  at-least-once, but a row that a stopped publisher leaves in `publishing` is never taken again.
* `tenant_rules`: `docs/surveillance/rule-configuration.md:3` and `:25` promise rule configuration per tenant. The first
  update of a rule by a tenant other than the default one copies the default tenant's row, its id
  included, and meets the primary key; no tenant ever gets a row of its own.

### Behaviour the properties make room for

These are things the code does that a reader of a property may stumble over, and each is
the reason why a property has the form it has.

* `EveryUpdateLeaves` excepts `Stranded` rows and includes rows whose attempts are used up, because the code
  takes these again (the finding `portfolio_settles`, for both). What it adds to the
  finding is that nothing else keeps an update from leaving.
* `PassedIsAccountedFor` and `PassedLeavesItsMark` except `dropped` messages (the finding `portfolio_dropped`,
  which speaks for every consumer). What they add is that no interleaving of retries, commits, rebalances and crashes loses a
  message in a fourth way.
* No property orders the events of one order. `docs/architecture/transactional-outbox.md:31` says that
  sequential publishing of a batch keeps them in database order, but `poll` goes on with the next record after
  a failed one (`publisher.go:119`), which then waits out its backoff while later events of the order reach Kafka.
* `TypesFollowTriggers` speaks of an order's type only: acceptance matches an order whatever its type, and the
  engine holds every type but MARKET to its limit only (`engine.go:84`), so a STOP_LIMIT order whose limit
  crosses the book trades when it is created. `docs/orders/stop-order-triggering.md:3` speaks of an activation
  of pending orders.
* `FillsMatchExecutions` and `BooksBalance` allow half a unit of the last decimal of a row for each row, because the
  two sides are written with different precisions. Nothing reconciles them.
* `OutboxInv` says what `attempt_count` counts, recorded failures, and no property bounds how often a
  record is published: a try that ends in a crash, an expired lease or a failed mark is not counted.
* `DueStopsTrigger` has the premise that the matches of a batch can be stored: a fill that ten decimals
  round to zero takes the whole batch back at every poll.
* `LastToldPlusSales`: only the buyer gets a `portfolio.updated`; a seller's balance is never announced.
* `RuleChangesTakeEffect` excepts overlapping calls (the later installation may be the older
  load, and the whole row is written back) and failed loads (the environment's settings are installed).
* `MarkLeft` speaks of the two rules without memory: the price rule has moved its last price
  when the insert fails, so the retry sees no movement and the alert is lost. It also
  excepts behaviours in which somebody has called a service (`called`), because rules and preferences may have changed.
* `OlderStopFirst` excepts a maker that the same batch triggered after the older order: a triggered
  STOP_LIMIT order rests as a LIMIT order, and those after it in the batch can trade with it, those
  before it cannot. It takes a batch of three to see this.
* `OneAlertPerKey` is for ever: an alert that was resolved still suppresses the next one
  with its key.
* `StatusesMoveForward` lets a webhook's outcome overwrite `READ`, and lets `RESOLVED` and
  `DISMISSED` follow each other. A notice may stay `PENDING` (its event is a duplicate after a crash)
  or `RETRYING` for ever.
* `OneRowPerEvent` leaves out keyless events: `risk.score.updated` carries neither id nor time and is
  stored again at each redelivery.
* `RejectedForAReason` excepts ids that stood for two keys: an ephemeral key is published under the
  same id, so until the gateway's cache expires new tokens are rejected and old ones accepted.
  A fetch that fails turns a request away even when its key is in the cache.
* A logout answers "logged out" when the revocation has failed, and the refresh token still works.

### Fairness

`OrderOutbox!FairSpec`: timers run out; a live replica claims when it can (the
ticker of `Run`), publishes (a timeout bounds each publish) and gets to the next
record. Marks are under strong fairness: an error skips the record, so a mark is
only repeatedly, not continuously, possible, and a database that answers again and
again is assumed to succeed eventually. `Timely` says that from some time on a
lease does not run out on the very record its owner is busy with; the configuration
check (`config.go:233`, lease longer than the publish timeout) exists for that.
One replica stays alive: `Stop` is not taken by the last.

`StopTrigger!StopFairSpec`: a poll that could trigger something for ever does so again and
again, on rows none of which is locked (`PollsKeepComing`, the weak fairness of the ticker
loop written out, with `CanTrigger` as its enabling condition): the transactions that
lock these rows are short. The expiry worker, which can take such an order away
instead, is weakly fair as in `OrderService`.

`OrderService!FairSpec`: the expiry worker keeps polling. No request is assumed to
make progress.

`PortfolioService!FairSpec`: every reader is a goroutine that goes on while it can (`Handle`), and every
publisher's ticker comes round (`Poll`) and ends what it took (`Publish`). Faults are bounded, so
nothing is assumed to succeed but what follows the last fault. Locks are not assumed to be granted fairly.

`AlertPipeline!FairSpec`: weak fairness of `Handle` for every reader, and of nothing that analysts, managers,
users or faults do. `AlertReachesUser` holds for users who keep in-app notices on, which is a premise.

`AccessControl!FairSpec`: clients keep presenting tokens, validations are carried on with and
the time to live ends. A fetch may fail, at most as often as `MaxFaults` says.

## Proofs

`OrderOutboxProofs` proves, for any set of rows, replicas, transactions, any batch
size and any number of attempts:

* `OutboxInvariant`: `OutboxInv`, which is inductive. Types alone are not enough:
  that a stale replica cannot disturb a row needs the agreement of `lockedBy`, `lease`
  and `status` (`RowsAgree`), and what the attempt count means (`FailuresCounted`) needs that the
  count a replica remembers is still the row's own while it owns the row (`RecordsAgree`).
* `SettledIsFinalHolds`: from the invariant, action by action.
* `OutboxImplementsContract`: every step is a step of `OutboxContract` or a stutter.

`FoldLemmas` holds what the proofs about loops and sums rest on. The library's induction theorems
take a predicate as a parameter; here induction is about a *set* instead
(`LeastNumber`, `NumberInduction`, `SubsetInduction`, from the well-foundedness of the order on
numbers), and each use names the set of the numbers, or of the finite sets, its claim holds for. From
it come `StepRecursion` (a function defined by recursion up to `n` exists and is what its equations say),
the sums over a set (`SumRecursion`, and from it `SumAdd`, `SumUnion`, `SumAtMost`, `SumImage` and their kin) and
`ListedInOrder` (listing a finite set by the rank of its elements gives each of them once, in order).

`MatchingProofs` proves, for any book, any prices and quantities and any incoming order:

* `BookInvariant`: what an outcome in `result` was computed from. What `Match` computes rests on the loop
  invariant `Stage`: the queue lists the side in the order of `Ahead` (`QueueInOrder`), and after `n` rounds each
  of the first `n` orders has given what the volume ahead of it leaves of the demand, up to its own, the others have
  given nothing, and a loop that ended met an unacceptable order or had nothing left.
* `PriceTimePriorityHolds`: so each fill is what `Share` says, which adds up volumes and knows no loop.
* `FillOrKillHolds`: the precheck looks for a prefix of acceptable orders that holds enough;
  as `Ahead` puts acceptable orders first, there is one exactly if the loop ends with nothing left.
* `RestsUncrossedHolds`: the loop ends early with something left only at an order it may not trade with.

`OrderServiceProofs` proves, for any requests, keys, bodies and calls:

* `OrdersInvariant`: `OrdersInv`. Its argument is that of one lemma: every step
  *moves* rows (versions grow, a row past the risk gate never falls back before it, and a
  terminal row does not move) except for at most one row that its own request inserts or
  decides. Keys, handlers, versions and the gate survive any such step.
* `RiskGateHolds`, `OneOrderPerKeyHolds`: consequences of the invariant.
* `TerminalIsFinalHolds`, `AmendsWhatWasSeenHolds`: action properties; the second
  rests on `VersionsNameRows`, that a version number names one row content.
* `TablesInvariant`, hence `TypeOKHolds`, `FillsMatchExecutionsHolds`, `QuantitiesAgreeHolds` and
  `CrossedOnlyByAmendmentHolds`. `TablesInv` adds to `OrdersInv` that every row is typed and agrees with itself (`RowOK`), that
  executions are finitely many, between orders of the table, and sum up to what the rows
  say, up to half a tenth decimal each (`TableOK`, `TradesOK`). The step that matters is a match: its fills are bounded by what the rows have left, and
  each of its executions carries a version of the taker that no earlier one has, so a match
  adds to the sums what it adds to the rows, never something that is in them already. The book stays uncrossed because what rests is
  what the engine refused to trade.
* `BestFirstHolds`: an action property, from the engine's loop invariant and the columns the match writes.

and, with the trigger worker and any prices, batch size and locked rows:

* `StopInvariant`: all of the above (`AllInv`) is kept by a batch, by induction over it. `Progress` says what the
  first `n` orders of a batch lead to: tables as `TablesInv` has them, rows that only moved (`RowsMoved`), trades that
  served older orders first (`TradesMade`), and orders not yet reached that still wait as the query found them.
* `StopTypeOKHolds`, `StopFillsMatchExecutionsHolds`, `TypesFollowTriggersHolds`: from it. Outside the worker a
  type never changes (`TypesStay`), and the worker changes it together with `triggers`.
* `OlderStopFirstHolds`: an order matched in the batch either is used up or has left no order it accepts (`Spent`), and
  nothing it accepts appears later but what the batch itself triggers.

`EventConsumerProofs` proves, once for every service, what a consumer of messages `M` guarantees relative to a
set `S` of settled messages that only grows: `ConsumerInv(M, S)`. Offsets (`committed`, `marked`)
pass settled messages only, and a reader has passed settled ones plus the one at hand. There is a lemma per step
(`FetchKeeps`, `CommitKeeps`, `CrashKeeps`, `ShutdownKeeps`, `RebalanceKeeps`, ...), each asking only
that what the step lets go of is settled.

`PortfolioProofs` proves, for any processes, partitions, messages, users, amounts and faults:

* `PassedIsAccountedForHolds`: the lemmas above with "applied, dead-lettered or dropped" for settled.
* `PortfolioInvariant`: `PortfolioInv`. The inductive invariant is `AllInvariants`: `LocksInv` (a
  portfolio is locked by exactly the transaction that says so, and a transaction belongs to an
  attempt at a valid trade), `BooksInv` (types, nothing overdrawn, one row per execution) and
  `PublishersInv` (batches are apart, and every ledger row has its outbox row). Amounts are not
  overdrawn because guard and update happen under both locks.
* `BooksBalanceHolds`: the rows of an execution are new, so the sums over the rows of a user change by what
  the trade does to cash, holdings and profit, give or take one rounding to eight decimals
  for each row (`BalancesInv`).
* `LastToldPlusSalesHolds`: an announcement is a snapshot of its own commit; between two purchases of a user
  only sales change the cash (`AnnouncedInv`).
* `PortfolioImplementsLedger`: `ApplyTradeExecution` is the only step of the ledger, and it is one
  because the locks name two different users and the execution is new; everything else stutters.

`AccessProofs` proves, for any sessions, callers, requests, ids, keys and faults:

* `AccessInvariant`: `AccessInv`. `RevokedStaysOut` needs that a call which began after a logout finds the row
  revoked (`LateIsRevoked`), and `RedisHasRows` that a login has its row before it writes to Redis.
* `RejectedForAReasonHolds`: every key in the cache or in an answer was published under its id
  (`KeysPublished`); a request whose key is the published one all along finds it in the answer to its fetch
  (`SteadyFindsItsKey`), so the retries are not exhausted (`FetchesLeft`).

`AlertProofs` proves, for any readers, tenants, rules, users, plans of events, faults and calls:

* `StatusesMoveForwardHolds`. That a webhook's outcome meets a `PENDING` or `READ` notice needs
  `WebhooksInHand`: no two readers send the same notice, nobody else settles it, and a retry
  is for `FAILED` ones.
* `NoticesAreKept`: `OneNoticePerChannel` and `WebhookStatusIsEarned`, from the same invariant
  (the attempts a reader remembers are borne out by the row).
* `OneAlertPerKeyHolds`, and `OneRowPerEventHolds` (the key of a row is made of its event: `KeyIsTheEvent`).
* `RuleChangesTakeEffectHolds`: only the default tenant ever has rows (the defect of `tenant_rules`) and a cache
  entry (`OnlyDefaultRows`, `CallsCarryDefaults`); while no call has got past its write, that
  entry is what the table says (`CacheFollowsTable`).
* `PassedLeavesItsMarkHolds` and `AlertsInvHolds`: an event that a reader has passed left its alert, its notices or
  its audit row, or is dead-lettered or dropped. The theorems above ask nothing of an event, so they
  hold of rows typed up to the data copied from one; this one needs the whole way from the topic to the row,
  and its inductive invariant is `MarksInv`:
  * `TablesKept`: the invariants above, one for each table;
  * `Delivered`: `ConsumerInv` with `Settled` for `S`. A message is settled when its mark is there or it was given up,
    and settled messages stay settled because alerts, notices and rows are never
    deleted or given another key (`MarksStay`). `TopicsCarryTheirTypes` says what each reader can meet: surveillance
    source events, notification alert events, audit any message;
  * `Surveyed`: a reader that has evaluated its event has an alert for every threshold the event breaches, or has the
    match still in hand (`Raising`), through evaluation, duplicates, announcements and failures;
  * `Notified`: a reader between two channels has a notice on each channel it is not going to send to
    (`SendingOn`). A crash forgets what it has in hand, but then it has not passed the message either;
  * `Audited`: the key of a row names its event (`KeyNamesTheEvent`), so an insertion that the unique index turns
    into a no-op finds the row of the same event;
  * `NothingWasChanged`: until the first call (`called`) rules and preferences are the ones thresholds and channels are
    read from, and a restart loads the same rules again.
  Each step keeps the parts of its own service by a lemma per action (`RaiseKeeps`, `SettleKeeps`, `RecordKeeps`, ...);
  that the other services' readers go on with the same attempt is `AttemptsStay`, proved once for each
  kind of consumer step (`Bystanders`).

All of them assume only the named assumptions on the constants (`OutboxAssumption`,
`OrderAssumption`, `ConsumerAssumption`, `PortfolioAssumption`, `RuleConfigsAssumption` and so on), which
TLC evaluates in the runs.

Only model-checked:

* liveness: `EverySettles`, `OverdueEnds`, `DueStopsTrigger`, `EveryTradeSettles`, `EveryUpdateLeaves`,
  `AlertReachesUser`, `CacheCatchesUp` (fairness and `ENABLED` are out of the prover's reach).

## Not modelled

* order-service: event payloads and `order_events`, average prices, metrics, tracing and status
  endpoints (no property depends on them); tenants and symbols other than one (every query is
  restricted to one tenant, and books of different symbols share nothing but the
  advisory lock hash).
* portfolio-service: `ApplyFilledOrder`, which nothing calls any more; symbols other than one.
* surveillance, notification and audit run as one process each here, as `values.yaml` has it (`replicaCount: 1`).
  `values-production.yaml` has several: then engine memory and rule caches are split among the replicas, an update reaches the cache
  of one, and the look for a duplicate and the insert are no longer exclusive. The properties
  of `AlertPipeline` are not claimed for that deployment.
* surveillance: rule simulation, which only reads. audit: rows and exports requested over HTTP.
* identity-service: registration, passwords, roles and the expiry of access tokens.
* api-gateway: proxying, role tables, rate limits and the WebSocket hub.
* market-data-service (validate, store, publish, with no decision on earlier state) and risk-engine-service
  (a function of one request and sums read from its tables) are environments: `StopTrigger` and `AlertPipeline` admit every price,
  `OrderService` every answer.
* strategy-service, frontends, deployment and scripts hold no state worth a model.
