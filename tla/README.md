# api2openclaw, specified

TLA+ modules, TLC runs and TLAPS proofs about the gateway in `src/`, a Go
server that takes OpenAI-style chat completions, authenticates them by API key,
checks them against the rate limits of the key, routes them to one of several
backends, forwards them (whole or as a stream), keeps circuit breakers and
health states of the backends meanwhile, and has an administration of users,
keys, models, costs and invoices. Everything here is translated from the code;
where code and documentation disagree, the section "Known deviations" says so.

## The system

| Part | Code | State | Operations |
|---|---|---|---|
| chat handlers | `internal/server/server.go` 507-910 | none of their own; the active-request gauge (`monitor/prometheus.go`) | one request, whole or streamed |
| rate limiter | `internal/monitor/ratelimit.go` | counters by key, window and window index, each with an expiry | `CheckLimit`, `Increment`, cleanup goroutine |
| circuit breakers | `internal/monitor/circuit.go` | for each backend a state, two counters, the last failure | `Allow`, `RecordSuccess`, `RecordFailure`, `Reset`, registry `Get` |
| streaming forwarder | `internal/router/forwarder.go` | a goroutine, `chunkChan` (16), `errChan` (1), the SSE scanner | dial, scan, send, report, close |
| model router | `internal/router/router.go` | backends, models, aliases, strategies | register, `Route`, `UpdateBackendStatus`, `Close` |
| strategies | `internal/router/strategy.go` | round-robin counter, connection counts, current weights | `Select`, `Release`, `SetWeight`, `Reset` |
| dynamic routes | `internal/router/dynamic.go` | the router's maps, the history of changes | update, remove, ask, record |
| health checker | `internal/router/health.go` | one loop for each router, a goroutine for each check | `Run`, `Stop`, check, mark |
| process, watcher, reload | `cmd/api2openclaw/main.go`, `internal/config/watcher.go`, `server.go` 1152-1234 | the file, the debounce timer, who has which configuration, the router in use | edit, load, convert, replace, serve, shut down |
| keys, tenants | `internal/auth`, `internal/models/apikey.go` | rows of tenants and keys (database) | authenticate, generate, revoke, list |
| administrators | `internal/admin/auth.go`, `postgres_store.go` | rows of users, login attempts (database), signed tokens | login, create, update, delete |
| models and costs | `internal/admin/model_service.go`, `cost_*.go`, `reload_watcher.go` | rows (database), the poller's last stamp | create, update, toggle, delete, poll |
| billing | `internal/billing`, `internal/admin/billing_handlers.go` | request logs, rules, invoices, payments (database) | change rules, generate, show, pay, export |
| quotas, sliding windows | `monitor/quota.go`, `ratelimit_v2.go` | per-key counters, their saved copies | check, record, reset, save, restore |
| anomaly detector | `monitor/anomaly_detector.go` | per-key history and last alert, a channel | record, alert, clear |
| webhooks | `internal/notifier/webhook.go` | registered webhooks, history, goroutines under way | register, trigger, retry, record |
| converters, plugins, audit, crypto, logging | the rest | none that interacts | |

A request is authenticated (two or three statements of the database), calls
limiter, router, breaker, forwarder, breaker and limiter in that order, each
under a lock of its own and with none held between, and is logged by a
goroutine afterwards: that is where the interleavings are. Health checkers and
reloads write what the router reads; reports reach a breaker as late as a
backend can be slow (120 seconds); a streaming handler and its forwarder share
nothing but two channels and the request's context. The administration never
locks a row: its handlers read, change a copy and write it back, each step a
statement of its own. Billing reads what the requests' goroutines log.

What makes each part correct, and hard:

- *Breaker.* It opens on a streak of failures and on nothing else, stays open
  for the recovery time, closes only after a trial, and always finds its way
  back. Hard: reports of requests let through in an earlier state, and
  requests that never report.
- *Limiter.* A charge counts in its window, fully and only there; overruns are
  bounded; nobody is refused for requests that did not happen. Hard: check and
  charge are apart, and entries expire by a clock of their own.
- *Handler.* Every request ends and is taken off the gauge, whichever step
  refuses it.
- *Stream.* A success is the whole stream; every stream ends; no goroutine is
  left over. Hard: two channels, two closes, a bounded buffer, a client that
  leaves.
- *Router.* References between entries hold; a name that is known is found,
  over registrations and reloads between the steps of one `Route`. Calls that
  are refused half-way leave no pointer to nothing.
- *Strategies.* Each backend gets its share. Hard: one object serves all
  models, so the list it selects from changes from call to call.
- *Health.* Verdicts converge though nobody orders them; a reload stops the
  old checker and is never stopped by it.
- *Process.* Edits are not missed, the parts agree on a configuration whatever
  failed, a signal ends the process and leaves no checker behind. Hard:
  debouncing, reloads that fail half-way, a shutdown in the middle of one.
- *Keys.* A key once said to be dead opens nothing to later requests; only
  administrators make administrators. Hard: a request goes on with its copy.
- *Administrators.* Locks and counts agree, guessing is bounded, no right
  appears that was not given. Hard: whole rows are written back after they
  were read by others; tokens outlive the rows.
- *Models and costs.* Nothing that was asked for is undone by somebody else
  but by an overlapping handler; changes are noticed.
- *Billing.* Items add up to the invoice but for what is rounded, by rules
  that stood so and were valid; nothing billed changes; an export that reads
  its last page is complete. Hard: usage, rules, invoice and items are four
  statements; floats are rounded to cents one by one; a page may fail.
- *Quotas and sliding windows.* Counters tell what was recorded in their
  window, a limit holds wherever the window begins, and who waits as told is
  served. Hard: check, record and save are apart; maps forget keys to stay
  small; resets, restores and crashes come between any two steps.
- *Alerts.* A leak that goes on is told of, again after a cool-down; a trigger
  answers truly and returns. Hard: bounded histories and channels, deliveries
  that run concurrently and are retried.

## The modules

| Module | Models | Uses |
|---|---|---|
| `CircuitRules` | the breaker's methods as operators on a record | |
| `CircuitBreaker` | one breaker and its callers | `CircuitRules` |
| `FixedWindows` | the limiter's methods as operators on the store | |
| `Gateway` | requests through limiter, router, breaker, backend, charge | `FixedWindows`, `CircuitRules` |
| `StreamPromise` | abstract: what a streamed completion promises | |
| `StreamForward` | forwarder goroutine, channels and select loop; implements `StreamPromise` | `StreamPromise` |
| `ModelRegistry` | the router's methods as operators on a record | |
| `Routing` | `Route` in its steps, registrations, reloads | `ModelRegistry` |
| `Strategies` | the five strategies and their state | `ModelRegistry` |
| `DynamicRoutes` | the dynamic route manager and its history | `ModelRegistry` |
| `HealthCheck` | check loops and checks of successive routers | |
| `Lifecycle` | the process: file, watcher, reload, server, shutdown | `HealthCheck` |
| `KeyAccess` | authentication, permissions, tenants and keys | |
| `AdminAccess` | login, tokens, users | |
| `Catalog` | models, cost configurations, the poller | |
| `Billing` | logs, rules, invoices, export | |
| `SlidingWindows` | the composite limiter and its sliding windows | |
| `Quota` | quota managers, their callers and the store | |
| `Anomalies` | the detector of leaked keys | |
| `Webhooks` | the webhook manager and its deliveries | |
| `BackendProofs` (`CircuitBreaker`, `StreamForward`, `Lifecycle`, `Quota`), `GatewayProofs` (with `SlidingWindows`), `RoutingProofs` (with `Strategies` and `DynamicRoutes`), `KeyAccessProofs` (with `Anomalies` and `Webhooks`), `AdminAccessProofs`, `CatalogProofs`, `BillingProofs` | theorems | TLAPS |
| `NumberLemmas` | the largest and least of a set, ranks and pages, sums over functions: lemmas | TLAPS |
| `MC...` | instances for TLC | |

A step of a model is one critical section of the code (one lock taken and
released, one channel operation) or one statement or transaction of the
database, so the interleavings TLC explores are those of the goroutines.
Operators commented *Slip* are not part of any specification: each is the
mistake one could make in the operator after it, and shows that a property
would notice. Variables commented *history* are read by no action.

Four instances put modules side by side that do not interact: in `MCRouting`,
`MCLifecycle`, `MCLimits` and `MCAlerts` the variable `part` says which of them a
behaviour is of, and the others stand still. The states of such a run are the
sum of those of its parts. `CheckersConverge` of `MCLifecycle` restricts the
promises of `HealthCheck` to the behaviours that are of checkers.

`CircuitBreaker`: `Admit` is the handler's `Allow` (lines 586-596 of
`server.go`), `ReportSuccess` and `ReportFailure` its two reports, `Vanish` a
handler that ends without one: `ForwardRequest` panics on a response without
usage (`forwarder.go:129`, recovered by gin), or the client of a stream leaves
(`server.go:802`). The last failure is kept as the time since, up to the
recovery time, and the failure count up to the threshold, as the code asks no
more of them; so the model is finite without bounding anything. `history`
remembers streak, trial and calm for the properties and is read by no action.

`Gateway`: `pc` is where a handler is; `window` and `stamp` are the window
that `CheckLimit` or `Increment` is at and the time it read when it began,
which is old by the time it locks the store. Deciding between the healthy
backends is left free. A request refused before the limiter changes nothing.

`StreamForward`: chunks are counted. `scanned`, `sent` and `received` are what
the scanner read, what went into `chunkChan` and what the handler took out.
The two deferred closes are one step (errChan first, and always with an error
in it before, so its closing is never seen). `scanner.Err()` is `io.EOF` after
a clean end, which is why `End("clean")` reports like the others.

`ModelRegistry` and `Routing`: groups are sets of backends, and strategy names
are left out (an unknown one is refused like an unknown backend). `routers`
holds the routers of all reloads so far, since requests and administrators
may still hold an old one. `Complete` is what `New` registers, `Rebuilt` what
`ReloadConfig` does; the first has aliases and the second has none.

`Strategies`: a list is a sequence, as the order decides between equals; the
list may be another one at each call, because models share the object. `level`
and `shares` remember a row of calls with one list, and whether a backend was
ahead when it began. Lists that alternate break any rotation, and the code
promises nothing of them; neither do the properties. A share is the part of
the calls of the row that a backend's weight is of all weights (`Due`). No
backend gets a whole call more than that; none gets a whole call less when all
weigh the same, but weighted round-robin lets a backend fall behind: with five
backends of weights 1, 1, 1, 6 and 6 one of the light ones is a whole call
behind just before it is selected, and with weights 1, 1, 1, 5, 5 and 5 more
than one. After as many calls as all weights together, shares are exact again.

`DynamicRoutes`: callers one after the other, since the mutex of the manager
is not the router's. A call that is refused keeps what it assigned before it
came to what it refuses, which `Assigned` and the nested conditions of
`UpdateAlias` tell. Changes of the history are numbers.

`HealthCheck`: `loop` is where the loop of each router is; `"starting"` is a
`Run` that its goroutine has not got round to, which `Stop` does not wait for.

`Lifecycle`: four configurations, distinguished by whether `Load` and
`NewConverter` accept them. `watch` is where `watchLoop` is, with the three
parts of a reload as steps of their own (converter, closing the old router,
the new one in its place), `main` where `run()` is after a signal, `serve` the
goroutine of `Start`. `Fatal` is its `log.Fatalf`, for an address that is taken
and for `http.ErrServerClosed`, and may come before the requests are done.
Who has which configuration: `known` the watcher, `config`, `converter` and
`routes` the server.

`KeyAccess`: `copy` is the row a request authenticated with, `goal` the row it
is about to insert. `told` remembers keys that some answer showed to be dead,
and `toldFirst` what had been told when a request began.

`AdminAccess`: `copy` is the user row a handler read and may write back. A
token is a record of id, role and expiry; permissions are those of the routes
(`Demanded`). `name` and `address` are the login's, and in `creating` the new
name and the id of the creator, to whom the row refers.

`Catalog`: `call` holds what a handler read and since when; the stamp of a
write is any time since its transaction began, as PostgreSQL's `NOW()` is.
`saved` remembers what was asked for last, `overlapped` the rows that somebody
changed between a handler's read and its write, `unseen` the writes that the
poller still has to find.

`Billing`: a request uses `TokensEach` tokens, a time is a day. Prices are whole
numbers of the least price of the column (0.0001), `PerCent` of which make a
cent. What the program multiplies and adds up are floats: the amount, and
whether the float next to it is a little less (`below`), which matters at a
half cent only. `Cents` is what a DECIMAL(12, 2) column keeps of it, for each
item and for the total by itself; `subtotal` equals the total. An answer of
`GetInvoice` shows what the database kept. `CalculateBilling` is a step between
reading the rules and writing the invoice, and reads the clock once where the
code reads it for each rule; `priced` remembers it. `call` is what a handler
has read so far. Rules and invoices are in order of creation, so the rule that
applies is the latest. A failure may come at any step (`Fail`); one of an
export ends it with the pages so far (`cut`, in `ListInvoices`).

`SlidingWindows`: `at` is the limiter that a request is put to, so other
requests, cleanups and ticks come between two limiters. The fourth limiter of
the code counts requests like the others, whatever its name (`RecordTokens` is
empty), so it is one more of `Limiters`. `Oldest` is a set: Go's map order
decides between keys used in the same tick. What a request took from earlier
limiters is not given back when a later one refuses it.

`Quota`: a rule is a limit that `CheckQuota` looks at: one for each window, and
the tokens of the last window, whose reset time the code always keeps equal to
that of the requests. `saves` is the bag of goroutines with their snapshots.
The managers have no caller in the server; the order of calls (check, serve,
record, or give up) follows from the code: `RecordUsage` fails without the
state that only `CheckQuota` makes.

`Anomalies`: rates and their deviation are compared without fractions, squared
and multiplied out. Which minute is taken for the recent one is any, as the
code takes the last of an iteration over a map.

`Webhooks`: a call is a record with the deliveries it waits for; each delivery
sends, sleeps, reports its error and records its event in steps of its own.

## What the runs check

Runs have several invariants in one where the parts belong together; the
comment of each says what it consists of. Every property was also tried
against a *Slip* of the code that breaks it.

| Run | States | Shows | Bounds, and why they do |
|---|---|---|---|
| `gateway` | 81 thousand | `LimitsHold` (type, `StoreTellsTruth`, `BoundedOverrun`), `ActiveExact`, `DenialJustified`, `EveryRequestAnswered` | one key, two handlers, three windows of which two are limited, each of those turning over within `MaxTime`; a breaker that opens at one failure. Keys do not share counters, so one is enough |
| `stream` | 890 | `StreamSound` (type, `SuccessIsComplete`), `KeepsPromise`, `NobodyWaits` (`StreamAnswered`, `NoGoroutineLeft`, `LeakNeedsFullChannel`) | `Capacity` 2 and `MaxChunks` 6: the channel fills, drains and fills again |
| `routing` | 443 thousand | `RoutersSound` (type, `RegistryClosed`), `RoutesTrue` (`NotFoundIsTrue`, `ConfiguredAlwaysFound`, `RoutedWhereOffered`); `SharesFair` (type, `FairShares`, `BehindFirst`); `RoutesManaged` (`ManagedRoutesClosed`, `HistoryRecent`) | two backends to register, two names each of which may be a model and an alias, one request (requests share nothing but the routers), one reload among three configurations, one of which fails. Strategies: lists of three and two backends in different orders, weights 0 (which counts as 1) and 3, six calls, more than a cycle of most weights. Route manager: names that are model and alias at once, groups with an unknown backend, an unknown strategy; room for two of four changes |
| `lifecycle` | 15 thousand | `ProcessSound` (type, `PartsAgree`, `StoppedForGood`), `LastEditApplied`, `StopEnds`; `CheckersConverge` (`HealthFollows`, `OldCheckersEnd`, `ReloadReturns`); `BreakerSound` (type, `StreakTrips`, `TrialHasRoom`), `ChangesEarned` (`TripNeedsStreak`, `ClosesAfterTrial`, `CoolsBeforeTrial`), `ConfiguredRecovers` | four contents of the file: two good, one `Load` refuses, one the converter refuses; two edits, so that the second meets a reload of the first. Checkers: one backend (backends are checked independently), one reload. Breaker: three requests, so that one late report meets a trial of two; thresholds up to two, so that a streak and a trial can be interrupted half-way; the zero configuration |
| `admin_access` | 1.3 million | `UsersSound` (`RowsConsistent`, `RightsGranted`), `FailuresCounted`, `GuessesBounded` | two handlers at once, so that reads and writes of one row overlap; two users, one address, two failures to a lock, windows that pass within `MaxTime`; four logins, so that a lock can come, run out and come again; one refused statement |
| `key_access` | 851 thousand | `KeysSound`, `ToldIsFinal`, `AdministrationEnds` | two requests at once, the first key and two that are made; a key for good, one that expires, one without rights; four requests: make a key, use it, revoke it, try again |
| `billing` | 918 thousand | `BooksSound` (types, numbers, sums, what is shown), `ItemsPriced`, `ExportComplete`, `InvoicesFinal` | two callers, two keys and models, a rule for all and one for a key that runs out, an update that makes it a tier; pages of one invoice, so that the pages shift under an export; an item of a quarter of a cent, so that two of them are kept as nothing and their sum as a cent |
| `catalog` | 319 thousand | `CatalogSound`, `ChangesKept`, `ChangesShow` (`ChangesNoticed`, `CostsMoveOn`) | two handlers, three calls: two overlapping, and one after them; two times, so that a write can have an earlier stamp than the poll; a cost in effect and one to come |
| `alerts` | 284 thousand | `LeaksNoticed`, `AlertsFounded`; `AnswersTrue`, `TriggersEnd` | a history of four of up to five requests, so that it is trimmed; a cool-down that ends within the clock; a channel of one, so that alerts are dropped. Webhooks: two triggers to two hooks at once, with a retry, an event filter and a disabled one; room for two events of up to four |
| `limits` | 1.2 million | `WindowsHold` (type, `SlidingHolds`, `MapBounded`), `RefusalJustified`; `QuotasTell` (type, `CountsTell`), `RetryHelps`, `RecordedUnlessReset` | three keys and room for two, so that keys are evicted; windows of one and four ticks over `LastTime` 4, so that both turn over and the cleanup of the shorter finds stale keys; one request, since requests meet only inside a limiter's lock. Quota: one key (keys share nothing), two callers, so that one overruns what the other checked; windows of two and four ticks and seconds of two, so that waiting times are rounded; two records of two tokens reach both kinds of limit; two saves, so that they overtake each other |

Two runs look for a violation, and find it: what they check is what the
program's own words say, and the code does not do (deviations 18 and 20).

| Run | Claims | Finds |
|---|---|---|
| `error_rate` | `ErrorRateTrips`: with at least five reports since it closed, a closed breaker has not seen more failures than successes (`error_rate_threshold: 0.5`) | failures that are never three in a row, with a success now and then, leave it closed: `MCErrorRate` adds a count of reports to `CircuitBreaker` and changes nothing in it |
| `free_quota` | `FreeQuotaGranted`: an item charges no more than a rule for its model and key leaves beyond its free quota | the first invoice of a rule with a free quota charges the usage within it |

A bound that a run reaches (`Max...`) only ends the activity it counts: no
property depends on its value.

### Fairness

- `CircuitBreaker`: time passes and requests keep coming (weak fairness of
  `Tick` and `Admit`; `Allow` is evaluated for requests only, so without any
  the code recovers nothing either). A request that is let through again and
  again reports a success now and then (strong fairness of `ReportSuccess`):
  recovery is claimed of a backend that answers. Failures, vanishing and
  `Reset` are owed to nobody.
- `Gateway`: a handler that has begun goes on. The Go scheduler is fair to
  goroutines, no lock is held across a wait, and the HTTP client's timeout of
  120 seconds ends a silent backend. Nothing is assumed of the clock, the
  cleanup or the health checker.
- `StreamForward`: the same for the two goroutines. The timeout covers the
  body, so a read ends. Clients need not leave.
- `HealthCheck`: loops run, tickers tick, checks end (their timeout) and are
  marked. `SeeStopped` is strongly fair: it competes with the ticker in
  `select`, which is ready only once in 30 seconds.
- `Lifecycle`: `watchLoop`, `Start`, `run()` after a signal and the checkers go
  on, the debounce timer fires and the deadline of the shutdown passes.
  Edits, signals, and the end of requests are owed to nobody, so `StopEnds`
  holds with a request that never ends.
- `Catalog`: the server starts the poller, whose ticker ticks. Handlers need
  not go on.
- `Webhooks`: a delivery goes on, as every attempt ends by the client's
  timeout, and a trigger that waited for all of them returns. Webhooks may
  answer anything for ever.
- The other modules: none; their properties are about states and steps.

`CHECK_DEADLOCK FALSE` where the system really stops: a stream ends, with a
goroutine that stays blocked if its client left (`stream`); a process ends
(`lifecycle`); callers that have used up the bound on their calls, at the end
of the bounded clock, have nothing left to do (`admin_access`, `key_access`,
`billing`, `catalog`, `alerts`); and in the two runs that look for a violation.
In the other runs TLC looks for deadlocks.

## What is proved

For every value of the constants, by TLAPS:

- `BackendProofs`, first part: the type invariant and all safety properties of
  `CircuitBreaker` (`BreakerSound` and `ChangesEarned` with all their parts),
  assuming only that configurations are natural numbers. The properties are
  not inductive: they speak of what was reported, and the breaker decides by
  its counters. `CountersTell` ties the two: `failureCount` is the streak,
  capped, though a success clears it in every state; `successCount` is the
  trial while half-open; `quiet` is the calm. With the types it is inductive,
  and the step properties follow from it in one step each.
- `BackendProofs`, second part: the type invariant of `StreamForward` (so the
  channel never overflows), `SuccessIsComplete`, and that `StreamForward`
  implements `StreamPromise`, assuming a capacity of at least one.
  Strengthening: `ChunksTell`, where a chunk that was scanned and not sent can
  be (in the goroutine's hands, or dropped because the request was cancelled),
  and that a success is passed only when the goroutine is done and the channel
  empty. `NobodyEverStuck` is the part of `NobodyWaits` that needs no fairness:
  a report finds `errChan` empty, a send that finds no room has a handler that
  can take a chunk or a client that left, and a handler with nothing to take
  has a goroutine that can go on.
- `BackendProofs`, third part: `ProcessSound` of `Lifecycle`, over the health
  checkers it composes, for any contents of the configuration file, any number
  of edits, reloads and routers. A reload takes a configuration through five
  parts of the process and may fail between them; `ReloadTells` says, for
  every place of the watcher, which parts have it already, and `StoppedTells`
  whose checkers were told to stop: those of every router but the last, and
  those of the last once a reload or the shutdown has closed it. Checks of
  single backends are not part of it, as the composition has none.
- `BackendProofs`, fourth part: all properties of `Quota` (`QuotasTell`,
  `RetryHelps`, `RecordedUnlessReset`), for any keys, callers, windows and
  limits. A state of a key may be in the map, in the store or in the hands of
  a goroutine that saves it, and an old one may come back after a crash.
  `StateSound` holds of each of them: its windows are windows of the clock, and
  it counts no more than was recorded in them. Only a state in the map counts
  no less (`CountsNoLess`), and only since the key's counts were last replaced.
  The four parts share no variable; nothing is claimed of them at once.
- `GatewayProofs`: all safety properties of `Gateway` (`LimitsHold` with its
  parts, `ActiveExact`, `DenialJustified`), for any finite number of handlers
  and any keys, windows and limits. `CheckLimit` and `Increment` are separate
  and each reads the clock once for all windows, so a limit may be overrun;
  that it is overrun by one less than the handlers is proved by giving every
  handler that can still charge a window its place (`MayCharge`,
  `ChargesTell`): what was charged and who may still charge stay below limit
  plus handlers. `StoreTells` adds what a counter that is no longer asked for
  may hold, so that an old stamp cannot bring a wrong count back.
- `GatewayProofs`, second part: `WindowsHold` and `RefusalJustified` of
  `SlidingWindows`, for any limiters, keys, windows and room in the maps. A
  limiter forgets: it trims the times of a key, cleans its map up and evicts
  keys. `LimiterTells` compares what was admitted with what it still keeps from
  their ends, because both only lose what is oldest: the i-th latest request of
  a key is the i-th from the end of its times, or it left the window, or as
  many other keys as the map holds were used since.
- `RoutingProofs`: all safety properties of `Routing` (`RoutersSound` and
  `RoutesTrue` with all their parts), for any number of requests, reloads and
  names, assuming that configurations and what is registered at run time are
  of the right types and that there is room for the first router.
  Strengthening: `RequestsTell`, what a request has in its hands at each place
  between the lookups. Two facts carry it: nothing is ever taken out of a
  router (`Grows`), and what an alias is resolved to is a model because every
  router is closed. It begins with what the operators of `ModelRegistry`
  return, on which `RoutesManaged` of `DynamicRoutes` rests too: calls to the
  manager that are refused halfway leave the router closed under its
  references, assuming it was when the manager got it, and the history keeps
  the newest changes in order (`HistoryTells`).
- `RoutingProofs`, second part: `SharesFair` of `Strategies`, for any finite
  number of backends, any weights and any lists without repetitions.
  Strengthening, for each strategy, what its own numbers tell of the shares of
  a row: `Turns`, how many calls ahead the turn of a backend is; `Connections`,
  that all have the same connections beyond their shares, if they had when the
  row began; `WeightsTell`, that the current weight of each is what it gained
  in every call less what it paid when selected, but for what all began with.
  The shares add up to the calls and the weights to their total, so not every
  backend can be ahead of its share, and the one with the greatest current
  weight is not (`GreatestIsBehind`).
  The proof has found what the runs with three backends
  could not: a bound from below, as stated once, does not hold of unequal
  weights (see `Strategies` above).
- `KeyAccessProofs`: all safety properties of `KeyAccess` (`KeysSound`,
  `ToldIsFinal`, `AdministrationEnds`). A request decides by a copy of its row
  that may be out of date; `Descends` says by how much (the last use, and a
  revocation since), `Holds` what is known of a request at each step, and
  `Later` what no step takes back: that the dead stay dead follows from it.
- `KeyAccessProofs`, second part: `LeaksNoticed` of `Anomalies`, for any
  thresholds and sizes that `AnomalyAssumption` allows. It speaks of all uses
  of a key, of which the detector keeps a bounded number: `LatestOf` says that
  the history it keeps is exactly the latest of them, so that errors in a row
  and many addresses show in it (`LatestShows`), and `StateTells` that its
  last alert is the last that was raised. The assumption that the history
  holds at least `ConsecutiveErrors` and `MinSampleSize` uses is needed: with a
  smaller one these detections never fire. `AlertsFounded` rests on the same
  two facts: the requests that `detectBurstAnomaly` counts in its history have
  their places among all uses of the key (`ShownWasUsed`), so there are at
  least as many of those.
- `KeyAccessProofs`, third part: `AnswersTrue` of `Webhooks`, for any callers,
  hooks and retries, whoever registers and unregisters meanwhile. `CallTells`
  says that a call has counted as many errors as hooks that its goroutines have
  failed and reported (`Failed`), and that a goroutine that is done has
  recorded its event; `wg.Wait` then gives the answer. It assumes that
  `NoCall` is no call. From the same invariant `ErrChanAlwaysHasRoom`, the part
  of `TriggersEnd` that needs no fairness: a goroutine that failed is not among
  those counted, so `errChan` has a place for it.
- `AdminAccessProofs`: all safety invariants of `AdminAccess`. `UsersSound`
  and `FailuresCounted` rest on ids being given once (`IdsApart`, for rows and
  for users being created) and on a row, a copy or a token never knowing more
  failures or roles than its id was given. `GuessesBounded` is a sum over the
  times of a sliding window, and needs a second invariant: `LateRecords`, that
  since any time no more was compared than recorded, about to be recorded or
  refused by the database, and `WindowsHaveRoom`, which counts the logins that
  will compare a password in the window ending now. They assume finitely many
  handlers, and a limit, window and lock-out of at least one.
- `CatalogProofs`: `CatalogSound`, `ChangesKept` and `CostsMoveOn` of
  `Catalog`. Handlers write whole rows back long after they read them; `Holds`
  says that what a handler has in its hands is of a row that once had the id,
  so that a late write neither revives a row nor takes an alias, and the
  invariant is the types, unique aliases, costs with models and the two halves
  of `ChangesKept` together.
- `BillingProofs`: all properties of `Billing` (`BooksSound`, `ItemsPriced`,
  `ExportComplete`, `InvoicesFinal`), for any callers, rules, periods and size
  of a page. Usage, rules, invoice and items are four statements, so `Holds`
  says for every caller what its copy is still worth: the usage it counted is
  covered by the logs, the rules it read stood so once, and the items it is
  about to insert are those of an invoice that has none and that nobody else
  fills (`FillersApart`), and in cents come as close to its total as `AddsUp`
  says (`ChargesAddUp`, from `SumsNear` of `NumberLemmas`: numbers rounded one
  by one are off by half a unit each, and so are their sums together). `Later`, that logs, versions of rules and invoices
  are only added to, keeps all of it true while others work. An export reads
  pages that new invoices push back; its invariant is that what it has not
  listed has at least `Offset(page)` invoices above it, and `PageIsFull` of
  `NumberLemmas` that a page with fewer than `PageSize` rows has nothing
  behind it. It assumes finitely many models, and that the invoices in the
  database at first were made by this program (`InvoicesAssumption`).
- `NumberLemmas`: the largest and the least of some numbers, the ranks in a
  finite set (they are 0, 1, 2, ... without a gap), and sums over functions
  (`SumFunctionOnSet` of the community modules): of differences, of multiples,
  of ones, of numbers that are rounded. A sum is the value of a
  recursive function on sets, and the induction theorems of the library cannot
  be used; each fact is shown by looking at a smallest set for which it fails
  (strict inclusion of finite sets is well-founded).

The assumptions are the ASSUMEs of the modules, and TLC evaluates each on the
run of its module. Besides types they say that finitely many handlers are at
work where the bound speaks of their number, that `None` is no value, and for
`Billing` what the database holds when the program starts.

Only model-checked, because they rest on fairness and liveness is out of the
prover's reach: `ConfiguredRecovers`, `EveryRequestAnswered`, `NobodyWaits`,
`LastEditApplied`, `StopEnds`, `CheckersConverge`, `ChangesNoticed`,
`TriggersEnd`. Every invariant, every property of steps and the refinement
that a run checks is proved.
No module declares a RECURSIVE operator.

## Known deviations

Where the code does not do what its documents, comments or names say. The
models follow the code, so none of the properties that pass claims the
contrary. Of 18 and 20 a run shows it: there the words are plain enough to be
a property.

1. A backend registered at run time gets `CircuitConfig{}`
   (`server.go:588`): once half-open, `Allow` is `successCount < 0`. A single
   trial that never reports blocks it for good, against
   `docs/PROJECT_STATUS.md:148` (超时后自动尝试恢复).
2. `Retry-After` (`server.go:560`) is 60 / RequestsPerMinute whichever window
   refused; `api2openclaw_PRD.md:179` promises that the request works again
   after it.
3. When a stream fails, the error and the closed `chunkChan` race in `select`
   (`server.go:821`): the client may get `[DONE]`, and the breaker a success,
   for a backend that broke off.
4. A clean end reports `io.EOF` as an error (`forwarder.go:263`), and the
   success branch at `forwarder.go:280` is never reached.
5. `ReloadConfig` registers no aliases (`server.go:1217`), unlike `New`
   (`server.go:130`); and `Get` keeps the old configuration of a breaker
   (`server.go:1228`).
6. `ListenAndServe` returns `http.ErrServerClosed` as soon as a shutdown
   begins, and `log.Fatalf` (`main.go:86`) may end the process before the
   requests under way are done, against 优雅关闭 (`main.go:90`). An editor
   that replaces the file by renaming ends the watch (`watcher.go:87`).
7. Half-open bounds successes and not attempts, whatever
   `HalfOpenMaxAttempts` is called.
8. Round-robin's counter, the weights and the connection counts are shared by
   all models of a router; nobody calls `Release`, so least-connections
   counts all calls ever made; `RandomStrategy` shares a generator without a
   lock.
9. `DynamicRouteManager` locks a mutex of its own; refused calls leave half a
   change (`dynamic.go:41`); `GetAllRoutingInfo` takes its read lock twice and
   is stuck if a writer comes between; `GetRoutingInfo` shows an empty group
   for an alias without backends of its own.
10. Whole rows are written back: failed logins that overlap may count once, a
    role change may be undone by a login (`auth.go:337`, `359`), an update
    of a model that was read before a toggle takes the toggle back, two
    changes of one billing rule or cost configuration lose one. `is_active`
    of a user is not read by `Login`.
11. Deletions of models, and writes with a stamp not later than the last one
    seen, are never noticed by the poller (`reload_watcher.go:95`); nothing
    listens to the `NOTIFY`, and `OnModelsChanged` only logs. The trigger of
    migration 003 overwrites `updated_at`.
12. The response to a created key shows the expiry that was asked for, which
    is none when days were given; no permissions mean all of them
    (`auth/manager.go:60`).
13. `request_logs.id` is a BIGSERIAL and the server inserts a text
    (`<nanos>-req`): the insert is refused, and the goroutine that runs it
    ignores the error (`LogRequest` stands for rows that do arrive). The statements of `postgres_apikey_store.go` and the functions
    of migration 015 fail as well.
14. The invoice number has no key, so a second key has no invoice for the
    same months (`billing/service.go:192`); tier rules charge nothing
    (`:170`); a payment never marks its invoice as paid; the export of one
    status may skip invoices that shift while it runs. An invoice whose items
    failed stays without them.
15. A burst never alerts: the threshold is the size of the history and the
    comparison strict (`anomaly_detector.go:149`).
16. The history of webhooks grows without bound (`webhook.go:340`); a retry
    sends an emptied body (`:322`).
17. The audit middleware is added after the routes it should see.
    `EnablePlugin` registers the same converter whatever the name.
18. The error-rate threshold of a breaker (`circuit.go:31`, 错误率阈值;
    `configs/config.yaml:81`, 0.5) is passed to it (`server.go:160`, `1223`)
    and never read: `RecordFailure` (`circuit.go:96`) only asks for failures
    in a row. `TripNeedsStreak` says what the code does; run `error_rate`
    shows that a rate beyond the threshold opens nothing.
19. `invoices.total` and `invoice_items.line_total` are DECIMAL(12, 2)
    (migration 007:40, 62) and rounded one by one, so the items of an invoice
    need not add up to its total: at the default price of 0.0001, two models
    of 40 tokens are kept as 0.00 and 0.00 with a total of 0.01. `AddsUp`
    allows half a cent for each number that was rounded, and no more.
20. `free_quota` of a rule (migration 007:14, 免费配额; the form of the console,
    `BillingPage.tsx:564`) is stored and shown, and `CalculateBilling`
    (`billing/service.go:171`) charges all usage. `ItemsPriced` says what it
    charges; run `free_quota` shows that nothing is free.
21. A page of the export that cannot be read ends it like the last page
    (`billing_handlers.go:603`): the answer is a 200 with a part of the
    invoices, and nothing in it tells. `ExportComplete` claims completeness
    of exports that read their last page; of one that was cut short it says
    that only the oldest invoices are missing.

## What is not modelled

`PROJECT.json` lists every part with its status. Left out for good:

- pure conversions of text (`internal/converter`, apart from the fact that
  `NewConverter` may fail), cryptography, SQL queries and HTTP glue that
  change nothing, metrics, latency, CSV output, logs, TLS;
- code that no statement or route reaches: the non-chat stream handler, the
  access control of `internal/security`, deploy guides, the token bucket,
  `CheckNow`, `RouteWithKeyRestriction`, `RouteToBackend`,
  `Router.ForwardRequest`, `ResetCounter`;
- code that fails on every call against the migrations, so that there is no
  state to follow: the console's API keys and the quota store;
- plugins: a map under one lock whose converters nobody asks for;
- data races, but for `RandomStrategy`: the unsynchronised reads of
  `s.modelRouter` and of `BackendGroup` return an old or a new value, which
  the interleavings contain.

Within modelled parts: strategy names in `ModelRegistry`, metrics, response
headers, tax, discount and currency, e-mail and hashes of users, the limits of
a key (constants of `Gateway`), a process without hot reload, a file that is
replaced instead of written.

The gateway, its keys and its billing are checked apart: they share the key,
which a request reads once (`KeyAccess`) and then only carries along, and the
log, which billing reads later (`LogRequest`). `Lifecycle` is the composition
of the reload with the health checkers, `Gateway` that of limiter, router and
breaker.

## What could come next

- The liveness properties, with provers that reach `ENABLED`; `NobodyEverStuck`
  and `ErrChanAlwaysHasRoom` are the facts about waiting that they rest on.
- Two hazards have no property: `Get` keeps a breaker's old configuration over
  a reload (deviation 5), and `RandomStrategy` shares its generator
  (deviation 8). They are what the code does.
- More of the deviations as runs that look for a violation, where a document is
  as plain as in 18 and 20.
