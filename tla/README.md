# Formal specification of taripay-gateway

TLA+ models of the gateway that turns Tari wallet events into invoice statuses
and signed merchant webhooks, checked with TLC on small instances; what they say about
safety is moreover proved with TLAPS for every instance.

```
tlc -workers 2 -config MCWatcher_one.cfg MCWatcher.tla     # one run
tlapm WatcherProofs.tla                                    # the proofs
```

`PROJECT.json` lists, for every definition, the source lines it models; every
run with its properties; for every checked property a *mutant*, a plausible bug
of the code under which TLC finds the property violated; and the hazards the
properties are aimed at. The mutated forms stand next to the definitions they
replace, named `<Definition>_<Bug>`; no specification uses them.

## 1. Inventory

The gateway is one process: goroutines that share a PostgreSQL database and know
nothing else of each other.

| Component | State | Operations | Hard part |
|---|---|---|---|
| **Event watcher** `internal/eventwatcher/watcher.go` | locals of the call in progress; everything else is in the tables | `Run` (event stream), `Reconcile` (wallet query), both into `handleTransaction` | four database statements per event with the TTL sweep, the clock and crashes in between; repeated and lost events |
| **Supervisor** `cmd/gateway/main.go:351`, `watcher.go:183` | backoff, the two channels of the stream | Reconcile, Run's select, wait, again | reports in the gap between Reconcile and the stream; a wallet that does not answer Reconcile; which of two ready channels is looked at first |
| **Invoice store** `internal/invoice/invoice.go` | `invoices` | `Create`, `updateStatus`, `AddReceivedAmount`, `ExpireStale`, lookups | check-then-insert; unconditional UPDATE |
| **TTL sweep** `main.go:442` | none | `ExpireStale` every minute | the second writer of `invoices.status` |
| **Webhook deliveries** `internal/webhook/webhook.go` | `webhook_deliveries` | `CreateTx`, `Attempt`, `MarkDelivered`, `MarkFailed`, `IncrementAttempts`, `ListRetryable` | nobody claims a row: watcher, retry loop and admin may attempt it at once |
| **Retry loop** `main.go:407` | the list of the pass | `RetryFailedDeliveries` | works through a list read up to minutes earlier |
| **Webhook sender** `webhook.go:324` | none | HTTP POST with an HMAC, 10 s | accepted, but the answer is lost |
| **Admin UI** `internal/admin` | none | retry button; pages that only read | concurrent with the two above, other URL rule |
| **HTTP API** `main.go:608` | none | `POST /invoice`, `GET /invoice/{id}`, `GET /health` | one goroutine per request, carts that retry; a health check that asks two dependencies one after the other |
| **Startup, configuration** `internal/config`, `main.go:140` | configuration | load, check, connect, migrate, listen | four sources per setting; failures at every step; restart with another configuration |
| **Migrations** `internal/db` | `schema_migrations` and the schema | `Migrate`, `MigrateDown` | check outside the transaction, two starts at once, crashes between versions |
| **Shutdown** `main.go:257` | none | cancel, close the listener, close the pool | main does not wait for handlers, the pool waits for their connections |
| **Health check** `cmd/healthcheck` | none | ask `/health`, 5 s | must answer although what it asks about does not |
| Image, CI | none | — | — |

How they interact:

- The wallet talks to the watcher over a stream (lost while disconnected) and by
  answering Reconcile. Each transaction carries a payment id, the invoice's id.
- The watcher writes an invoice's status and the delivery row in one database
  transaction, then attempts the row. The running total is a statement of its
  own, committed before.
- The sweep writes `invoices.status` behind the watcher's back.
- The retry loop and the retry button read and write the rows the watcher made.
- `POST /invoice` creates the rows the watcher looks up, and reuses an active row
  of the same order.
- Gateways started on one database meet in `schema_migrations`, and in the address
  they listen on.
- A handler that holds a connection of the pool delays the end of `main`; the
  container's health check is a client of `/health`.

What makes each correct:

- *Watcher and sweep*: an invoice is confirmed only if its total covers it, in
  time, on the word of its own inbound transactions; verdicts are final; the
  merchant's newest delivery row is the invoice's status, with no repeats;
  unpaid invoices lapse; known payments are counted.
- *Deliveries*: a row says delivered only if the merchant accepted; every request
  is in the counter; the loop respects its cap; no row is forgotten; duplicates
  have one of two nameable causes.
- *Orders*: one active invoice per order unless requests overlapped; an answer
  names an existing invoice of the order with the amount it was created for.
- *Invoices and deliveries together*: a verdict the merchant accepted stands; news
  arrive in order unless there was trouble with a delivery.
- *Supervisor*: what an outage hid is brought back by the next Reconcile; a broken
  stream is told from one that ended; a signal ends the goroutine, unless a call of the
  wallet that is never answered keeps it.
- *Startup and migrations*: `schema_migrations` tells the truth; no gateway serves on
  half a schema, or with a setting its operator did not make; two starts do not
  stop each other.
- *Health and shutdown*: a healthy verdict is not older than the check; a check
  ends, and so does its handler when the client gave up; a gateway told to stop ends
  although the wallet hangs.

## 2. Modules

| Module | Models | Role |
|---|---|---|
| `StatusMap` | `mapStatus`, `transactionInfoStatusText` | pure: wallet status to verdict |
| `Watcher` | watcher, supervisor order, sweep, wallet, clock, crash | the core state machine |
| `InvoiceLifecycle` | — | abstract specification of what a merchant may rely on |
| `MCWatcher` | — | instances of `Watcher`, claims of the repository that fail |
| `WatcherProofs` | — | theorems about `Watcher` |
| `WatcherRefinement` | — | proof that `Watcher` implements `InvoiceLifecycle` |
| `Delivery`, `MCDelivery` | delivery rows and their three kinds of worker | state machine, instance |
| `DeliveryProofs` | — | theorems about `Delivery` |
| `Gateway`, `MCGateway` | invoices that change status, and the webhooks that tell of it | composition of `InvoiceLifecycle` and `Delivery` |
| `GatewayProofs` | — | theorems about `Gateway`, on top of `DeliveryProofs` |
| `Orders`, `MCOrders` | `POST /invoice` and `Create` | state machine, instance |
| `OrdersProofs` | — | theorems about `Orders` |
| `Supervisor`, `MCSupervisor` | `runEventWatcherWithBackoff`, the select of `Run` | state machine, instance |
| `SupervisorProofs` | — | theorems about `Supervisor` |
| `Config` | `parseFlags`, `config.Load`, `checkWebhookConfig`, who may use the admin routes | pure operators over the layers of a launch |
| `Startup`, `MCStartup` | `main`, `db.Connect`, `Migrate`, `MigrateDown`, for several processes | state machine over `Config`, instance with launches |
| `Process`, `MCProcess` | requests, `/health`, its client, wallet and database outages, shutdown | composition: `Startup` and what goes on in a gateway that serves |
| `StartupProofs` | — | theorems about `Startup` |
| `ProcessProofs` | — | theorems about `Process`, on top of `StartupProofs` |

### StatusMap

`mapStatus` upper-cases a text and looks for phrases with `strings.Contains`, in
an order that matters. Two wire formats of the wallet's enum meet in it. Every
phrase consists of whole words, so a text is the sequence of its words, and
`Contains` is a sub-sequence test; `ONE-SIDED` is one word. `FUTURE` stands for an
enum value the gateway does not know, which falls into the default case and is a
rejection.

### Watcher

State and code:

| Variable | Code |
|---|---|
| `invoices[i]` | a row: `status`, `confirmed` (is `confirmed_at` set), `received` |
| `notices[i]` | payloads of the invoice's `webhook_deliveries` rows, oldest first |
| `chain`, `reported` | the wallet: current status of a transaction; all it ever reported |
| `connected`, `stream` | the event stream and its unread events |
| `phase`, `todo`, `batch` | where the supervisor and `Reconcile` are |
| `step`, `job` | where `handleTransaction` is, and its locals |
| `counted` | history: additions of each transaction to a total |

`handleTransaction` is cut where it talks to the database, because others run
there: **lookup** (`LookupFinds` takes the snapshot and applies the terminal
guard; `LookupSkips`, `LookupFails`), **add** (`AddReceivedAmount`, then the amount
and TTL checks on the returned total, in `Decide`), **write** (`ExpireLatePayment`,
`RewriteStatus`, `UpdateWithoutWebhook`, `updateStatusAndCreateDelivery`,
`WriteFails`). Every statement may fail before or after its commit; failing after
the commit of the status write leaves what success leaves, so it has no action.
`Restart` drops all that the process holds, at any step.

Abstractions: one clock for `time.Now` and SQL `now()`; a single gateway process;
invoices exist from the start (creation is `Orders`' subject); `todo` and `batch`
are sets, so every order of handling is explored; the supervisor's backoff is not a
step: it takes time, and time may pass at any step. The value of `confirmed_at` is
reduced to whether it is set; the time at which a call decided to confirm is kept in
`job.checkedAt` for a property.

### InvoiceLifecycle, and the refinement

Two variables: a status and the list of announced statuses per invoice. A
transition is announced in the step that makes it; expiry is silent and undone by
a late event; `confirmed` and `rejected` are the end. `Watcher!ImplementsLifecycle`
is that specification with `status` read from `invoices` and `announced` from
`notices`: totals, wallet, stream and all intermediate steps of `handleTransaction`
become stutters. It holds with a callback URL configured; without one, nothing is
announced and the mapping does not apply.

### Delivery

Workers (`watcher`, `retry`, one per admin request) run `Attempt` as three steps:
increment, send, mark; any number of them on one row. `rows` is the table;
`target` and `answer` are a worker's locals; `listed` is what the retry loop read
at the start of its pass. A statement may fail before or after its commit: after that of
the counter, the attempt is counted and nothing is sent. `callbackURL` changes only with a restart. Ageing
(`DefaultRetryMaxAge`) happens at any moment, which covers every age. Histories
record what the merchant really got.

### Gateway

`Announce` is one step of `InvoiceLifecycle` and of `Delivery!Create` together: the
database transaction both are abstractions of. `AnnounceToNobody` is the same change
in a process without callback URL. All steps of `Delivery` go on as they are.
`Watcher` implements the lifecycle (theorem `LifecycleIsImplemented`), so what holds
here of a status holds of the rows the watcher writes. Histories record which row the merchant
accepted last and which rows had an attempt that ended without a 2xx.

### Supervisor

`pc` is where the goroutine is: at a look at the context (`head`, `reconciled`,
`returned`), in `Reconcile` (`reconcile`, its query of the database; `loop`, the look at
the context before each invoice; `query`, the call of the wallet), about to `open` the
stream, in Run's select (`run`) or in the `wait`. Each report is about an invoice, and
`pending` are the invoices Reconcile has not asked about yet. The wallet may stop
answering (`wallet`), for a while or for ever; the call of `watcher.go:572` has no context
and no timeout, so neither a signal nor the clock ends it. The stream is
`eventsCh` with its buffer, `errCh` (empty, an error, closed) and the library's goroutine `wire`, which sends an error or closes `errCh`, and closes
`eventsCh` last. The select picks any ready case. `handled` is the set of reports that
reached `handleTransaction`; what it does with them is `Watcher`. Reading a closed
`errCh` is a turn of the loop that changes nothing. `gap` are the reports made since
Reconcile asked about their invoice and before the stream was open.

### Config

A layer is a function from the settings to their values. Numbers and strings follow
one rule, the first layer that sets a value wins, with `Unset` for the empty string
and the nil pointer; a number set to 0 is set. An environment variable that is no
number fails `Load`, a file that cannot be read or parsed too. Files are read once, so
a running gateway's configuration is a function of its launch.

### Startup

Each process is a record: launch, `pc` (a label per statement of `main`, `Connect` and
`Migrate`), `at` (the loop's version), `signalled`. `schema` and `recorded` are what is
committed; an open transaction is the process that is at `applied` or `unrecorded`, so
its end is the rollback. `Apply` waits for another open transaction on the same version
(Postgres makes the second `CREATE TABLE` wait on the first one's catalog rows) and
fails once that has committed. `CREATE TABLE IF NOT EXISTS` is a look and a creation,
between which Postgres lets another session in. `log.Fatalf`, a crash and a statement
that fails on its own are one action, `Crash`; statements that fail because of the
signal or a database that is down are `StatementFails`. A database that hangs holds
whatever is asked of it. `MigrateDown` runs alone, as in the tests, and may stop after
any version.

### Process

A request is where it waits: `lookup` and `insert` hold a connection, `resolve`, the
wallet call, does not and has no context. The health check has two ends: the client
(`asking`) and the handler (`wallet`, then `db`). A client that gives up leaves its
handler behind (`left`): it goes on waiting for the wallet, and its ping then fails at
once, because the context ended with the client. Handlers left behind at the same place
are one element and go on together. `Orphaned`
says what a process takes along when it ends. The watcher, the sweep and the retry loop
run their statements under the signal's context, so that they give their connections
back when the gateway is told to stop; only handlers can keep one.

### Orders

Each request runs `Create` in steps: look for an active invoice of the order,
resolve an address, insert. The cart is unconstrained: it may send the next
request before, after or instead of reading an answer, which is what a
lost-response retry is. A cancelled context shows as a failing statement; the
wallet call has no context and goes on. Amounts are two's complement of width
given by `MaxInt64`. `open` stands for seen and underpaid, `closed` for the
terminal statuses; `Reopen` is the watcher's overwrite of the sweep's `expired`,
a step taken from `Watcher`.

## 3. Runs

Passing runs:

| Run | Instance | Shows |
|---|---|---|
| `watcher_one` | one invoice of 2, payments of 2 and 1; statuses broadcast, confirmed, rejected; 4 wallet actions, 1 failed call, 1 stop, 2 clock values | `TypeOK`, `ConfirmedOnlyWhenCovered`, `ConfirmedAtIffConfirmed`, `LastNoticeMatchesStatus`, `NoRepeatedNotice`, `SettledIsFinal`, `ConfirmsOnlyInTime`, `NoticeTellsLedger` |
| `watcher_two` | two invoices that expire at different times, their payments and one to neither; 3 wallet actions, 1 failed call, 1 stop | `VerdictHasEvidence`, `ImplementsLifecycle` |
| `watcher_statuses` | all 16 statuses, an inbound and an outbound transaction with the same payment id | `VerdictHasEvidence` |
| `watcher_live` | 3 wallet actions, 1 failed call, 2 stops, weak fairness | `StaleLeaves`, `KnownPaymentIsCounted` |
| `delivery_safe` | 2 rows, watcher, loop and one admin; cap 2; 1 fault, 1 restart | `TypeOK`, `DeliveredIsTrue`, `AttemptsCoverSends`, `AutomaticAttemptsCapped`, `DuplicatesNeedOverlapOrLoss` |
| `gateway_live` | one invoice, 2 announced changes, watcher and loop, a restart with or without callback URL, weak fairness of the loop | `VerdictStands`, `InOrderUnlessRetried`, `EveryRowIsResolved` |
| `orders_safe` | 3 requests, 2 orders, amounts of a 3 bit width; 1 fault, 1 restart | `TypeOK`, `SecondActiveNeedsOverlap`, `AnsweredInvoiceIsTheOrders` |
| `supervisor_live` | 3 reports about 2 invoices, 3 streams that break or end, 1 failed query, a wallet that hangs once, a signal; waits of 1, 2, 3 | `TypeOK`, `OnlyTheGapIsMissed`, `CleanEndDropsNothing`, `ErrorIsReported`, `ReportIsHandled`, `StopsWhenCancelled` |
| `startup_live` | 2 processes, 3 migrations of which any beginning is there, 3 starts, 2 troubles, 6 launches | `TypeOK`, `SchemaIsRecorded`, `SchemaIsPrefix`, `ServesFullSchema`, `ServesAsConfigured`, `SomeoneServes` |
| `process_live` | 1 process, 2 starts, 3 troubles, a request and a health check at a time, handlers left behind | `HealthyMeansReady`, `ProbeEnds`, `HandlersEnd`, `ShutdownEnds` |

Why the bounds are enough to be of interest: the payments of `watcher_one` make
every outcome of the amount check possible, alone (2), never (1), and together or
by repetition (1 + 1); four wallet actions cover broadcast, confirm, repeat and a
second transaction; clock values 0 and 1 lie on both sides of `expires_at`; one
fault and one stop can strike at each step. Two invoices are the fewest with
something to confuse. A cap of two attempts separates the first attempt, the last
and the one too many. Three requests let a retry follow two that overlapped. Two
changes of an invoice are the fewest that can arrive out of order. Three streams let
an outage follow one whose Reconcile failed, and the third wait is the capped one; two
invoices let a report come between the two calls of Reconcile.
Two processes are enough for a race, three starts for a third one that finds what the
race left, three migrations for one before and one after the one at stake, two
troubles for a database that is lost while a process crashes. In `process_live` three
troubles let the wallet hang, the database go and the signal come in one behaviour.
Every safety and action property of these runs is moreover proved for all instances
(section 5), so the bounds matter only to liveness.

Deadlock checking is off: with the bounds used up the gateway waits for ever,
which is its normal state.

**Fairness.** `watcher`: the goroutine is a loop that waits for nothing but wallet
and database, and the scheduler runs it; a failed call is a step, not a stop. In
`Watcher` every call returns, with an answer or an error: `StaleLeaves` does not need
it (the sweep is another goroutine), `KnownPaymentIsCounted` does.
`ExpireStale`: a ticker. `retryLoop`: a ticker, and each send ends within the
client's 10 seconds. `supervisor`: the goroutine again, but a call of the wallet is a
step only while the wallet answers, and nothing makes it answer; `CloseEvents`: the library
closes both channels once a stream is over; `SelectDone`: Go's select picks at random,
so a context that is done is not overlooked for ever, however full the buffer.
`startup`, `process`, `request`: main and a handler run when what they wait for
answers. `ProbeTimesOut`: the client's timer; the steps of a handler whose client waits
are not assumed to come in time. `LeftWallet`, `LeftPing`: handlers left behind, each a
goroutine of its own. Nothing restarts a gateway: the repository has no restart policy, so starts
are not fair. Nothing is assumed of the wallet, the clock, the network, the
merchant or the process's stops (finitely many, `MaxStops`, `MaxRestarts`), nor of
the other workers.

Three liveness properties name what they cannot promise. `KnownPaymentIsCounted`: an
event whose lookup fails is dropped, and comes back with the next Reconcile only, so the
promise starts anew after each failed call. `ReportIsHandled` and `StopsWhenCancelled`:
a call of Reconcile that the wallet never answers keeps the goroutine, before its stream
is open and after SIGTERM; the goroutine then ends with the process, since main does not
wait for it. `HandlersEnd`: a handler left behind waits for the wallet as long as it hangs.

Runs that are expected to fail, each a statement of the repository that the code
does not keep:

| Run | Statement | What TLC shows |
|---|---|---|
| `watcher_terminal_final` | "once an invoice reaches any of these, no later wallet event may change its status again" (`invoice.go:104`) | lookup, sweep, write: expired becomes seen. `SettledIsFinal`, proved, is what remains true |
| `watcher_underpayment` | "underpayment does NOT confirm" (`watcher.go:325`) | one half payment, announced as Mined Confirmed and once more, is added twice and confirms |

Further statements that the code does not keep, met while modelling. Each has a
property above that says what does hold:

| Statement | What happens | What holds |
|---|---|---|
| Reconcile runs before every reconnect "since that reconnect window is exactly the downtime this closes" (`main.go:337-340`) | a report made between Reconcile's query and the opening of the stream is in neither, for as long as the stream lives | `OnlyTheGapIsMissed`, `ReportIsHandled` |
| "the added latency before the live stream (re)opens is not a practical concern" (`main.go:346-349`) | the calls of Reconcile have no timeout (`watcher.go:572`): with a wallet that hangs there, the stream does not open and a signal does not end the goroutine | `ReportIsHandled`, `StopsWhenCancelled`: nothing else keeps it |
| "firing a webhook exactly once per invoice-status transition" (`watcher.go:3`) | the loop lists the row the watcher is attempting; both are accepted | `DuplicatesNeedOverlapOrLoss` |
| "a retry on an old row must follow the rotation" (`admin.go:70`) | the automatic retry uses the URL stored in the row; only the button follows the rotation | — |
| "Backoff resets to eventWatcherInitialBackoff after every restart attempt" (`main.go:329`) | the loop doubles the variable and never sets it back (`main.go:386`); after five short outages every reconnect waits 30 s | `TypeOK` of `Supervisor`: never more than the cap |
| `healthCheckTimeout` bounds "how long GET /health's handler will wait on the wallet-connectivity/DB-ping checks", which should "never ... hang indefinitely on a wedged dependency" (`main.go:578-582`) | the wallet call takes no context (`main.go:702`): the handler hangs with the wallet, and one more with every check | `ProbeEnds`: the client's timeout ends the check; `HandlersEnd`: the handlers end once the wallet answers |
| missing webhook settings are warned of, "not failing startup" (`config.go:66`) | a URL without a secret is fatal (`main.go:305`), as `checkWebhookConfig` documents | `ServesAsConfigured` |
| "set the -postgres-dsn flag" (`config.go:165`), `-confirmation-depth`, `-invoice-ttl-minutes` (`config.go:37`, `config.go:43`) | `parseFlags` registers none of them | `Config!LaunchAssumption` |

Known and documented in the code, or minor, hence without a run: a full payment
counted twice when the process stops between `AddReceivedAmount` and the status
write (`watcher.go:548` says there is no dedup); `MarkFailed` leaves `delivered_at`
of a row another worker had delivered (`webhook.go:205`), so a failed row may carry
a date, truthfully by `DeliveredIsTrue`; with the callback URL unset the loop still
sends old rows (`main.go:276`); two overlapping creations of one order
(migration 0004 accepts them). `SecondActiveNeedsOverlap` adds a second way to two
active invoices that no comment mentions: an expired invoice that the watcher
brings back after the order got a new one.

## 4. How the properties were chosen

Each aims at a hazard in `PROJECT.json` and needs several steps of several actors to
fail. The ones most worth arguing about:

- `ConfirmedOnlyWhenCovered` relates a verdict to a total another statement wrote
  earlier, and `NoticeTellsLedger` both to the payload composed from the snapshot.
- `SettledIsFinal` is not a consequence of the guard: the guard reads a row
  statements before the UPDATE. It holds because the only other writer, the sweep,
  does not produce a settled status and does not touch one.
- `LastNoticeMatchesStatus` must survive sweep and overwrite: the overwritten status
  is the one last announced.
- `DuplicatesNeedOverlapOrLoss` is the strongest at-most-once the code allows.
- `AttemptsCoverSends` counts requests under way and crashes between the steps.
- `InOrderUnlessRetried` bounds how confusing the deliveries may be to a merchant that
  believes the last one: it names every way old news can overtake newer ones.
- `CleanEndDropsNothing` and `ErrorIsReported` are about a race of two channels that a
  test would have to win: the closing order of a library and a random select.
- `SomeoneServes` is what an operator who starts two gateways needs although the
  migrations have no lock: the loser's error ends the loser alone.
- `HealthyMeansReady` does not say that both dependencies were up at once, which the
  handler cannot know; it says that neither was out all along.

## 5. Proofs

Every invariant, action property and refinement that a passing run checks is also
proved, for any sets of invoices, transactions, requests and workers, any amounts and
expiry times, any number of migrations, processes and rows, and any bounds.

| Module | Theorem | Property |
|---|---|---|
| `WatcherProofs` | `TypeCorrect` | `Spec => []TypeOK` |
| | `ConfirmedIsCovered` | `Spec => []ConfirmedOnlyWhenCovered` |
| | `ConfirmedAtIsTruthful` | `Spec => []ConfirmedAtIffConfirmed` |
| | `SettledStaysSettled` | `Spec => SettledIsFinal` |
| | `ConfirmationIsInTime` | `Spec => ConfirmsOnlyInTime` |
| | `NewestNoticeIsCurrent` | `Spec => []LastNoticeMatchesStatus` |
| | `NoticesDoNotRepeat` | `Spec => []NoRepeatedNotice` |
| | `NoticesTellTheLedger` | `Spec => NoticeTellsLedger` |
| | `VerdictsRestOnEvidence` | `Spec => []VerdictHasEvidence` |
| `WatcherRefinement` | `LifecycleIsImplemented` | `Spec => ImplementsLifecycle`, given a callback URL |
| `DeliveryProofs` | `DeliveryTypeCorrect` | `Spec => []TypeOK` |
| | `DeliveredIsAlwaysTrue` | `Spec => []DeliveredIsTrue` |
| | `CounterCoversSends` | `Spec => []AttemptsCoverSends` |
| | `RetriesAreCapped` | `Spec => []AutomaticAttemptsCapped` |
| | `DuplicatesAreExplained` | `Spec => []DuplicatesNeedOverlapOrLoss` |
| `GatewayProofs` | `GatewayIsADelivery` | `GatewaySpec => Spec` of `Delivery` |
| | `GatewayKeepsTheLifecycle` | `GatewaySpec => Spec` of `InvoiceLifecycle` |
| | `VerdictsStand` | `GatewaySpec => []VerdictStands` |
| | `NewsComeInOrder` | `GatewaySpec => []InOrderUnlessRetried` |
| `OrdersProofs` | `OrdersTypeCorrect` | `Spec => []TypeOK` |
| | `AnswersAreRight` | `Spec => []AnsweredInvoiceIsTheOrders` |
| | `SecondActiveIsExplained` | `Spec => []SecondActiveNeedsOverlap` |
| `SupervisorProofs` | `SupervisorTypeCorrect` | `Spec => []TypeOK` |
| | `MissedIsInTheGap` | `Spec => []OnlyTheGapIsMissed` |
| | `CleanEndIsComplete` | `Spec => []CleanEndDropsNothing` |
| | `BrokenIsReported` | `Spec => []ErrorIsReported` |
| `StartupProofs` | `StartupTypeCorrect` | `Spec => []TypeOK` |
| | `SchemaAlwaysRecorded` | `Spec => []SchemaIsRecorded` |
| | `SchemaAlwaysPrefix` | `Spec => []SchemaIsPrefix` |
| | `FullSchemaIsServed` | `Spec => []ServesFullSchema` |
| | `ConfigurationIsServed` | `Spec => []ServesAsConfigured` |
| `ProcessProofs` | `SchemaUnderHandlers` | the three schema invariants of `Startup`, under `ProcessSpec` |
| | `HealthyIsReady` | `ProcessSpec => HealthyMeansReady` |

Assumed are only the ASSUMEs of the modules about their constants, which TLC evaluates
on each run: bounds and amounts are numbers, invoice amounts positive, a payment id that
is no invoice's, at least one migration, an attempts cap of at least one, names of
workers that differ, and finitely many uses of the retry button at a time (the attempts
under way are counted, so that there must be a number of them). The one further
hypothesis is `WebhookConfigured` in `LifecycleIsImplemented`: without a callback URL
the watcher announces nothing, and the mapping does not apply.

**Watcher.** None of the properties is inductive by itself: whether a write confirms
rightly depends on what the call learned before. `CallKnows` says what a call knows
between its statements. Its core is that while a call is past its lookup, the row
has *the status of the snapshot or `expired`*, and *the total the call last read*:
the sweep is the only other writer, it only writes `expired`, and nobody else adds
to a total. From it follow that the write does not hit a settled row, that the
total covers the amount when `confirmed` is written, and that the payload agrees
with the row. `LedgerInv` is `TypeOK`, `CallKnows` and the two row invariants.
`NoticeInv` adds the delivery rows: unless an invoice is expired, the status last
announced is its status, and the snapshot of a call in progress is the status last
announced, even if the sweep has acted since. This is why an overwrite of `expired`
neither repeats a notice nor leaves one stale.

`EvidenceInv` follows a wallet status from its report to the row: what the stream, the
batch and the call in progress hold was once said by the wallet (`WalletInv`,
`CallHasEvidence`), however old it is when it is used. The last link is
`VerdictRests`: of all status texts `mapStatus` confirms only those of the two confirmed
statuses, and rejects only those of the two failures and the unknown value. It is proved
by looking for every phrase in every text, since there are finitely many of both.

Layout: `StepCases` sorts the 20-odd actions into the eight that touch a table or
advance a call, and `Quiet`; `UpdatedRow`, `AddedRow`, `SweptRow` say what the three
kinds of UPDATE do to a row; `NoticeSteps` what happens to delivery rows;
`EvidenceCases` what happens to reports on their way. The inductive steps have one case
per remaining action.

**Refinement.** The guards of `InvoiceLifecycle` speak of the status last announced,
those of the watcher of a snapshot taken statements earlier. `NoticeInv` makes them the
same. `ExpireStale` is the abstract expiry, the write of the delivery row an
announcement, the rewrite of an expired status a restoration; everything else the
goroutine does between its statements is a stutter.

**Delivery.** Nobody claims a row, so the invariant says what follows from who holds it.
The requests made and the workers at `send` are at most the counter, by the cardinality
of a set of workers that gains and loses one at a time. The cap rests on the list of a
pass: it has a row once and only below the cap, and automatic attempts are never more
than the counter the query reads (`PassInv`). For duplicates, a row that is not excused
was never in two hands (`OneHand`): once it is accepted, either it says so and nobody
holds it, or the one worker that holds it has the 2xx and is about to record it.

**Gateway.** Its steps are steps of `Delivery` and of the lifecycle (the first two
theorems), so `DeliveryInv` is used as it is. `VerdictsInv` says that a verdict is the
last thing an invoice announces and its status from then on; with the numbering of the
rows in `NewsInv`, two accepted verdicts are one. Order needs more: while the watcher
attempts a row there is no later one (`LatestInv`), and a row without trouble is either
in the watcher's first attempt or delivered and in nobody's hands (`UntroubledInv`); so
an older row that is accepted later is one with trouble.

**Orders.** A row keeps its order and amount, is inserted as its own request ends, and is
never deleted. `AloneInv` is what a handler knows after its lookup: the rows it saw are
of other orders, inactive, or were reopened since. That the lookup finds an active row if
there is one rests on the row with the latest creation being in the set; `LeastElement`
gets this from the well-foundedness of `<`, in place of an induction.

**Supervisor.** What Run returned can be trusted because of the state it leaves the
channels in: `ChannelsInv` (an error is in the channel before the events channel
closes), `ResultInv` (a clean end was read off a closed and empty buffer). `GapInv`
says that during and after Reconcile all that is not handled is about an invoice still
pending or was reported in the gap, and that none is pending once the stream is about to
open: Reconcile leaves invoices out only when the context is done, and the look at the
context after it then returns. That is what `OnlyTheGapIsMissed` starts from.

**Startup.** `Migrate` looks up a version outside the transaction that applies it, so
the answer may be old when it is used. `MigrationInv` adds what survives that: a
process has the versions before its own under it (`Knows`), one with an open
transaction has a version that is not committed, and no two have the same one open
(`OneTransactionPerVersion`), because Postgres makes the second CREATE wait for the
first and then fail. A commit therefore adds exactly the next version
(`CommitKeepsInv`): that keeps the prefix, and it cannot happen once a process serves,
since the schema is full by then. `MigrateDown` removes an end of the prefix, with no
process running. `OneMoves` reduces every other step to what the one process that
takes it knows afterwards. For the configuration, `ConfigInv` says that a process past
`load` was launched in a way main accepts; the rest is a fact about the layers.

**Process.** Every step is a step of `Startup` or leaves its tables and processes alone
(`ProcessSteps`), so `MigrationInv` holds here too. `ReqInv` and `ProbeInv` tie a request
and a probe to a process that serves or drains: a process that serves goes on serving,
drains, or is gone (`ServingStays`), so that whoever answers has the whole schema. For
`HealthyMeansReady`, `ProbeInv` keeps of the check's first half what its second half
needs: a wallet that answered is not noted as out.

**Only model-checked** are the liveness properties: `StaleLeaves`,
`KnownPaymentIsCounted`, `EveryRowIsResolved`, `ReportIsHandled`, `StopsWhenCancelled`,
`SomeoneServes`, `ProbeEnds`, `HandlersEnd` and `ShutdownEnds`. They rest on fairness, hence on ENABLED,
which the provers cannot treat.

## 6. Not modelled

- The backoff's durations in seconds: the wait ends when it ends.
- `GET /invoice`, the admin pages and their templates, the HMAC signature, JSON and log
  texts: they change no state. The wording of the answer to a retry
  (`admin.go:445`) is read from the row after the attempt and may describe the outcome
  of another worker's.
- `Shutdown`'s wait of 5 seconds: main does not wait for it (`main.go:264`), so it has no
  effect but to close the listener. Handlers that are cut off are the restarts of the
  other modules.
- The number of `/health` handlers that outlive their clients: the model has that some
  do, and where they wait. While the wallet hangs every check adds one, which costs
  memory and no connection.
- Use of the configuration that has none: `ConfirmationDepth` is resolved and never read.
  An `InvoiceTTLMinutes` of 0 or less is accepted; invoices are then born lapsed, which
  `Watcher` covers (an expiry at the time of creation).
- Gateways of different releases on one database, and `MigrateDown` beside a running
  gateway: nothing in the repository does either.
- Range of the running total: the supply of the currency, in its smallest unit, is a
  fraction of what BIGINT holds, so a sum of payments cannot leave it.
- Image, CI: no run-time state.

## 7. Plan

Done: `StatusMap`, `Watcher`, `InvoiceLifecycle`, `Delivery`, `Orders`, `Gateway`,
`Supervisor`, `Config`, `Startup`, `Process`, and the proofs of all their safety and
action properties and of the refinement. What is left:

1. State in `GatewayProofs` that the invoices of `Gateway` are all that a merchant's
   view of `Watcher` needs: theorems of `InvoiceLifecycle` of its own (a verdict is the
   last announcement, no status is announced twice in a row), proved once from the
   abstract specification and used by both.
2. The safety half of the liveness arguments: that a row which is not resolved is
   always listed by the next pass (`EveryRowIsResolved`), and that a gateway told to stop
   waits for nothing but a handler that holds a connection (`ShutdownEnds`).
