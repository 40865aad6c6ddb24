# A TLA+ model of the release-notification service

The service lets people subscribe, by e-mail, to the releases of GitHub repositories.
Two processes run: a Go monolith (HTTP API, saga orchestrator, outbox relay, reply
consumer, resume sweeper, release scanner) and a notifier that sends the e-mails. They
talk over RabbitMQ, or, for confirmations, optionally over gRPC, and share PostgreSQL
(monolith only) and Redis.

## Inventory

| Component | State | Operations | Where it is hard | What makes it correct |
|---|---|---|---|---|
| HTTP layer (`internal/app`, `internal/middleware`, `internal/handler`) | the request at hand | routes, API key, validation, status codes | one handler per request, all at once, with external calls in between | every request ends; what an answer says is true |
| Subscription API (`internal/subscription`) | `subscriptions` rows: pair, token, `confirmed`, `status` | Subscribe, Confirm, Unsubscribe, GetSubscriptions | requests interleave between read and write; a row is revived under a new token | a live saga owns the only row of its pair; status explained by a saga; a confirmed repository is tracked |
| Orchestrator (`internal/orchestrator`) | `saga` rows | T1 (create or reactivate, in one transaction) | T1 races other T1s and Unsubscribe | a pending row always has a saga that can be driven |
| Outbox and relay (`internal/outbox`) | `outbox` rows, a batch in memory, one AMQP connection | fetch, publish, mark; requeue | publish-then-mark, crash in between, lost connection | no command is lost, duplicates are harmless |
| Notifier consumer (`cmd/notifier`) | Redis dedup keys, the delivery at hand | check, send with retries, reply, mark, ack | crash between any two of them; Redis fails open; SMTP reports errors for mail it took | at most one mail, a truthful reply |
| Reply consumer | the reply at hand, attempts | complete, or compensate in three statements | acts on a snapshot; retries; drops replies | a saga is decided once and for a cause |
| Sweeper | a snapshot of the stale sagas updated longest ago | re-drive, finish a compensation | stale snapshot, races the reply consumer, a limit per sweep | stuck sagas are decided in the end |
| gRPC transport (ADR-011) | the call in flight | T1, call, complete or compensate inline | timeout against slow SMTP; a client that disconnects cancels the compensation, too | a decision is final and completed is true; the promise of the broker's saga while nothing fails |
| Scanner (`internal/releasetracking`) | `last_seen_tag`, the cycle's place | list repositories, detect, record, notify | record before notify; crash; failed queries; shutdown in mid-cycle | every release reaches every subscriber, once |
| GitHub gateway (`internal/githubgateway`, `internal/cache`) | cached tags and verdicts | GetLatestRelease, CheckRepoExists, retry on 429 | stale entries after Redis errors; a slow call writes an old verdict late | old tags do not look new; verdicts have grounds and end |
| Broker publisher (`internal/notification`) | one AMQP connection | dial, publish, close | never dialled again; unroutable messages vanish silently | commands are not lost with the connection or the start order |
| Processes (`main.go`, `cmd/notifier/main.go`) | goroutines and connections | start, SIGTERM, exit | goroutines are not waited for; connections close under them | a restart loses nothing |

The components share the three tables and the two queues; the reply consumer and the
sweeper write the same saga and subscription rows without any lock or conditional
update. `PROJECT.json` lists every hazard with its line and the properties that watch it.

## Modules

```
SagaTables   RabbitBroker          tables and their statements; queues and the fault budget
   |  \        /  |   \
   |  OutboxRelay  NotifierConsumer  ReplyConsumer  Sweeper  SubscriptionApi
   |        \__________|________________|___________/________/      |
   |                 SubscribeSaga  -- implements -->  SagaOutcome  |
   |                      |                                ^        |
   |          MCSubscribeSaga, SubscribeSagaProofs         |        |
   |                           FaultFreeProofs             |        |
   |                                     SyncSaga ---------+  (Sweeper, SubscriptionApi)
   |
   |  SubscriptionApi - RepoCheck - HttpApi (ReplyConsumer)
   |
RabbitBroker - GithubGateway - ReleaseScanner - ReleaseConsumer - ReleaseTracking
```

* `SagaTables` has one operator per SQL statement. A statement outside a transaction is a
  step of its own in the component that runs it; T1 is one transaction and one step. A T1
  draws a new saga id and a new token together, so both are its number. `updated_at` is
  kept as its order in `updatedAt`, and as the set `stale` of sagas not updated for
  `staleAfter`; what holds of the tables whoever writes to them is stated here, too.
* `RabbitBroker` is external: queues with manual acknowledgement whose head stays until it
  is settled, publishing without confirms (success may be a lost message, an error may be
  one that arrived). `faults` counts everything that goes wrong, bounded by `MaxFaults`. That
  a message published before the notifier's first start is unroutable, and vanishes, is a
  fault in the saga model and the fault-free start of `ReleaseScanner`: what the saga
  promises before the first fault takes the notifier's queue for declared.
* `OutboxRelay`, `NotifierConsumer`, `ReplyConsumer`, `Sweeper`, `SubscriptionApi` follow
  their Go functions call by call; each module's header lists its program counters.
* `SubscribeSaga` composes them. `MonolithCrash` resets all goroutines of the monolith and
  redelivers the reply in flight; `MonolithShutdown` is SIGTERM, after which the statement
  at hand fails on the cancelled context, and the reply in flight is nacked with as many of
  the prefetched ones as the loop still gets to.
* `SagaOutcome` is the promise: a saga is decided at most once, `sent` only after an attempt
  was made, `failed` only after the notifier gave up. The broker's saga keeps it whatever
  fails, the one over gRPC only while nothing does.
* `SyncSaga` is the saga over gRPC, with the unchanged API and sweeper modules. The relay and
  the reply consumer have nothing to do there: no outbox row, no reply. The call may time out
  while the notifier works on (`CallFails`), and the HTTP client may disconnect
  (`Disconnect`), after which the call and every statement of the handler fail on the
  cancelled context; `gone` has the sagas to which this happened. `refused` is what the
  notifier itself gave up on after an SMTP error, never what the caller made of a timeout.
* `RepoCheck` is CheckRepoExists as every Subscribe calls it: the cached verdict, on a miss
  GitHub with the retries of `doWithRetry`, then the cache again, each a step of its own.
  The repository may be created or deleted in between. A request arrives and reads the
  cache in one step, since it does nothing else before.
* `HttpApi` is the API as its callers see it: the service calls of every request step by step,
  and the response. The way from the outbox through the notifier and back is one step there
  (`ReplyArrives`): any reply to a saga that was started, the first, a late or a repeated
  one. `answer` is what the response of the last step says is confirmed. Requests that change
  nothing (refused by the API key or by validation, unknown tokens, GetSubscriptions) and
  status codes are left out. The sweeper is left to `SubscribeSaga`.
* `GithubGateway`, `ReleaseScanner`, `ReleaseConsumer`, `ReleaseTracking` model release
  notifications. The scanner sees of a subscription only repository, token and `confirmed`,
  so Confirm and Unsubscribe appear by that effect. Release commands share queue and
  goroutine with confirmations in the code; here they have them to themselves.
  `ReleaseScanner` also has the life of the monolith around the scanner: the connection that
  is dialled once, SIGTERM, the publisher closed before the database and the exit, all
  without waiting for the scanner. `FreshBroker` says that the notifier has never run
  against this broker, so that its queue does not exist yet. Confirmed subscriptions may
  well exist then: the database outlives the broker's volume, and a token can be had from
  `GET /api/subscriptions`.

Variables marked *history* (`emails`, `gaveUp`, `mails`, `owed`, `dropped`, `unguarded`,
`mailed`, `refused`, `abandoned`, `seen`, `answer`) record what the outside saw; no guard reads them.

## Runs

All runs say `CHECK_DEADLOCK FALSE`: the number of sagas, releases and faults is bounded,
and a system in which everything is decided and nobody makes a request is idle.

| Run | What it shows |
|---|---|
| `saga_recovery` | two sagas for one pair, so that a row is failed, revived and driven again, with one fault anywhere: decisions have causes, pending rows are driven, nothing is lost or sent twice without a fault, `SagaOutcome` is implemented |
| `saga_liveness` | one saga, one fault, all three requests, fair scheduling: the saga is decided unless the publisher's connection was lost, its compensation finished unless the subscription was deleted |
| `http_api` | two clients with all three requests, a repository that is created meanwhile, cached verdicts, first, late and repeated replies, one fault: explained statuses, verdicts with grounds, a confirmed repository is tracked, and before the fault, and with no sweeper about, a live saga owns the only row of its pair; under fair scheduling every request ends and no refusal is for ever |
| `release_scan` | two subscribers, two releases of one repository, one of them deleted again, one fault, a notifier that starts early or late |
| `release_liveness` | the scanner catches up, with two faults, one deleted release and a graceful restart |
| `sync_saga` | gRPC transport, two clients, two sagas, one fault (timeout, disconnect, crash, failing statement): completed is true, a decision is final, the promise of `SagaOutcome` before the first fault, and a saga ends unless its handler was cut off. Confirm requests are left to `http_api` |
| `saga_unsent_completed` | violation: a saga completes although its e-mail was never sent |
| `saga_unconfirmed` | violation, no fault needed: a confirmed subscription is un-confirmed by its owner's next Subscribe |
| `saga_starved` | violation: Unsubscribe leaves a compensation that can never end; it stays first in `FindResumable`'s order, takes up the limit (1 in this run) and a younger saga whose command was lost is not re-driven |
| `sync_uncompensated` | violation: a client that disconnects fails the call and, with the same context, the compensation that "any error" asks for |
| `release_lost` | violation, no fault needed: SIGTERM after a release was recorded and before it was published loses it |
| `release_start_order` | violation, no fault needed: what is published before the notifier's first start is dropped silently |

Bounds. One e-mail address and one repository are enough for the saga: rows of different
pairs share no row, saga or token, and only the row's history matters. Two sagas give one
revival of a row, three (in `saga_unconfirmed`) a revival of a revived row. One fault is
the interesting amount: the design claims to survive any single one, and the violations
need at most one. `MaxAttempts` and `MaxTries` are 1 or 2 (3 and 3 in the code): the last
attempt and one before it. `MaxQueue` of 2, in `saga_recovery`, admits a duplicate behind
the original; elsewhere it is 1, and a full queue delays its publisher. `BatchLimit` and
`SweepLimit` are the code's 100, never reached, but for `saga_starved`, where a limit of one
stands for a hundred orphans. `MaxRetries` is 1 (3 in the code): a first and a last request
to GitHub. `MaxChanges` of 1 lets the repository appear while verdicts on it are on their
way, `MaxStops` of 1 is one graceful restart. `MaxEmails` and `MaxMails` saturate at "more
than one". Two sagas do not let two Subscribes race for one failed row, which takes three;
that part of `LiveSagaOwnsPair` rests on its proof.

Fairness. Weak fairness of the relay, the consumers, the sweeper, the scanner and of
handlers already started: each is a goroutine driven by a ticker, a delivery or a request,
and restarted with its process. Weak fairness of `Shutdown`: `run()` returns once it
was told to. Weak fairness of `Clock`, `CacheClock` and `Expiry`: time passes and a
TTL ends. Nothing is assumed of clients, of GitHub, or of SMTP's answers; faults are finite
in number because `MaxFaults` is.

## Proofs

Every invariant, action property and refinement that a passing run checks is also a theorem,
for every number of sagas, clients, addresses, repositories, releases, faults and retries and
for queues of any length. The proofs rest on the named assumptions on the constants and on
nothing else: `MaxSagasAssumption`, `BrokerAssumption`, `MaxAttemptsAssumption`,
`MaxTriesAssumption` and their like say that a bound is a natural number, positive where the
code divides work by it.

| Module | Proves of | Theorems about the runs' properties |
|---|---|---|
| `SubscribeSagaProofs` | the saga over the broker | `TypeOK`, `DecisionHasCause`, `PendingIsDriven`, `StatusIsExplained`, the refinement `ImplementsOutcome` |
| `FaultFreeProofs` | the same, before the first fault | `NothingLostWithoutFaults`, `ExactlyOnceWithoutFaults` |
| `SyncSagaProofs` | the saga over gRPC | `TypeOK`, `SyncCompletedMeansMailed`, `SyncPendingNotFailed`, `SyncDecidedOnce`, `StatusIsExplained`, the refinement before the first fault `SyncOutcomeWithoutFaults` |
| `ReleaseTrackingProofs` | release tracking | `TypeOK`, `DuplicatesNeedDedupLoss`, `OldTagNeedsACause`, `OwedIsOnItsWay` |
| `HttpApiProofs` | the HTTP API | `TypeOK`, `VerdictHasGrounds`, `ConfirmedIsTracked`, `LiveSagaOwnsPair`, `StatusIsExplained` |
| `TableLemmas`, `QueueLemmas` | the statements of `SagaTables`, the queues | lemmas that the others share |

`TableLemmas` says of each SQL statement what it leaves alone, and that every statement keeps
the tables `Sound`: typed, each row's token a saga that was started for this row, statuses
explained, one row per pair. `QueueLemmas` says that publishing leaves the head of a queue
alone, that settling the head shifts the rest and that dropping some replies leaves others.

None of the properties is inductive as stated. TLC checked each strengthening on a small
instance before it was proved.

*The saga over the broker.* Three layers, each proved on top of the one before.

1. `Control` ties program counters to what they stand on: the saga at the head of a queue,
   in a relay batch or in a sweep snapshot exists, a consumer past its first step has a
   delivery, a saga being failed was compensated. Without it types do not survive a step
   that reads the head of a queue or a row by its id.
2. `Causes` says where evidence comes from: a queued `sent` reply, a processed key or a
   notifier about to reply stands for a mail or a give-up, a `failed` reply for a give-up.
   Decisions are taken from replies only, so `DecisionHasCause` follows.
3. `Rows` relates rows, tokens and sagas: a row's token is a saga of that row, a saga on its
   way from MarkFailed to `failed` has marked its row or the row has moved on to another
   token. This is what makes the order of the compensation statements matter, and gives
   `PendingIsDriven`.

The refinement proof maps each action to an abstract step using `Control` and `Causes`.

*Before the first fault.* `FaultFree` has one part for each hop. `Dedup`: a saga that was tried
is in Redis or in the notifier's hands, so nothing is sent twice. `InOrder`: the notifier
answers a duplicate command with `sent` even when it gave up on the original, so what saves
the truth is the order of the queue; for a saga that is given up on and undecided, a `failed`
reply stands before every `sent` one. `OnItsWay`: the relay marks what it has published, the
notifier acks what it has answered, the reply consumer settles what it has decided. With
`Causes`, the first reply handled for a saga is true, and completed means mailed.

*The saga over gRPC.* `Control` says on what grounds a handler makes its next write (a call
was answered before it completes, failed before it compensates) and that no two handlers have
the same saga. The sweeper shares sagas with handlers, but touches only those that were
compensated, so at most both do the same. `Marked` puts MarkFailed before `failed` for
handlers and sweeper alike. `NextDecides` then lists all that a step can do to a saga; that a
decision is final is read off it. For the refinement `Control` also says that, before the
first fault, a call that failed is one whose mail the notifier gave up on.

*Release tracking.* `Control` again; `Dedup`: a mail that arrived is in Redis, about to be put
there, or its dedup was lost; `TagOrder`: before a fault or a deleted release, `last_seen_tag`,
the release at hand, the cache and GitHub are in this order, so a tag never goes back;
`Delivery`: before a fault or a shutdown, Redis remembers only what was mailed, so skipping
a duplicate command forgets nobody.

*The HTTP API.* `Control` adds the reply consumer to `Sound`; `Grounds`: every verdict in the
cache, in a call or with a handler was true of its repository since it is in use.
`LiveSagaOwnsPair` needs `Ownership`. A Subscribe revives a row as soon as it is `failed`, so
a MarkFailed that comes after the revival would hit the row of the new, live saga. Before the
first fault this cannot be: the reply consumer is the only one to compensate, one saga at a
time, so a saga that is compensating while its row exists is the one at hand, and until its
MarkFailed the row is still its own and not revived. A live saga's row carries its token and
is not `failed`, so UNIQUE and ReactivateInTx's status guard keep a second T1 away from it.
The theorem is about handlers and the reply consumer. A sweeper that acts on a snapshot taken
before the revival is a second one to compensate and breaks it, as `saga_unconfirmed` shows.

Only model-checked: the liveness properties `EverySagaDecided`, `CompensationFinishes`,
`EveryRequestEnds`, `RefusalEnds`, `ScannerCatchesUp` and `SyncSagaEnds`. They rest on fairness
and `ENABLED`, which are out of the prover's reach.

## Not modelled

* The API key, validation and the translation of errors to status codes: they change no
  state. One consequence worth knowing: T1 of a Subscribe that lost the race for its pair
  fails on UNIQUE, which is no DomainError, so its client is told 500, not 409.
* What becomes of a mail that arrives after the gRPC call timed out and the saga was
  compensated. `SyncSaga` has these behaviours, and no property excludes them.
* Publishing after the publisher's connection was lost: it fails until the monolith is
  restarted. `EverySagaDecided` makes this exception, the only one among single faults.
* A monolith that starts without Redis, and so without a cache: its calls are those of
  `RepoCheck` with a cache that misses. A missing database or broker ends the process.
* The 429 retries of `GetLatestRelease`: only the scanner makes the call, which fails or
  succeeds as a whole.
* The five seconds in which the HTTP server drains requests: a handler still running after
  them is cut off as by a crash, one that ends in time is an ordinary handler.
* That `Confirm` answers 200 when its UPDATE hit no row: the model has the race, no property
  calls it wrong, as the row could be deleted right after the answer as well. Likewise a
  failed saga that the reply consumer puts back to `compensating`: it is finished again.
* Malformed messages, a switch of the confirmation transport while sagas are in flight,
  the queue and goroutine that confirmations and releases share in the notifier.
* Metrics, logging, configuration, migrations, generated code and the benchmark.

## Plan

Done: the saga over both transports, the HTTP API with the repository check, release tracking
with the life of its process, and proofs of all safety properties and refinements.

Next, in this order:

1. Theorems that the properties only imply: what `SagaOutcome` promises, stated and proved
   of the abstract specification and so of the saga over the broker; that a decision is never taken
   back, as an action property of `SubscribeSaga`.
2. The steps that liveness needs and the prover can do: the measure that each handler's loop
   decreases, and that no fault-free step loses what a fair one needs.
3. The model: the shared notifier queue of confirmations and releases, a switch of transport
   with sagas in flight.
