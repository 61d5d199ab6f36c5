# Aspin Partners Bridge in TLA+

The bridge sits between Aspin, a payment hub (M-Pesa, Airtel Money) and partners
such as APA and Britam. This directory models the part of it where several actors
act on one payment: webhook deliveries, status checks, initiation requests and
queue workers, over Postgres, Redis, BullMQ and RabbitMQ. Paths below are relative
to the repository, whose TypeScript lives in `src/`.

## The system's parts

| Part | State it keeps | Operations | Correct when |
| --- | --- | --- | --- |
| Payments table (`payments.postgres.repository.ts`, `payments.entity.ts`) | rows keyed by `reference`, found also by `transactionId`; `status`, `processed` | `create` (TypeORM `save`), `find…`, `update`, `updateStatus` | a row never claims an outcome the hub has not reached |
| Webhook handling (`base.payment.executor.ts` `handleCallback`) | the Redis lock `callback:<partner>:<txn>` | lock, read, validate, update, publish, notify, unlock | a transaction is settled and announced at most once, whatever is delivered and whatever fails |
| Status checks (`statusCheck`, `checkPayment`) | the row object read before the hub is asked | read, query, `updateStatus`, publish, notify | a check brings the row up to date and undoes nothing |
| Payment initiation (`initiate`, `initiatePayment`) | none of its own | find by reference, `save`, add a job | one order and one job per reference; a refused request leaves no trace |
| Job queues (`queue.service.impl.ts`) | BullMQ jobs: state, attempts, stalls | add, take, complete, fail, retry | every order is charged, a bounded number of times and through one channel, and every charge polled, a bounded number of times |
| RabbitMQ (`rabbitmq.service.ts`) | connection and channel | connect, reconnect, `publish` | one reconnecting loop at a time, a channel that comes back; what is published is what the table recorded |
| Aspin adapter (`aspin.adapter.ts`) | none | one POST | Aspin hears the hub's verdict |
| Hub adapter and channels (`paymenthub.adapter.ts`, `channels/`) | none | charge, query, validate a callback | a charge carries the fields of the row as its worker read it, once per run of its job |
| Executor registry (`payment.executor.builder.ts`, `helpers.ts`) | a map filled at start | register, look up by partner and channel | a request or webhook without an executor changes nothing |
| Service process (`main.ts`, the `onModuleInit`s) | starting, serving | start, listen, die | a death loses handlers and the connection, never the table |
| Partner configuration, Redis client, metrics, validation, health | counters | reads | not modelled, see below |

How they interact: `POST /initiate` writes a row and adds a job; the initiation
worker takes the job, charges through the hub and adds a delayed status-check job;
the hub posts webhooks; `GET /:transactionId/:channel` and the status-check worker
ask the hub. Webhooks and checks share the table, the exchange and Aspin. Only
webhooks take the lock.

What is hard here: every `await` is a point where another handler, another instance
of the service or another worker may act; the lock has a lease of 30 s and is
deleted without comparing a token; a check takes no lock and acts on the row it read
earlier; each external call may fail before or after its effect; a process may die
between any two steps, with all its handlers and its broker connection; the broker
may refuse or drop a connection at any point of `connect`; jobs run again after a
failure or a stall, and nothing makes the hub's charge idempotent. `PROJECT.json` lists
these hazards at their lines.

## Modules

| Module | Models |
| --- | --- |
| `PaymentVocabulary` | `extractStatusFromCallback`, and the word Aspin is told |
| `PaymentStore` | the table by transaction, the hub's verdicts, the exchange and Aspin's inbox, and the calls on them; the safety properties that speak of these alone |
| `CallbackHandler` | `handleCallback`, one action per `await` |
| `SettlementOnce` | abstract: a transaction is settled, announced and told at most once |
| `StatusCheck` | `checkPayment` and `statusCheck`, one action per `await` |
| `PaymentExecutor` | composes the two over one store |
| `HubFollowed` | abstract: a row takes the hub's verdict once and for all, and only then is anything announced, always the verdict |
| `ExecutorRouting` | which executor a request or a webhook gets: operators, no state |
| `RabbitMQConnection` | `connect`, its three awaits, its handlers and its 5 s timers |
| `WebhookService` | composes `CallbackHandler`, the connection and the routing in one process that starts, serves and dies |
| `OrderStore` | the table by reference, and the BullMQ jobs of the queue `payment-initiation` |
| `PaymentInitiation` | `initiatePayment` and `initiate`; `save` is a SELECT and then an INSERT or an UPDATE, as TypeORM does it |
| `PaymentQueue` | the two workers: charges by `stkPush` or `directDebit`, and the status-check job of each charge |
| `PaymentPipeline` | composes the last two over one order store |
| `ChargePromise` | abstract: an order is placed, its reference committed to one channel for good, then charged through it within a budget |
| `MC…` | small instances for TLC: words and symmetry |
| `CallbackHandler_proofs` | the proofs about the webhook side |
| `PaymentExecutor_proofs` | the proofs about webhooks and checks together |
| `PaymentPipeline_proofs` | the proofs about requests, jobs, charges and status checks |
| `WebhookService_proofs` | the proofs about the connection, and about handlers in a process that dies |

State and code. `pc[c]` says which `await` delivery `c` is at: `sent` (about to SET
the lock), `busy` (lock refused, about to read the row), `find`, `validate`,
`update`, `publish`, `notify` (inside the `try` that ends in `finally`), `release`
(the `finally` block). `answer[c]` is what the `try` leaves to return or throw.
`payments[t]` is the row with transaction id `t`, or `NoPayment`. `events[t]` and
`notices[t]` are what RabbitMQ accepted and what Aspin received for `t`, in order.
`checkPc` and `check` do for a status check what `pc` and `delivery` do for a
delivery; `check[k].seen` is the row's status as read, `said` the hub's answer.
`settlers`, `held` and the holder's name in `lock` are history for the properties:
the code stores `'1'` for every holder, and the model's release, like the code's,
clears the key whoever holds it.
In the pipeline, `reqPc[q]` is where request `q` is, `orders[r]` the request whose
fields the row of reference `r` holds, `job[r]` the state of `payment-check-<r>` and
`jobOf[r]` the request that added it, whose channel it carries; `phase[r]` is where its
worker is. `paymentOrder[r]` stands for the row object the worker reads at line 228 and
charges by after further awaits: the request whose fields the row held then, though
`orders[r]` may have moved on, and `NoOrder` once the charge has been made or the run has
ended. `charges[r]` are the hub's charges, each with the request whose fields it carried
and its channel, and `polls[r][i]` is the job `status-check-<id>` of charge `i`:
its state, its attempts and stalls, and how often its processor was entered.
`add` with a job id does nothing while a job of that id is kept (`AddJob`, `AddPoll`).
`link[l]` is how far `connect` has come with connection `l`, `channel` the connection
`this.channel` belongs to, `timers` the pending `setTimeout`s. `unwatched` is a
connection that ended together with the broker's last answer: its handlers are
registered after its `close` event, and nothing reconnects until the process is
started again. `OneLoop` and `ChannelReturns` name it as their one exception.

Failures. With `Unreliable`, every external call may fail, before or after taking
effect, and every process may die at any `await`. A hub may spell outcomes in any
words, but does not say `completed` or `failed` of another outcome
(`TruthfulAssumption`): the words are given by `CallbackSpelling` and
`QuerySpelling`. A delivery with a bad signature carries any status at all.

## Runs

| Run | Shows |
| --- | --- |
| `callbacks_locked` | 3 deliveries, one transaction, every failure, lease longer than any handler: `MutualExclusion`, `SettledOnce`, the inductive `SettlementInv`, and that `SettlementOnce` is implemented |
| `callbacks_ending` | one process, 2 deliveries, the connection; every failure, the broker refusing and dropping, the process dying and starting again, fairness: one reconnecting loop, messages go to the current channel, the channel comes back, keys do not stay, deliveries end, the inductive `ServiceInv`, and `SettlementOnce` is implemented across restarts |
| `executor_any_hub` | 2 deliveries and a check, any hub, leases that run out under their holders, every failure: rows and success notices are true, only recorded outcomes are announced, and the inductive `ExecutorInv` |
| `executor_final_hub` | the same with a hub that posts only final outcomes in known words: failure notices are true too, final rows are stable, processed rows come from signed deliveries, the inductive `FinalHubInv`, and `HubFollowed` is implemented, also when two handlers of one transaction run at once |
| `executor_reliable` | 2 deliveries and 2 checks, no failures, fairness: deliveries settle and announce, checks catch up |
| `pipeline_faults` | 2 requests for one reference, one by Airtel, 2 attempts and 1 stall for each kind of job, every failure, fairness: rows before jobs (`JobHasOrder`), no trace of a refused request (`RefusedLeavesNoTrace`), charges bounded (`ChargesBounded`) and each owed to a run (`ChargesPaidFor`), charges without a check likewise (`UnpolledPaidFor`), polls bounded (`AskedBounded`), never two channels (`OneChannel`), the inductive `PipelineInv`, and `ChargePromise` is implemented; an accepted request is charged or its job fails (`AcceptedEnds`), and the hub is asked about a charge until it answers or the check's runs are used up, unless the job's own are (`ChargeIsAskedAbout`; an answer `pending` counts, and is the last, see `pending_forgotten`) |
| `pipeline_reliable` | 3 requests over 2 references, one by Airtel, no failures, fairness: charged once, charged at all, polled |
| `readme_webhook` | violation: the README's `"status": "COMPLETED"` is read as pending, and Aspin is told `failed` |
| `answered_processed` | violation: a delivery is answered `processed` that nobody processes |
| `duplicate_accepted` | violation: two racing requests for one reference are both accepted |
| `as_wired` | violation: with the code's column constraint, injection, job data and queue names, nothing is ever charged |
| `pending_forgotten` | violation: wired as intended, and when nothing fails, a check that the hub answers `pending` is not run again (`PendingIsPolledAgain`) |

Bounds. Transactions do not share state (rows, locks, outboxes and verdicts are by
transaction, and no handler touches two), so one transaction is enough for the
settlement runs. A lock's holder, a contender and one that arrives after either has
ended or died make three deliveries; two of them with a check cover the unlocked
writer. For requests, two racers are the smallest number that race; the
reliable run has three so that a race and a free reference occur together.
The code's `attempts: 3` is `MaxAttempts` and `MaxPollAttempts`; `pipeline_faults`
takes 2 of each, which has a first, a repeated and a last attempt, and with a stall up
to three charges; its safety properties were also checked once with `MaxAttempts = 3`
(11.7 million states). `MaxStalls = 1` is BullMQ's default, external to the
repository. Two connections are enough, as `OneLoop` shows that one is alive at a time;
a closed one's name is used again. Nothing else is cut: sequences are bounded by the
number of actors and of attempts. Requests are given fixed channels (`ByAirtel`) and
any registered or unregistered partner.

`CHECK_DEADLOCK FALSE` is set throughout: once all deliveries, checks, requests and
jobs are done the system rests, as it should.

Fairness. `WF` of each handler's steps: Node resumes a handler whose promise is
settled, and every awaited call ends (HTTP calls time out after 10 s, the others
fail with their connection). `WF` of `LockExpires`: Redis drops an expired key. `WF`
of the workers' steps: BullMQ workers with concurrency 10 take every job. `WF` of
`StartProcess`: something starts a dead process again. `WF` of timers and of every
`connect` call: it ends, one way or the other; and `SF` of its success at each await,
for `ChannelReturns` alone: a broker that is tried again and again accepts sooner or
later. Nothing is
assumed fair of the hub, of callers or of crashes; the liveness runs without
failures say `Unreliable = FALSE` openly, because the code has no retry behind a
failed publish, notice or enqueue, and the properties are false otherwise.

Wiring. As the code stands, no request is charged and no charge polled, for five
reasons, each of which is enough for one or the other:

- The entity declares `transactionId` not null, which `initiate` does not fill
  (`TransactionIdNullable`; the entity makes the schema only where TypeORM
  synchronizes, `src/src/infrastructure/database/database.module.ts:22`).
- `QueueServiceImpl` puts `@InjectQueue` twice and `@Inject` once on the parameter
  `paymentRepository` (`src/src/infrastructure/queue/queue.service.impl.ts:45-48`). Nest
  keeps the one applied last, the status queue's token, and no module registers that
  queue: `bullmq.module.ts:27` names `QueueTYPE.PAYMENTS`, which does not exist. So the
  process does not start, or has an object without `findByReference` for a repository
  (`RepositoryInjected`).
- The job lacks the routing its worker destructures (`JobCarriesRouting`).
- The status queue's producer and its worker disagree about its name, lines 63 and 77
  (`StatusQueue`, `StatusWorker`).
- No row ever gets the transaction id that a status check looks it up by, so a check
  that did run would throw until its attempts are used up (`TransactionIdStored`).

`as_wired` takes the code's own values of all five. The other pipeline runs ask what the
rest of the code does once all five are mended, as the interfaces intend. Likewise
the one secrets manager in the repository, a mock, has no `webhookSecret`, with which
`validateCallback` throws for every delivery (`ConfigFails`); the runs take a
configuration that has one.

A pending payment is polled once. `processStatusCheckJob` means to ask again: of an
answer `pending` it calls `addStatusCheckJob` with its own data, and so under its own
job id, which BullMQ ignores while it holds a job of that id, active or completed
(`AddPoll` in `EndPoll`). `queue.service.spec.ts:199` sees the call of `add`, on a mock.
In the model a check that found the payment pending is in the state `pending` for good:
`AskedBounded` and `ChargeIsAskedAbout` hold with that, and `pending_forgotten` shows
that the second poll never comes.

Assumptions worth knowing, without which these properties do not hold:

- `MutualExclusion`, `SettledOnce` and `SettlesOnce` need `LeaseOutlivesHandler`:
  no handler runs longer than 30 s. The code does not enforce it. What holds without
  it is what `executor_any_hub` and `executor_final_hub` check.
- `FinalIsStable` and `FailureIsTrue` need a hub that posts final outcomes only. A
  progress delivery is written with `processed: true`, announced to Aspin as
  `failed`, and makes the final delivery a duplicate; arriving after a check has
  stored the final status, it overwrites it.

## Proofs

`CallbackHandler_proofs` proves, for any sets of transactions and callbacks, any
spelling, with every failure:

- `TypeCorrect`: `Spec => []TypeOK`.
- `Invariance`: `Spec => []SettlementInv`, assuming `LeaseOutlivesHandler`.
- from it `Exclusion`, `SingleSettlement`, `GenuineSettlement`, and
- `Refinement`: `Spec => Settlement!Spec`.

The argument: `MutualExclusion` is not inductive, nor is `SettledOnce`. `HoldsLock`
says that a handler inside the critical section is the one the key names; so a
second handler cannot be there, and the release of one does not free another's
key. Then what the holder read stands until it writes (`Foresees`), and the
outboxes of an unsettled transaction are empty, those of a settled one hold at most
its one outcome (`Outbox`). The lemmas split the steps into those that only move
their handler (`QuietSteps`), those that move the lock (`AcquireInv`, `ReleaseInv`,
`ExpiryInv`) and those that write for the holder's own transaction (`UpdateInv`,
`PublishInv`, `NotifyInv`, by `LocalStep`). The refinement maps `UpdatePayment`,
`PublishResult` and `NotifyResult` to the abstract steps and all else to stutters.

`PaymentExecutor_proofs` proves, for any sets of deliveries and checks over one
table, every failure, and without assuming anything of the lease:

- `ExecutorTypeCorrect`, and `ExecutorInvariance`: `ExecutorSpec => []ExecutorInv`;
- from it `TrueRow`, `TrueSuccess` and `Recorded`, that is `RowIsTrue`,
  `SuccessIsTrue` and `AnnouncedWasRecorded` for webhooks and checks together;
- assuming `PostsFinal` and `AnswersPlainly` of the hub, `FinalHubInvariance`, and
  from it `TrueFailure` (`FailureIsTrue`), `FinalStays` (`FinalIsStable`),
  `FinalSettlement` (`SettledByTheHub`, here without the lease), and
- `VerdictIsFollowed`: `ExecutorSpec => Following!Spec`, the refinement of
  `HubFollowed`.

The argument: three things only grow, the hub's verdicts, the set of rows and each
row's history (`Monotone`). So what a signed delivery says stays true while it waits
(`DeliverySpeaksTruth`), what the hub answered stays true until the check writes it
(`AnswerIsTrue`), and what a handler has recorded stays in the history until it
announces it (`DeliveryRecords`, `CheckRecords`); none of this needs the lock. Two
writers of final statuses therefore write the same one. What remains is a write that
is not final: with the hub of `FinalHubInv` no delivery carries one, and a check that
saw a final row asks a hub that has settled, so no answer `pending` can reach the
row. `DeliveryMoves` and `CheckMoves` reduce a step to the handler that takes it;
`ExecutorMoves` lists what a step can do to the store. That a row was written is
then more than history: it still says so when its writer announces it
(`RecordStands`), because every later writer carries the same verdict (`RowStays`,
`SettledBy`, `RecordKept`). This is what the refinement needs. A write of a pending
row maps to `Record`, a write of a final one to a stutter, and what is published or
sent is the row's status (`FollowRecord`, `FollowAnnounce`, `FollowTell`).

`PaymentPipeline_proofs` proves, for any sets of requests and references, any
channels they ask for, any limits of the queues, as wired and as mended, with every
failure:

- `PipelineInvariance`: `PipelineSpec => []PipelineInv`;
- from it `PipelineTypeCorrect`, `JobsHaveOrders`, `RefusalsLeaveNoTrace`,
  `ChargesArePaidFor`, `UnpolledArePaidFor`, `ChargesAreBounded`, `AskingIsBounded`
  and `ChargesByOneChannel`, each the property of `pipeline_faults` it is named for;
- assuming `~Unreliable`, `ChargesOnce` (`ChargedOnce`), and
- `ChargesArePromised`: `PipelineSpec => Promise!Spec`, the refinement of
  `ChargePromise`, whose budget is `MaxAttempts + MaxStalls`, and 1 when nothing fails.

The argument: `ChargesBounded` is not inductive, as it forgets which runs the charges
were made by. `ChargesPaidFor` remembers: each charge but the current run's is owed to
a run that threw or died, and those are limited by the queue's options. It needs that
a worker is in a phase only while its job is active, that a job which has not failed
has a run left, and that the charge being scheduled has no status check yet
(`JobInv`), for a status check the same (`PollInv`), and that a request which has not
saved, or was refused, is named nowhere, neither in a row nor in one that a worker has
read and not yet charged by (`RequestInv`). Each of these speaks of one
request or one reference, so a step keeps it for the others (`UntouchedKeeps`,
`RequestStepKeeps`), and the lemmas `…Keeps`, one per action, deal with its own. A
step does one of three things to a reference's ledger, the charges with their status
checks: leave it, add a charge without a check, or give the last charge its check
(`LedgerKept`, `Reached`, `Scheduled`). In the refinement a write of a row maps to
`Place`, an `Enqueue` that adds the job to `Commit`, and a charge that reaches the hub
to `Charge`; that the budget is not used up is `ChargesPaidFor` in the state before.

`WebhookService_proofs` proves, for any set of links, the broker and the process
failing at will:

- `ServiceInvariance`: `ServiceSpec => []ServiceInv`, and from it
  `ServiceTypeCorrect`, `OneLoopAlways` and `ChannelAlwaysCurrent`;
- assuming `LeaseOutlivesHandler`, `ServiceSettlement`
  (`ServiceSpec => []SettlementInv`) and `ServiceRefinement`
  (`ServiceSpec => Settlement!Spec`).

The argument: what `OneLoop` counts is either one timer and no link in use, or no
timer and exactly one link with a call or a `close` handler, or nothing (`LoopsAre`);
each step of `connect` moves between these. `ChannelIsCurrent` needs that, too: only
the one link in use can be open. A step of the service is a step of `CallbackHandler`,
a delivery that finds no executor (`Misroute`) or a death of all handlers at once
(`ProcessDies`); the last two are quiet (`ServiceSteps`, `MisrouteIs`, `DeathIs`):
they touch neither table, lock nor outboxes and bring no handler further, so invariant
and refinement carry over from `CallbackHandler_proofs`.

The assumptions on the constants are `StoreAssumption`, `TruthfulAssumption`,
`CallbackAssumption`, `OrderAssumption`, `QueueAssumption`, `ConnectionAssumption` and
`ServiceAssumption`, which TLC evaluates in the runs, and those named above, each with
a run in which it holds. None of them limits the number of actors; the links alone are
taken to be finitely many.

Only model-checked: liveness, as the prover treats neither fairness nor `ENABLED`.
These are `LockIsFreed`, `DeliveryEnds` and `ChannelReturns`; `DeliverySettles`,
`FinalIsAnnounced` and `CheckCatchesUp`; `AcceptedEnds`, `ChargeIsAskedAbout`,
`RequestIsCharged` and `ChargeIsPolled`. Every other property of a passing run is the
conclusion of a theorem.

## Not modelled, and why

- The transaction id, taken to be one per charge. No code at this commit stores one in
  a row, so the settlement modules start from rows that have one, and the pipeline goes
  no further than the end of a charge's status check; what a check does to a row is
  `StatusCheck`.
- The partner in the lock's key: an executor serves one partner, and a delivery
  routed to another partner's executor fails that partner's signature check. In
  `WebhookService` a delivery names the payment's partner or one without an executor.
- Airtel webhooks: `determineChannelFromPayload` sees none of the fields it looks for
  (`WebhookChannel`), so every delivery is handled by the M-Pesa executor. An Airtel
  delivery is one that executor's secret does not sign.
- Several instances of the service at once in `WebhookService`. Deliveries to other
  instances are those of `callbacks_locked`, where each handler dies alone; here one
  process has the connection and dies as a whole. Status checks are not part of it.
- Connections left open when `createChannel` or `assertExchange` fails: nothing in the
  code refers to them again. `RabbitMQService.close`, `QueueServiceImpl.close` and
  `getQueueStats`, which nothing in the repository calls.
- Backoff times, and the eviction of all but the last 100 completed and 500 failed jobs.
- A stalled job whose first worker is still alive: both would charge; the model's
  worker has died.
- Partner configuration and secrets: reads, which succeed or throw. The Redis client
  connects once at start.
- Metrics: no code reads them. The counters of 4xx, 5xx, refused and timed-out hub
  calls never move, as `PaymentHubAdapter` wraps every error in an exception without
  `response` or `code` (`src/src/infrastructure/adapters/paymenthub.adapter.ts:117`,
  `src/src/infrastructure/queue/queue.service.impl.ts:276`).
- Logging, DTO validation, exception formatting, health check.

## Plan

1. An abstract specification of the connection (nothing, connecting, connected, given
   up), which `RabbitMQConnection` with `ProcessDies` implements; `OneLoop` and
   `ChannelIsCurrent` are most of its proof.
2. `HubFollowed` for a hub that posts progress: what remains when a final row may be
   overwritten is that verdicts are announced only when recorded; an abstract
   specification with a history would say it in one place.
3. Action properties of the pipeline that the invariant implies: a job never returns
   from `completed` or `failed`, and `jobOf` never changes.
