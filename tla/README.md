# Verification of the boilerplate

This directory holds TLA+ models of the server side of the SaaS starter in `src/`
(a Next.js application on PostgreSQL, Stripe, S3-compatible storage and a cron
endpoint), the TLC configurations that check them on small instances, and TLAPS
proofs that hold for every instance. Paths below are relative to `src/` unless
they begin with `src/src`; `models/x` is `src/src/models/x.ts` and `services/x`
is `src/src/services/x.ts`.

Contents: [the system](#the-system), [the modules](#the-modules),
[the runs](#the-runs), [fairness](#fairness), [what is proved](#what-is-proved),
[disagreements found](#disagreements-found), [limits](#limits), [plan](#plan).

To check: `tlc -config <X>.cfg MC<Y>.tla` for the runs below, `tlapm <X>Proofs.tla`
for the proofs.

## The system

Everything durable is in PostgreSQL; servers keep nothing between requests, and
several run at once. Components interact through tables, never through messages
between processes, except with Stripe (API calls out, webhooks in), with the
object store (API calls out, presigned uploads that bypass the server) and with
the mail provider. What makes the code hard is the same everywhere: *a request is
several statements with awaits between them, it may die after any of them, and
the same work may be asked for again, at the same time, by somebody else.*

| Component | State | Operations | Talks to | What is hard | What makes it correct |
|---|---|---|---|---|---|
| **Job queue** `models/job`, `services/jobs/*`, cron route | `jobs` rows: status, attempts, run_at, locked_at, dedupe_key | insert (four kinds of key, three of them reviving), claim, succeed, fail/back off, prune, cancel on erasure, scrub | everyone enqueues; handlers call mail, storage, erasure | overlapping cron invocations, an invocation that sleeps past its lease, abandoned handlers, revival under a live lease | one lease at a time, no late write to a finished row, bounded attempts, every job ends |
| **Stripe webhook** `app/api/pay/webhook/stripe/route.ts`, `models/stripe-webhook-event` | `stripe_webhook_events` rows: status, updated_at | claim (insert, select, update), handlers per event type, three marks, admin resolve, hourly sweep | fulfilment, affiliates, subscriptions, reservations, job queue | duplicate and concurrent delivery, a lost 200, a crash between transaction and mark, stale takeover | one handler per event, completed means done, 200 only when settled, every event settles |
| **Payment fulfilment** `models/fulfillment`, `services/stripe/checkout-session`, `.../idempotency` | `orders`, and the grant in `credits` | mark paid + grant in one transaction; insert renewal order + grant | webhook, ledger | several events announce one payment; a handler dies between the transaction and its side effects | an order is paid exactly when its credits exist, once |
| **Affiliate commissions** `services/affiliate`, `models/affiliate` | `affiliates` rows | attribute a signup, reward a paid order, cancel on refund | webhook | reward and cancel are handled by different events | a commission only for a paid order |
| **Subscriptions** `services/subscriptions`, `models/subscription` | `subscriptions` row per Stripe id, with `stripe_event_at` | retrieve, look up, upsert under an ordering guard; comps | webhook, erasure, entitlements | out-of-order and concurrent events, reads that are two awaits old | a completed event is in the row, to the second; a cancellation arrives |
| **Credit ledger** `models/credit`, `services/credit` | immutable `credits` rows of an organization | grant, spend, refund, balance, FEFO replay | fulfilment, tasks, erasure | concurrent members, expiry between plan and write, retried refunds | no drift, no double spend, refunds go back where credits came from |
| **Reservations** `models/reservation`, `services/reservations` | `reservations` joined with `orders`; Stripe sessions | claim a slot, create and store the session, replay an intent, confirm, release by clock or webhook | Stripe, webhook, checkout | three systems and three awaits per sale, a hold that elapses in any of them | no double booking, payers have their slot, every hold ends |
| **Orders and checkout** `services/checkout`, `services/stripe/customer`, `models/order` | `orders` by intent, `organizations.stripe_customer_id`; Stripe's sessions, customers and idempotency keys | claim an intent, find or make the customer, create a session, store its id, return from Stripe, open the portal | Stripe, fulfilment | replay after a crash by another owner, keys Stripe forgets, a return that overtakes the webhook | one session per intent can be charged, a return tells what is so, one customer |
| **Storage** `services/storage/*`, `models/file` | `files` rows, objects, presigned URLs | reserve quota, sign, complete, delete, sweep, delete worker, erase | job queue, object store | quota sum and insert, completion against cleanup, presigned uploads that arrive late | quota never exceeded, a deleted file stays deleted, what is offered exists, deletions end |
| **Organizations, members, seats** `models/organization`, `services/members` | organizations, members, invitations | invite, accept, change role, remove, leave, delete | subscriptions (seats), erasure | mutual removal, seats, a lock that keeps a pooled connection | always an owner, seats never oversold, nobody waits in a circle but for the pool |
| **Account lifecycle** `models/account-lifecycle`, `services/account-lifecycle` | `privacy_requests`, pseudonyms in every table | request, cancel, block, begin, external effects, finalize | job queue, Stripe, storage, every table | a retry after each external effect, cancellation against the job that begins | never half erased and live, effects repeatable |
| **Tasks** `services/tasks`, `models/task` | `tasks` rows | create under a key, spend, run, finish or refund | ledger, AI providers | a double click, an answer lost after the write, a crash between spend and run | charged once, given back when it fails |
| **Entitlements and plans** `services/entitlements`, `config/plans` | none (reads subscriptions) | resolve a plan | subscriptions | which of several rows wins | monotone in the rows |
| **Reconciliation** `services/stripe/reconcile` | none | compare, report | Stripe | none | read-only |
| **Moderation, blocklist** | ban flags, blocked addresses | ban, unban | sessions | a sign-in under way while the sessions are deleted (the auth library's) | - |
| **Authentication, sessions** `lib/auth` | Better Auth's tables | hooks | job queue (signup credits) | inside the library | external |
| **Authorization, rate limits** | none; a counter per window | check, increment | Redis | approximate by design | - |
| **Email, Slack** | none | render, send | job queue delivers | provider failures: the queue's retries | - |
| **Admin app, web app, API shell, configuration, schema** | none of their own | call the services above | everything | presentation | - |

How they fit together, for the parts that are modelled:

```
 browser --> Checkout --> Stripe --events--> StripeWebhook --(one transaction)--> orders + credits
                                              |   |   |                      PaidOrder      |
 cron --> JobQueue <------- enqueue ----------+   |   +--> affiliates (commission)          |
             |  (DurableJob)                      +--> SubscriptionSync --> subscriptions   |
             |                                    +--> Reservations (confirm / release)     |
             +--> Storage (delete objects)             Tasks --spend, refund--> CreditLedger+
             +--> AccountErasure --+--> Storage, SubscriptionSync, CreditLedger, JobQueue
                                   +--> Membership (checks owners, deletes members)
```

`PROJECT.json` lists every component with its status, and every hazard with the line
where it bites and the property that would catch it.

## The modules

Each module comments its operators with the function it stands for; the map in
`PROJECT.json` gives the lines. Proof modules only add lemmas and theorems.

| Module | Models | Abstract specification | Proofs |
|---|---|---|---|
| `JobQueue` | the queue | `DurableJob`: bounded, restartable jobs without leases or clocks | `JobQueueProofs` |
| `StripeWebhook` | claim table, handlers, fulfilment, commissions, sweep | `PaidOrder`: pay-and-grant in one step, commissions of paid orders | `StripeWebhookProofs` |
| `Checkout` | an intent, its order, session and customer | `Purchase`: an intent takes money once, its order is paid after it | `CheckoutProofs` |
| `SubscriptionSync` | the sync of one subscription | - | `StripeWebhookProofs`, last section |
| `Fefo`, `CreditLedger`, `Tasks` | the replay; the transactions around it; the tasks that pay with it | `Fefo` is the pure part: `CreditLedger` calls it under the lock and replays with it afterwards | `TasksProofs` |
| `Reservations` | the slots of one service and their Stripe sessions | - | `ReservationsProofs` |
| `Storage` | uploads, their objects and deletions | runs on `DurableJob`'s steps | `StorageProofs` |
| `AccountErasure` | exports and erasures of one account | runs on `DurableJob`'s steps | `AccountErasureProofs` |
| `Membership` | roles, invitations, seats, workspaces, the connection pool | - | `MembershipProofs` |

`MC*` modules only give constants to TLC (slot times, amounts, which order an event
is about) and symmetry sets.

Conventions. A step is one SQL statement or one transaction, or one call of an
external service; everything a process holds between two awaits is in a record per
request (`worker`, `request`, `run`), with a program counter named after what it does
next. A transaction that takes its lock first is one step, unless the lock itself is the
subject (`CreditLedger`, `Membership`). A crash is an action that forgets this record and
leaves the tables as they are. Ids, names and payloads are model values; amounts matter in
the ledger and the quota only; the clock is an integer that all servers share, as in the
code (`new Date()` and `now()` are not told apart).

How the modules compose. `JobQueueProofs` proves that the queue implements `DurableJob`
row by row. `Storage` and `AccountErasure` are written against that promise: their `job`
variable is `DurableJob`'s state and they change it only by its steps (`Queue!Submit`,
`Queue!Attempt`, `Queue!Succeed`, ...), so leases and backoff need not be modelled again;
`StorageUsesQueue` and `ErasureUsesQueue` prove that every behaviour of theirs is one of `DurableJob`.
`Tasks` extends `CreditLedger` and interleaves with its transactions. What an
erasure does to another component is an action of the module that owns the table:
`CancelScheduledErasure` and `ScrubSubject` (`JobQueue`), `EraseAccount`
(`SubscriptionSync`), `EraseMember` (`CreditLedger`, `Membership`), `EraseFile` (`Storage`).

### JobQueue

`jobs` is the table, `worker` the memory of each cron invocation, `caller` a request
between the two statements of `insertJob`, `done` the rows whose handler has run to
the end since they were last queued. `ClaimDueJobs` is the whole claim statement: the
`WITH` that buries jobs whose last lease expired, and the `UPDATE` that leases the
earliest due job, in one step. `MarkJobSucceeded`, `MarkJobFailed` compare `locked_at`
with the token as the `WHERE` clauses do and may lose. `ReviveStatement` and
`InsertStatement` are the two statements of an insert with a revive step.
`CancelScheduledErasure` and `ScrubSubject` are what the account lifecycle does to the
table; `PruneFinishedJobs` deletes finished rows after the retention. A handler is one
step that may succeed, throw, or be abandoned by its timeout and finish later.

### StripeWebhook

`row` is the claim table, `request` each POST being handled, `order`, `ledger`,
`reward` the tables of fulfilment and commissions, `queued` what was enqueued for
people; `sends`, `sentAt`, `acked`, `resends` are Stripe's side;
`Sent` says which deliveries a run has already used up when it begins. A claim is three
statements (`ClaimInsert`, `ClaimRead`, `ClaimUpdate`), because the window between
the `SELECT` and the `UPDATE` is where two deliveries meet. `MarkOrderPaidWithGrant`
and `InsertRenewalOrderWithGrant` are the two transactions; the side effects after
them are steps of their own, with `Throw` and `Crash` between any two. `Park` is
`action_required`, `Resolve` the administrator, `FixCause` whoever maps the missing
price. Reservation payments and subscription changes appear as events without effect
on orders; their tables are `Reservations` and `SubscriptionSync`.

`MayStall` separates the two deployments the repository documents. Where a platform stops a
request after `maxDuration`, a request never outlives the 15 minutes of
`PROCESSING_STALE_MS`: time advances only between requests. In Docker nothing stops a
request: time advances at any moment, and an event may be taken over while its first
handler sleeps. The properties about money hold in both; those about the claim are
stated for the first, because in the second they are false (see *Limits*).

### SubscriptionSync

Stripe's history of one subscription is `current`, `second`, `ended`; change *i* has
webhook event *i*. A handler ignores the payload: `Retrieve` takes the current
version, `Find` the local row, `Upsert` writes both under the guard on
`stripe_event_at`. A change has the `second` of the one before or the next. `Fail` may strike anywhere; `handleCheckoutSession` swallows an
exception of the sync, the lifecycle handler does not, hence `Checkout`. `EraseAccount` is the
erasure's transaction on this row. Its names (`SyncSpec`, `handler`, `failures`) differ from those of
`StripeWebhook`, so that one proof module extends both.

### Fefo, CreditLedger and Tasks

`Fefo` is the first-expiring-first-out replay: buckets, their order, and what each
debit takes from each. The code walks a sorted list and subtracts; `Consume` says what comes of it: a bucket gives what
the buckets before it (`Ahead`) left to be asked, as far as it goes. `CreditLedger` has one organization's `ledger`, the advisory
lock's `holder`, and requests that stamp an instant, wait for the lock, sum, allocate
and insert. A refund reads its plan before the lock, as `services/credit.ts` does,
and re-reads only whether a refund exists. `EraseMember` clears the private metadata
of the leaver's rows. It has the calls and the transactions; who calls is `Tasks`:
`task` is the table, `run` what a request of `createTextToVideoTask` holds (its place and
`transNo`, which is undefined until the spend has answered). Each awaited call is an
action, in the order of the code; `UpdateThrows` is an update that fails before or after it
was written, and `Spent` includes a spend that committed and whose answer was lost.
`logged` is the log line of a refund that failed. Grants and the playground's ping
(`LedgerNext`) go on beside the task.

### Reservations

`row` is a reservation joined with its order, by intent; `session` is Stripe's side,
`shown` the sessions whose page a customer can reach, `parked` payments the webhook
filed for a person. A request claims (`ClaimReused`, `ClaimNew`: one transaction
under the locks, including `expireReleasableHolds`), then opens a session (`Proceed`,
`Create`, `Store`) or, on a replay, retrieves, closes and releases (`Retrieve`, `Close`,
`Release`). `HandleCompleted` and `HandleExpired` are the webhook's transactions, `Pay` and
`Elapse` are Stripe's. The instant a request compares holds with is the one it
read before its first await (`asked`). An order's number is its Stripe idempotency
key, so creating twice returns the same session. The model is pessimistic about
Stripe: a session may stay payable past its `expires_at` until Stripe closes it. The
exclusion constraint of migration 0025 is left out on purpose: `NoOverlap` shows that
the code does not depend on it.

### Storage

`file` is the table, `object` the bucket, `url` until when a presigned upload is valid,
`job` the deletion job of each file. An upload is a sweep, a reservation under the quota
lock and a signature (`BeginUpload`, `SweepOne`, `Reserve`, `Sign`); a completion reads the
row, asks the provider and then updates (`BeginComplete`, `Head`, `Decide`); clients put
objects whenever their URL allows (`Put`), of the declared size or another. The handler is
three awaits (`Find`, `Erase`, `Mark`), it may throw, die or outlive its lease and go on
(`Lapse`), and an erasure runs the same three for every file (`EraseFile`). `by` is a history
variable: who first asked for a deletion, which tells the sweep's promise from a member's.

### AccountErasure

`user` and `request` are the rows of one account and its privacy requests, `thing` what
exists outside (`Marked` things, files, say in their own row that they are gone; the others
are known by the recorded effects), `artifact` the export documents in the bucket, `job` and
`runAt` the queued jobs. `BeginErasure`, `Plan`, `Effect`, `Record`, `Finalize` are
`runAccountErasure`; `BeginExport`, `Prepare`, `Put`, `Complete`, `Undo` the export;
`Expire`, `Remove`, `Clear` its removal. `Flip` is other people raising and lowering the
blockers, `Arrive` what webhooks and requests under way still create, and what they create too late (`"orphan"`).

### Membership

`role`, `org`, `invite`, `person` are the tables, `limit` the plan's, `pool` how many connections this server has. Each request asks once
(`AskRole`, `AskRemove`, `AskInvite`, `AskAccept`, `AskProvision`) and then waits for a
connection, for the lock its transaction takes first, and for what it does under it.
The three advisory locks (members of a user and of an organization, seats, personal
workspace) and the pool are conditions over what the other requests hold (`OrgFree`,
`UserFree`, `PersonalFree`, `Connection`), so a lock is released by the end of
its transaction and never forgotten. Under the seat lock the invitation plugin writes in connections of its own,
which is why a request there needs a second one. `CheckErasure` and `EraseMember` are the
two moments at which an erasure looks at owners and deletes members, without any of these locks.

### Checkout

`order`, `stored` are the tables, `session`, `customer`, `sessionKey`, `customerKey`
Stripe's side: what each idempotency key answers, and until when. A purchase inserts or finds its order
(`InsertOrder`, `FindOrder`), replays a stored session (`RetrieveSession`) or finds, adopts
or makes the customer (`RetrieveCustomer`, `ListCustomers`, `CreateCustomer`,
`RememberCustomer`), creates the session under the order's number (`CreateSession`) and stores it
(`UpdateOrderSession`). `OpenPortal` enters at the customer. `Pay` and `Settle` are the
person and the bank, `Return`, `ReadReturn`, `LookReturn`, `ReturnThrows`, `Answered` the callback (which asks Stripe even of a paid order, and says failed when a call throws),
`MarkOrderPaid` the webhook, `DeleteCustomer` somebody at Stripe's dashboard; `crossed` is a history variable for it. `Promise` maps this to `Purchase`: the sessions of an intent that
are settled, those whose money is there, the orders that are paid.

## The runs

All passing runs finish; none stops early. Deadlock checking is off everywhere because
every model has bounds at which the system legitimately comes to rest (no more events,
revivals, faults or time).

| Run | Bounds | What it shows |
|---|---|---|
| `job_queue` | 1 row, 2 workers, 1 caller, 2 attempts, every delay 1, 1 revival | `LeaseExclusive`, `LiveLeaseKept`, `FinishedStays` through reclaim, revival, cancellation and pruning; `KeepsPromise` (implements `DurableJob`); `EveryJobEnds` although handlers throw, hang or die |
| `webhook_paid` | three scenarios: a purchase and its refund with 2 deliveries each; 2 invoices of one period; an invoice beside a failed payment and a subscription change. 2 requests, 1 fault, requests may stall | `PaidIffGranted` and `KeepsPromise` (implements `PaidOrder`) even when a sleeping handler is overtaken; `CompletedFulfilled`; `OneNoticePerCycle` whichever invoice is on an unmapped price |
| `webhook_claim` | 1 event, 5 deliveries, 1 resend, 2 faults, 15 minutes = 1 tick | `HandledByOne`, `ClosedStays`, `EveryEventSettles` |
| `sync` | 3 changes (the first a checkout), each in the second of the one before or the next, 2 requests, 1 failure | `DoneIsReflected`, `CancellationArrives` in every order of delivery |
| `tasks` | 1 task with 2 spends, a ping, 2 grants (one expires at 1), 2 requests, 2 instants, 2 faults | `BalanceAfterExact`, `DebitsCovered`, `RefundRestores`, `TaskPaidOnce` |
| `reservations` | 2 overlapping slots, 2 intents, 2 requests, hold 2, clock to 4 | `NoOverlap`, `PaidHasSlot`, `HoldEnds` |
| `storage` | 1 file in use and 1 upload the plan holds only without it; cron, 1 member, 1 handler, 1 attempt, 1 fault, clock to 3 | `QuotaKept`, `ActiveHasObject`, `DeletingIsQueued`, `SweptLeavesNothing`, `NeverRevived`, `FilesEnd` |
| `account_erasure` | 2 erasures and an export of one account, 2 handlers, 2 attempts, 1 fault, 1 change of blockers, 1 late arrival, grace and retention 1 of 2 days | `ErasedEverything`, `GraceKept`, `StatusAgrees`, `ArtifactNamed` |
| `membership` | 2 organizations and 2 more to be made, 3 users, 3 invitations, 2 requests of any kind, the last seat free, 2 or 3 connections, 1 change of the limit, 1 person who may be erased | `OwnerKept`, `EveryoneBelongs`, `OnePersonal`, `SeatsKept`, `NobodyStuck` |
| `checkout` | 1 intent, 1 set of terms, 2 owners' emails, 2 sessions, 3 customers, 2 requests, 1 fault, 1 customer deleted at any time, sessions and keys that last 1 of 1 day | `ChargedOnce`, `ReturnIsHonest`, `OneCustomer`, `Repairable` |
| `webhook_reward`, `account_expiry` | as small as the counterexample allows | two [disagreements](#disagreements-found) |

Why these bounds are enough to be interesting. Every hazard in the table needs two
actors and one lapse, so two workers, requests or intents and one or two faults reach
it. Counters sit at the edge: with two attempts there is a first, a last and a
reclaim of the last; with a lease of one tick there is a tick at which it is exactly
as old as the limit and one at which it is older. Five deliveries let two crashes
each spend a delivery on a 409 before the takeover. Three changes of a subscription
give an old, a middle and a newest event. The clock of `reservations` runs past the
hold, past Stripe's closing and past a second booking of the released range. The quota of
`storage` is exceeded by one byte too many, the seats of `membership` by one person, and a pool
of two is used up by the two requests while one of three has a connection left. `checkout` has a moment before and one
after the keys may be forgotten, and one session, one customer and one owner more than a
correct run needs; the first owner's customer, its replacement, and one for the other. `tasks` lets
two failures combine: an answer lost after a write, then a crash in the catch. Every
property is sensitive to the code: for each, `PROJECT.json` names a plausible slip in
one definition (a dropped guard, `<=` for `<`, a side effect before its transaction)
under which the run finds it violated. Safety is moreover proved without bounds
where the table of theorems says so: `job_queue` has one row, and the interleavings within
a claim statement that touches several are the theorems' affair.

Symmetry is used in runs without liveness only.

## Fairness

Weak fairness, and of no more than the deployment provides:

- **JobQueue**: time passes; each worker's `Drain` continues. Cron calls the route
  every five minutes for ever, an invocation is bounded by its handler timeout, and an
  invocation that dies (`Crash`, never fair) is followed by another, which is the same
  worker going on from `idle`. Callers are not fair.
- **StripeWebhook**: a request that runs goes on (or dies); Stripe delivers an unacknowledged event
  again while it has retries left; time passes. No person is assumed to resend,
  resolve or map a price. `EveryEventSettles` therefore needs more deliveries than
  faults, which the bounds give (5 against 2, each crash also costing a 409).
- **SubscriptionSync**: requests continue and events not yet acknowledged are sent
  again.
- **Reservations**: time passes, Stripe closes an elapsed session and delivers its two
  webhooks until they are answered. No request is fair: `HoldEnds` holds although
  every request may die or never continue.
- **Storage**: time passes, cron runs its sweep, handlers go on or are replaced by another
  claim, a job out of attempts is buried (`GiveUp`), and a request that has reserved gets to its URL or is
  stopped, because requests are bounded in time. No member has to come back.
- **AccountErasure** states the fairness its workers have and uses it for no property;
  **Membership**, **Checkout** and **Tasks** are checked for safety only. That nobody waits for
  ever in `Membership`, but for an exhausted pool, is stated as an invariant (`NobodyStuck`): some request that has begun has what it waits for
  (`SomebodyReady`), and who has it (`Ready`) is exactly who can go on (`ENABLED`).

## What is proved

TLAPS, for any number of rows, requests, events, intents, files and people, and for all
delays:

| Theorem | States | Inductive invariant and argument |
|---|---|---|
| `AlwaysLeaseExclusive`, `AlwaysRowShape`, `AlwaysSucceededRan` | the safety invariants of the queue | `QueueInv` = types, row shape, lease exclusion, recorded success, `TokenOrder` |
| `AlwaysLiveLeaseKept`, `AlwaysFinishedStays` | a live lease ends only by its holder; a finished job stays | `QueueInv`, action by action |
| `QueueKeepsPromise` | `JobQueue` implements `DurableJob` | `QueueInv`; every step moves each row by a step of its life or not at all (`RowMove`) |
| `AlwaysPaidIffGranted` | an order is paid exactly when it has its one grant | `MoneyInv` = types, `LedgerExact`, `RewardOfPaid`, `Placed` |
| `WebhookKeepsPromise` | `StripeWebhook` implements `PaidOrder` | the steps of `MoneyInv`, mapped one by one |
| `AlwaysCompletedFulfilled`, `AlwaysOneNoticePerCycle` | a completed event has paid its order, given a checkout's commission, and is none that needs a person; nothing is said of messages. A cycle is announced at most once | `FulfilInv` = `MoneyInv`, `DoneRows`, what each place of a handler has done (`Past`), `OneAnnounces` |
| `AlwaysHandledByOne`, `AlwaysClosedStays` | one handler per event; closed events stay closed | `HoldInv`, where requests are stopped in time |
| `AlwaysDoneIsReflected` | a completed event is in the row as it was then, later, or in that very second | `SyncInv`; events may share a second |
| `AlwaysBalanceAfterExact` | every `balance_after` is the sum of the rows up to it | `BalanceInv` beside `LedgerInv` and `TaskInv`: a total read under the lock is still the sum (`SumFresh`) |
| `AlwaysDebitsCovered` | no credit is spent twice or after it expired | `CoverInv` beside `LedgerInv` and `TaskInv`: an allocation made under the lock is still there (`PlanCovered`) |
| `AlwaysRefundRestores` | a refund gives back, once and in full, to the terms the spend was charged to | `RefundInv` = `SpendOnce`, `NamesSound`, `PlansSound`, `Restored`, beside `LedgerInv` and `TaskInv` |
| `AlwaysTaskPaidOnce` | one spend per task, given back when it failed | `LedgerInv` = types, `RowsSound`, `CallsSound`; `TaskInv` = `RunType`, `OneRun`, `AskedByRun`, what each run and task knows |
| `AlwaysNoOverlap`, `AlwaysPaidHasSlot` | no double booking; payers have their slot | `SlotInv` |
| `AlwaysActiveHasObject`, `AlwaysDeletingIsQueued`, `AlwaysSweptLeavesNothing`, `StaysDeleted` | what is offered exists; deletions have a job; the sweep leaves nothing; nothing comes back | `StorageInv` = types, `FilesOK`, `RequestsOK`, `HandlersOK`, `Apart`, `CronOK` |
| `AlwaysQuotaKept` | the files kept never weigh more than the quota | `QuotaInv` beside `StorageInv`, over the lemmas about sums |
| `StorageUsesQueue`, `ErasureUsesQueue` | `Storage` and `AccountErasure` are behaviours of `DurableJob` | types; each step moves each job by a step of its life or not at all |
| `AlwaysErasedEverything`, `AlwaysGraceKept`, `AlwaysStatusAgrees`, `AlwaysArtifactNamed` | an erasure removes everything there is at its end, not before its time; user and requests agree; documents are named until their expiry job is due | `ErasureInv` |
| `KeepsOwners`, `KeepsBelonging`, `AlwaysOnePersonal` | no last owner and no last membership is lost; one personal workspace | `MemberInv` |
| `KeepsSeats` | nobody takes a seat that is not there | `SeatInv` = `AllSeatSafe`, `AllApart`, `AbsentEmpty`, `TornAlive`, beside `MemberInv` |
| `AlwaysSomebodyReady` | requests never wait for each other in a circle, but for a pool of which every connection is taken while a seat lock is held (`Exhausted`) | `AllStaged` beside `MemberInv`: where a request is tells what it waits for |
| `AlwaysChargedOnce`, `AlwaysReturnIsHonest`, `AlwaysRepairable` | one charge per intent; told failed only if a call of that return threw, told success only of a paid order; a crash is repaired where the organization has one customer and none was deleted | `CheckoutInv` = types, `KeysOK`, `OrdersOK`, `CustomersOK`, `RequestsOK` |
| `AlwaysOneCustomer` | one buyer is one customer at Stripe, unless a deletion crossed requests that go by different customers or by none (`crossed`) | `CustomerInv` = `CheckoutInv`, `OneChain`, what a request knows before it mints (`Minting`) |
| `CheckoutKeepsPromise` | `Checkout` implements `Purchase` | `CheckoutInv` and `PaidOK`; only `Pay`, `Settle` and `MarkOrderPaid` are steps of money |

Why the invariants are needed.

*Queue.* Lease exclusion is not inductive: a worker may hold a token on a row that was
buried, revived and leased again, and nothing in `LeaseExclusive` says that its token
differs from the new one. `TokenOrder` does: a token left behind is strictly older than
the clock by the time its row may be claimed again, because `LeaseExpired` is strict, because a
backoff is at least one unit, and because only jobs of an erasure are cancelled while
the keys that can be revived are others (`KeyAssumption`). The one assumption with content is that a retry
delay is positive (`RetryDelay(n) >= 1`), which `BACKOFF_BASE_MS` satisfies.

*Money.* `PaidIffGranted` counts rows. `LedgerExact` says what the rows are: exactly the
image of the paid orders under the grant's key. The unique key of the ledger and the
transaction around it are then enough, and no claim on the event is needed, which is
why the theorem also covers a server that lets requests stall. `Placed` records what a
handler between transaction and side effect already knows.

*Fulfilment.* A completed row is written by a request that remembers nothing of its transaction but where it
is. `Past` says what that place has done: past the transaction the order is paid, past `reward` the commission is there.
It stays so because orders and commissions of a checkout are never taken back (`MoneyGrows`). `OneNoticePerCycle`
counts the requests on their way to the notice with the notices queued (`Announces`): the first comes from the
insert of the order, which the unique key lets happen once, whichever of the period's invoices made it.

*Claim.* No mark checks who holds the row, so exclusion rests on time alone: a holder's
row is `processing` and was written in the current instant, hence not stale to anyone
who reads it (`HoldCore`). A request between its `SELECT` and its `UPDATE` that saw a
stale row either still finds it or finds one written just now, and loses.

*Sync.* The event's time and the retrieved version are read at different moments;
`FreshRead` says a request holds a version at least as new as its event, `RowCurrent` that the
row's version happened in the second of its `stripe_event_at` or later. A completed event is not newer than
`stripe_event_at` (`DoneIsOld`), whether its upsert was applied or rejected; so the row's version is not older than the event, or of the
same second, where the guard accepts either order. The property says exactly that, and no assumption on the seconds is made:
Stripe's `created` does not tell all events apart.

*Ledger.* The replay is a recursive function over the rows, and what it computes for every ledger is a
statement about all sequences. It is proved without an induction principle over formulas: a set of numbers that has
0 and the successor of each member is all of `Nat` (`Induction`, by a least counterexample), and two replays are compared row by row
(`History`, `HistorySame`). Consumption is closed in form, so that what is taken is the amount or everything there is (`ConsumeCovers`).
`DebitsCovered` is then about time. A spend reads the balance at an instant under the lock, but its rows carry
`created_at`, read before the lock; it may wait across an expiry, and the later replay charges it at the earlier
instant. `AvailableLater` says that what can be spent at an instant could be spent at every earlier one, and
`PlanSum` that the parts of an allocation, grouped by expiry and order, add up to no more than was allocated; together they make
`PlanCovered` survive until the insertion, as nobody else writes under the lock but an erasure, which does not touch what the replay
reads. Every step of a task is a step of the ledger or leaves it alone (`NextIsLedger`).

*Refunds.* A refund reads before any lock what the spend took, and writes after others have spent, granted and let expire. Its plan
stays right because what a debit took depends on the rows before it only (`TakenKept`), a spend gets no more rows once its request is past
them (`SpendOnce`), and nothing but an erasure makes a row forget whom it belongs to (`NamesSound`). The code sums what was taken over the
rows of the spend, each row naming one part; the property sums over the terms of the grants. `RowsAndColumns` exchanges the
two sums, and `RefundRepays` applies it to the rows a refund appends.

*Tasks.* A task is charged by the request that won its key (`OneRun`), which asks for one spend under one of the task's
transaction numbers (`AskedByRun`); a `failed` task with a standing spend is one whose refund threw, and the log names it.

*Slots.* Overlap alone is inductive once one knows how a row may change in a step
(`RowsMove`): only a claim makes a row active, and it looked at every range.
`PaidHasSlot` needs the other four conjuncts: what a request at each line knows of its row
(`RequestsKnow`), that a page is shown only of a stored session (`ShownIsStored`), that
only a shown session is paid (`PaidWasShown`), and that a hold with a stored session is
released only when that session is closed for good (`HeldReleasedClosed`).

*Files.* A completion acts on what it read two awaits ago. What makes that safe is that rows
move in one direction only and that an object is taken only from a row on its way out: a
request that saw an object under an `uploading` row either still finds the row so, and then the object is there, or
finds it otherwise and does nothing. The sweep's part needs a race against
the clock: a row is stale only after its URL has expired (`StaleAssumption`: fifteen minutes
and a request against an hour), and the member who reserved is not between insert and signature any more.

*Quota.* The sum of `reserveFileWithinQuota` is over `files.size`, which a completion that finds another size corrects
before it has the file deleted. A client that puts less than it declared therefore makes room while the declared
sizes still add up to more, and one that puts more fills the quota without a reservation. What is kept is the sum of the smaller of both
(`Weight`), and that for any sizes. The fold that defines a sum is unfolded by a least counterexample: the set on which it had no
value and all of whose smaller sets had one would have one (`SumIs`), and the same argument compares two sums element by element (`SumLess`).
`StoredAssumption`: the files the organization begins with are finitely many and within the quota.

*Erasure.* `Begun` makes an effect legitimate: the request was due and nobody can cancel it
any more, and this lasts whatever other handlers do to the same request. `ErasedEverything` does not rest on
the plan, which is stale when it is carried out, but on the last transaction, which compares what is listed
with what was recorded (`Pending`).

*Members.* `Safe` says what a request knows under its lock: who else is an owner, that the
person has another organization. The members lock keeps it true against other requests;
against the erasure, which waits for no such lock, it is true only up to an owner it took. `OwnerKept` names
this exception, and the proof shows that it is the only one. `StartAssumption` gives every
organization that has members an owner, as its creation does, and none to an organization that does not exist, as the
members' foreign key does.

*Seats.* A request counts members and invitations under the seat lock and writes later. `AllApart` says that nobody else
is under the lock of that organization meanwhile, so that the count can only have fallen (`SeatFree`); a workspace that is
being provisioned is nobody else's yet, and the organizations an erasure checked are still there (`TornAlive`), so no
member appears in one that is not.

*Waiting.* Where a request is tells what it waits for (`Staged`), and the lock of an organization comes before that of a user.
`SomebodyGoes` follows it: who is past its last lock needs a connection at most; who waits for a user's lock waits for a request
that is deleting and needs nothing; and where everybody is still before its first lock, nobody holds one. What remains is the pool, of any size: who wants a
connection finds one, or all are taken. Those who hold a connection without a seat lock need no second, so then somebody holds a seat lock
(`Exhausted`). This is the deadlock the code has (see the disagreements); the theorem says it is the only one.

*Purchase.* A key answers with one session for as long as Stripe keeps it (`KeysOK`), and a session
can be paid no longer than that, so what can be paid is what the key answers with;
`Lifetime <= KeyKept` is the one assumption with content (both are 24 hours). An order
that has stored a session never asks for another under the same terms (`OrdersOK`). `Repairable` needs to know whose
customer a session has while the process that made it may be gone (`CustomersOK`).

*Customer.* A customer is made under a key that names the one the request knows to be gone, so each deleted customer points to
its replacement. `OneChain` says that whatever the organization or a request knows is alive or lies on one such chain; two requests
that mint then name the same key, or one of them finds the other's customer by its email. A customer may be deleted at any moment. When one is
that somebody goes by while somebody else goes by another that is gone, or by none, the two name their replacements by different
keys; `crossed` remembers such a deletion, and `Uncrossed` is what holds until then.

The assumptions on constants are named in each module and evaluated by TLC in every run.

Only model-checked:

- all liveness (`EveryJobEnds`, `EveryEventSettles`, `CancellationArrives`, `HoldEnds`,
  `FilesEnd`), because the prover does not handle fairness;
- of `NobodyStuck`, that a request which is `Ready` can take its step: it says `ENABLED`.

## Disagreements found

Each is a run that TLC ends with a counterexample.

1. **A renewal's commission can be lost** (`webhook_reward`, `route.ts:553`). The side effects
   run only in the delivery that inserted the order; if it dies after the transaction, the
   redelivery finds the order and skips them. The comment (line 549): they "must fire
   once per cycle". The one-off checkout does not have this flaw: `CompletedFulfilled`
   includes its commission.
2. **An export may never expire** (`account_expiry`, `models/account-lifecycle.ts:1014`). Each attempt
   moves `export_expires_at`, but the expiry job is inserted once, with the first attempt's time.
   After a retry it runs too early, does nothing, and has succeeded. The comment
   (line 961): the artifact "has a durable expiry path".

Met while modelling, and not given a run:

*Stripe*

- The sweep lists `action_required` and old `failed` rows (`services/stripe/sweep.ts:53`). A request that dies in
  `processing` on Stripe's last delivery leaves a row nothing retries and the sweep never lists, although its comment (line 36) says
  "Find webhook events that will not resolve themselves".
- Two changes of a subscription in one second (`models/subscription.ts:132`): the guard
  accepts equal times and the object is retrieved before the upsert, so the older
  object may be written last and stay. The comment (`route.ts:629`) says either delivery
  writes "the same latest state". `DoneIsReflected` and `CancellationArrives` name the exception: a cancellation in the second of another
  change may leave the local row active for good.
- On a server without a request limit a late mark can overwrite a row an administrator
  resolved: the marks update by `event_id` alone (`models/stripe-webhook-event.ts:150`).
- An upsert that looked the row up before an erasure writes the real user uuid over the
  pseudonym (`services/subscriptions.ts:61`).
- A payer who comes back is told that the payment failed whenever Stripe or the database does not answer, even of an order that is paid
  (`services/checkout.ts:147-148` asks before line 158 looks; `app/api/pay/callback/stripe/route.ts:35,45-55` keeps `failed`). The
  test `tests/api/stripe.callback.test.ts:39-54` wants it so. `ReturnIsHonest` allows exactly this.
- `services/checkout.ts:405-407` says that a crash before the session id is stored is repairable by the next request. Stripe refuses the retry
  if the customer was deleted meanwhile, or if the retry comes with a second owner's customer. `Repairable` holds in between.
- A customer deleted while two requests go by different customers is replaced twice, and one replacement is stranded
  (`services/stripe/customer.ts:97`: the key names the customer the request knew). `OneCustomer` names this exception (`crossed`).
- Two owners whose first checkouts meet are told apart by their email, and Stripe refuses the second
  under the shared customer key until it forgets the key (`services/stripe/customer.ts:97`).

*Credits and tasks*

- An erasure makes refunds partial (`models/account-lifecycle.ts:1473`). It
  clears `metadata_json` of the leaver's ledger rows, which names the parts of a spend; a task
  of a shared organization that fails later is refunded from its first part only.
  `docs/database.md:155` says a refund "can restore all buckets atomically" and line 121 that nothing may `UPDATE` a row of
  the ledger. `RefundRestores` names this exception.
- A spend that waits for the lock across an expiry is charged by later replays to
  another grant than its rows name. Totals, coverage and refunds are unaffected.
- A process that dies between a spend and its task leaves the credits spent and the task `running`
  (`services/tasks.ts:115`). A spend that committed and whose answer was lost leaves `transNo` undefined: the task fails
  and is not refunded. A `succeeded` whose answer was lost is refunded, and if the process then dies, the task is delivered and free.
- The route counts the month's tasks before it inserts one (`app/api/tasks/text-to-video/route.ts:45`); two
  requests at the last place both pass.

*Reservations*

- `docs/database.md:232-236` says only a signed webhook releases the range of a stored session;
  the replay of an intent also does, after it has retrieved or closed the session
  (`services/reservations/index.ts:602-616`). `PaidHasSlot` shows that this is safe.
- `services/reservations/index.ts:627-629` speaks of releasing the local hold;
  `expireReservationHold` does nothing while the hold is still running, so the slot is free
  only once it has elapsed.
- A request that slept past its hold may store the session of a slot already released and
  show its page (`services/reservations/index.ts:648`). Whether it can be paid depends on
  how exactly Stripe keeps `expires_at`; if it is, the webhook parks the event.
  `PaidHasSlot` names this exception (`stored = "late"`).

*Storage*

- A member who deletes a pending upload does not wait for its URL: a client that puts afterwards leaves an object
  no row owns, although `models/file.ts:271` says a deleted row "owns no object".
  The sweep does wait (`SweptLeavesNothing`).

*Accounts and organizations*

- Between an erasure's check of owners and its delete, the only other owner can be demoted, and the organization has
  none; `docs/organizations.md:207` promises one. Only the request's members lock, which the erasure does not take, excludes this.
- An erasure whose retry meets a blocker makes the account active again (`models/account-lifecycle.ts:538-558`)
  after some effects were already carried out; the comment above it speaks of an irreversible boundary (line 561).
- A handler that outlived its lease can finalize an account whose request another handler had
  set `blocked`, or leave a request `processing` whose job has succeeded; an export that finds
  the account erasing can stay `processing` with a succeeded job.
- An upload of an export under way when an erasure finalizes, and whose process then dies, leaves a document
  no row names (`services/account-lifecycle/index.ts:431-432`). `ArtifactNamed` names this exception, and is silent once
  the expiry job is due.
- A request that passed its checks before an erasure finalized and inserts afterwards (an upload, a task) leaves a row and an object
  nothing looks for: no insert reads `lifecycle_status` (`models/file.ts:39-63`). `ErasedEverything` speaks of what was there at the last transaction;
  the rest is `"orphan"`.
- The request takes its locks in the order user, request (`models/account-lifecycle.ts:444-459`), the handler
  in the order request, user (509-519, 1269-1278): PostgreSQL may have to end one of them.
- "Every user has exactly one personal org" (`models/organization.ts:191`): an owner can leave a personal
  workspace that others have joined, and has none. A stale repair (`services/authz.ts:181-230`) or an acceptance
  under way can give an erased user a workspace or a membership.
- `docs/organizations.md:241-243` has the seat check and Better Auth's write under one advisory lock. That is so for the
  application's routes; the invite and accept endpoints Better Auth mounts itself count in a hook (`lib/auth.ts:275-296`), without
  it. Its removals and role changes are refused there.
- With as many invitations under way as the pool has connections, all wait for each other (`models/organization.ts:535`).
  `NobodyStuck` names this exception (`Exhausted`) and shows that there is no other.

## Limits

- A handler body in `JobQueue` is one step; `Storage` and `AccountErasure` break it open, on top of
  `DurableJob`. Mail, Slack and grants that jobs make stay one step.
- `StripeWebhook`'s claim properties assume that requests are stopped well before 15
  minutes. `webhook_paid` shows what remains true without it.
- Amounts, currencies and dates are left out of fulfilment and checkout. `tasks` has two grants
  and fixed amounts. Comped subscriptions, signup attribution, display summaries and
  credits older than the audit columns are left out.
- `Reservations` has one service; the catalogue, business hours, time zones, calendar files
  and mail are left out, and contact fields with them.
- The runs of `SubscriptionSync` take a subscription of a shared organization (`Personal = FALSE`);
  the proofs cover a personal one too.
- `Storage` has one workspace; checksums are a mismatch of size; the sum and the insert of a reservation are one step, as its advisory lock makes them.
- `AccountErasure` has one account; pseudonyms in the tables, audit rows, the content of exports and passwords are left out.
- `Membership`: the active organization of a session is left out (every request reads the membership again);
  accepted, rejected, canceled and expired invitations are one status; a member is known by organization and user; each request is made once.
  The endpoints Better Auth mounts itself are outside: that none of them takes a membership away (the hooks of `lib/auth.ts:301-312` refuse removals
  and role changes; whether the library asks them when somebody leaves is its affair) is an assumption of `OwnerKept` and `EveryoneBelongs`.
- `Checkout` has one organization; a request takes less than a day (time passes only
  between requests); the organization's name in the customer's data is left out. Its run has one set of terms; the proofs cover any.
- `Tasks`: the monthly quota and the tasks an organization takes with it are left out; the provider answers or throws.
- A shared clock: skew between servers is not modelled. The code compares instants of
  different servers without allowance, so the results hold up to skew smaller than the
  margins between its limits.
- PostgreSQL is taken at its word: statements are atomic, transactions isolated as the code
  asks, advisory locks exclusive. What a constraint rejects is modelled where code relies on it.

### Not modelled

Authentication (the library's state), authorization and entitlements (pure functions over rows
that other modules own), rate limits, mail and Slack rendering, reconciliation (read-only),
moderation, the two web applications, configuration and the schema as such. `PROJECT.json` gives
the reason for each. They are most of the repository's lines: pages and components, forms, catalogs of
errors and translations, and reads for display have no state that changes over time. What does change state is in a module.

## Plan

What is left, in the order of its worth:

1. An abstract specification for `AccountErasure` (live, pending, erasing, gone), with the refinement proved, and the
   payments of `Checkout` and the orders of `StripeWebhook` as one system over `Purchase` and `PaidOrder`.
2. The teardown of an organization: its tasks, files and subscription, across `Tasks`, `Storage` and `SubscriptionSync`.
3. Comped subscriptions beside Stripe's, with the plan they resolve to (`services/entitlements.ts`).
