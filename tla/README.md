# TLA+ models of the stock, order, outbox and token core of rocket-backend

rocket-backend is the NestJS backend of a parts seller. It publishes one
inventory on several marketplaces and on its own store, ingests the orders the
marketplaces report, books them in a stock ledger and sends every change of
stock back to all listings. State is in MongoDB, events go through RabbitMQ and
through an in-process event emitter, and work comes from webhooks, timers and
HTTP requests that run concurrently, in one process and in several.

The correctness of the system is the agreement between these parts: an order is
booked once however often it is reported, a cancellation returns what the sale
took, a change of stock reaches the listings, a deleted product is for sale
nowhere, the token of an account is not lost, and no crash, lost reply or
overlap of two handlers makes two of them disagree. This directory models the
seven components that carry that agreement, checks them with TLC and proves the
safety properties of each with TLAPS, for all values of the constants.

Paths below are relative to the repository; `order/...` means
`src/order/...`. The modules' comments quote the code they translate.

## 1. Inventory

| component | state | operations | interacts with |
|---|---|---|---|
| **Outbox** (`outbox/`) | `outbox_messages`: status, attempts, scheduledAt, claimId, processingStartedAt; per instance a cycle counter | `enqueue` (in the producer's transaction), `drainOnce` = `recoverStalePublishing`, `claimBatch`, `publish`, `markPublished`, `markFailedOrReschedule` | producers (order ingestion, product, listing), RabbitMQ |
| **Stock ledger** (`stock/`, `store-listing/`, `stock-shared/`) | `store_listing_stock_movements` (append-only), `_balances` per lot and box, `_lots` | `move` (with retry), `adjust`, transfer, `reverseMovement`, `editMovementViaAdjustment`, `correctTo`, `markUnitsAsDamaged`; `StockLedgerProvider`: `deductAndLink`, `revert`, `deductStandalone` | order ingestion through `StockLedgerPort`, product controllers, MongoDB transactions |
| **Order ingestion** (`order/ingest/`) | `orders`: status, logisticsStatus, shipping.substatus, items with productId, notificationStatus, `__v` | `OrderSyncPipeline.execute` = fetch, read, `decideIngestAction`, then register / deduct / update / cancel / recover | marketplace gateway, stock ledger, outbox (`requestSync`), event listeners |
| **Webhook inbox** (`webhook/`, `order/ingest/order-ingest.listener.ts`) | `webhook_inbox`: status, attempts, owner, leaseUntil, nextRetryAt | ingress: parse, `append` / `appendDead` (deduplicate on eventId); worker: `processPending` (find, claim under a lease), `processOne` (dispatch, done / retry / dead) | webhook controllers, order ingestion |
| **Order reconciler** (`order/reconcile`) | one checkpoint per marketplace account: cursor, failedRefs with attempts and backoff, interval; in-memory `running` | `runFor`: list the delta in pages, ingest what differs, retry failures, give up after 8, save | order gateway, ingestion |
| **Product deletion** (`product-deletion`, `marketplace-orchestrator`, parts of `listing` and `moderation`) | product: deletionStatus, deletionPendingListingIds; listing: status, externalId, publishingAt | `requestDeletion`, `removeListing`, `SyncResultConsumer.handle`, `onListingRemovalResult`, `finalizeDeletion`, the moderation removal worker | outbox, the orchestrator service (external), marketplaces |
| **Marketplace tokens** (`marketplace/auth`) | marketplace document: accounts with their tokens, active account, `__v`; per process `refreshLocks` and timers | `ensureValidToken(ByAccount)`, `forceRefresh`, `refreshToken`, timers, consents, profile refresh, `registerAccount`, `deleteAccount`, `setActiveAccount` | every marketplace call, the marketplaces' OAuth servers |
| **Fulfilment, cancellation service, rectification** (`order/fulfillment`, `order/lifecycle`) | the order document | `completePicking`, `retryLogistics`, `fixInconsistentCancellations`, `updateShippingStatus` | stock ledger, events |
| **Sale notification reconciler, stock divergence reconciler** | no state of their own | sweep over unannounced sales; compare ledger and balances, report | orders, ledger |
| **Ownership transfer** (`store-listing`) | balances, lots and movements of two store listings | plan, rename or merge in a transaction | stock ledger |
| **Checkout, cart, payment** (`checkout`, `order/lifecycle`) | cart, coupon use, direct order | `checkout`, `confirmPaymentByMpId`, `updateShippingStatus` | Mercado Pago |
| Notifications and WhatsApp queue, listing queries, moderation polling, returns, fiscal documents, price tracker, pricing, catalogue import, questions, reviews, users, images, finance | one document store each | CRUD, pollers and calls to external services | mostly independent of the above |

How they interact on a sale: a webhook is appended to the inbox, its worker emits a
command whose listener (or the reconciler, or a manual sync) calls `execute`, which asks the token broker
for a token and the marketplace for the order; one MongoDB transaction
writes the order, posts the movements and enqueues a sync request; the outbox
relay publishes that request; the publishers' results come back as messages and
update the listings. After the commit `PROCESSED` is emitted in memory and leads
to pricing and to the sale notification. A deletion travels the second half of
this path: removals go through the outbox, and their results close the product.

What is hard here, and which properties make the components correct:

* **Outbox.** `setInterval` does not wait for the previous `drainOnce`; claiming
  is find / updateMany / find; outcomes are written by `_id`, not by claim; a
  confirm, a write or the process may be lost anywhere. It must not say
  "published" of what the broker does not have, must not give up early, must
  not work on a message twice in normal operation, and must settle every message.
* **Ledger.** The idempotency of a reference is a read followed by a write, with
  no unique index; only snapshot isolation and the write conflict on the lot make
  it atomic. Retries, unknown commits and one operation without a transaction
  surround it, and the store of an item is looked up again by every request and
  every retry. A reference must post once per lot, balances must equal movements,
  and an answer must not outrun its commit.
* **Ingestion.** Fetch, read and act are three steps with other calls in
  between; only the registration is protected by a version. The order document
  and the ledger must agree: stock that is out must be known to be out, returned
  stock must have been taken, and a cancellation that is ingested with nothing else
  in progress must settle the order, whatever was left half done before.
* **Webhook inbox.** A lease nobody renews, outcomes written by `_id`, a `now`
  taken before a loop of awaited writes, redeliveries, and handlers that run detached
  from the worker. An entry must be claimed by one worker at a time, its command
  must be emitted once and again only for a reason, it must be given up only after its
  attempts, and never be dropped once acknowledged. That its handler succeeded is
  more than `done` says (finding 4).
* **Reconciler.** A cursor saved at the end of a run over a list that moves while
  it is paged, failures in the same document, and several instances. No order may
  be passed over, no failure forgotten.
* **Product deletion.** Requests overlap, for the test that none is pending is read
  long before the product is written; registration and results race, results come
  in any order and two at a time, jobs are given up by the outbox, listings are
  locked by others. A product must not be erased while an item of it is for sale,
  and a removal by hand must not be taken for one by moderation. That a deletion
  ends is more than the code gives (section 4).
* **Tokens.** A refresh token is taken once. The lock is one process's, a token
  is written alone while others write the array around it, and timers die with
  the process. Refreshes of one process must not lose the last granted token, a
  token that can be timed must keep its timer, and an answer must be of the account
  that was asked for. What several processes, or a crash between the exchange and
  the save, do to a token is said where it is excused (`contested`).

`PROJECT.json` lists every component with its status and every hazard at its
line, with the properties that cover it or the reason none does.

## 2. Modules

| module | models | state and actions |
|---|---|---|
| `OutboxPromise` | what a work queue promises its producers | one state per message: none, owed, sent, given_up |
| `Outbox` | `outbox/` | `doc` is the collection, `delivered` the broker, `call`/`work`/`seen` the local state of the `drainOnce` calls, `cycle` the field of each instance. One action per await: `Start`, `Recover`, `Find`, `Claim`, `Fetch`, `BrokerStores`, `Confirm`, `PublishFails`, `MarkPublished`, `Reschedule`, the two failing writes, `Crash`; `BecomeDue`, `Age`, `Stall` are the clock |
| `LedgerPort` | the contract of `StockLedgerPort` | the movements posted per reference |
| `StockLedger` | `stock/`, `StoreListingService.recordStockMovement` and `markUnitsAsDamaged` | `movements`, `balance`, and one record per handler: its request, position, attempt, snapshot (`open`, `view`), buffered writes (`buf`) and the lots others have written since (`clash`). A request is any of a set of lists of moves (`Posts`), and every `Open` of it finds its lots anew |
| `OrderIngest` | `order/ingest/` for one order | `remote` (marketplace), `order` (document), `out`/`back` (what the ledger has posted for the sale and for its cancellation), `calls` (the concurrent `execute` calls), `alone` (history: calls that fetched the cancelled order with no other in progress) |
| `WebhookInbox` | `webhook/` and the detached handlers | `changes`/`fetched` (each resource at the marketplace, and the last of it a handler fetched), `wire` (not acknowledged), `inbox`, `run` (one `processPending` per instance), `handlers` (executions under way). `Ingest` is the ingress; `Find`, `Claim`, `ClaimLost`, `Dispatch`, `MarkDone`, `MarkDoneFails`, `Retry`, `RetryFails` and `Crash` the worker; `HandlerFetches`, `HandlerDeclines`, `HandlerFails` the ends of a handler; `BecomeDue`, `Lapse`, `Overrun` the clock |
| `OrderReconciler` | `order/reconcile`, with `listOrdersSince` of the gateway | `market`, `local` (orders there and here), `cp` (the checkpoint with its version), `run` (one `runFor` per instance). `Load`, `List` (a page), `Pass`, `Ingest`, `Save`, and `ListFails`, `IngestFails`, `Crash` |
| `ProductDeletion` | `product-deletion`, `removeListing`, `SyncResultConsumer`, the moderation removal worker, for one product | `product`, `listing`, `live` (items at the marketplaces), `jobs` and `results` (messages), `caller` (who runs `removeListing`: any number of requests, and the worker). Every await of the four handlers is an action (`Request`, `ReadListings`, `Drop`, ..., `Register` of a request); `Perform` is the orchestrator, `GiveUpJob` the outbox after its attempts |
| `TokenBroker` | `marketplace/auth` for one marketplace | `doc` (accounts, tokens, active account), `grants` (the marketplace), `timers`, `booting` (per process), tokens without expiresAt (`Untimed`) or refreshToken (`Unrenewable`), and `calls`: requests, forced refreshes, timers, consents, profiles, registrations, deletions, activations |
| `MCOutbox`, `MCStockLedger`, `MCOrderIngest`, `MCWebhookInbox`, `MCOrderReconciler`, `MCProductDeletion`, `MCTokenBroker` | constants of the runs | definitions only |
| `OutboxProofs`, `StockLedgerProofs`, `StockBalanceProofs`, `OrderIngestProofs`, `WebhookInboxProofs`, `OrderReconcilerProofs`, `TokenBrokerProofs`, `ProductDeletionProofs` | theorems | see section 5 |

How they compose: `Outbox` and `WebhookInbox` both implement `OutboxPromise`,
the one with the broker as receiver, the other with the process's event emitter;
`StockLedger` implements `LedgerPort` for the references whose requests all find
the first item in one store (`SteadyRefs`); `OrderIngest` uses the ledger only as
that contract (`Posted`: a reference that has a movement posts no other one), so the
ledger's interleavings need not be repeated in it, and what it says of stock is said
of items that stay in their store. `OrderReconciler` takes an ingestion as one step,
`WebhookInbox` a handler as a start and an end, and `OrderIngest` assumes nothing of
either: it may be called at any time or never again. `ProductDeletion` has the outbox
as the set `jobs`, which keeps no order and may give a job up: what `OutboxPromise`
says.

Abstractions, and why they are sound here:

* *MongoDB.* A single-document update is atomic. A transaction reads from the
  snapshot of its first operation and fails at once when it writes a document
  that another open transaction has written or that was committed since the
  snapshot; outside a transaction a write waits for the lock. In the ledger the
  document that matters is the lot: `recordStockMovement` upserts it first and,
  with timestamps, the upsert always writes `updatedAt`. A transaction reads
  nothing but references from its snapshot, so `view` is the set of references.
* *Stores.* `StockLedgerProvider` finds the store of each item from its listing,
  within the transaction and so again in every request and retry. An ownership
  transfer may change the answer; the transfer itself is not an action, its effect is
  that `Open` chooses among the alternatives of the request.
* *Mongoose.* `save()` writes the fields that differ from what was read; one that
  replaces an array filters on `__v` and increments it. So the registration of an
  order, the failures of a checkpoint and the array of accounts are versioned,
  while a cursor alone, a token alone and the active account are not.
* *updateMany* in the outbox is one step; its filter is evaluated per document
  and no step depends on two documents.
* *Time.* `scheduledAt`, `processingStartedAt`, `nextRetryAt`, `leaseUntil` and
  `publishingAt` become booleans or small sets ("due", "stale", "lapsed"). In the
  outbox and the inbox they change by themselves while nobody works on the entry;
  that they change under a slow worker (`Stall`, `Overrun`, `LockLapses`) counts
  as a fault. When the reconciler's retries and a token's refresh are due is left
  open, which includes every timetable. A candidate of the outbox that was
  rescheduled between find and claim may be claimed before its new time, as in
  the code, whose update does not filter on `scheduledAt`; a worker of the inbox
  compares leases with the `now` of its run (`known`).
* *The order.* Statuses are one unconfirmed status, two confirmed ones and
  `cancelled`, because `decideIngestAction` tells only these apart, and two
  confirmed ones differ. A registration (upsert, deduction, final status,
  outbox rows) is one step, because it is one transaction; what it conflicts on,
  the version of the order and the unique `externalId`, is `CanSave`. Which items
  have a product and a store is chosen anew by every call. A write
  conflict of two registrations at the order document is not told apart from the
  version having moved: the second one ends in `RegistrationFails`.
* *Webhooks.* An event is its eventId, which names marketplace, topic and
  resource. The candidates of a run are a set: the code sorts them, the model lets
  the worker take them in any order. `owner` is written and never read. The listeners of
  orders, packs, shipments, questions and returns are `{ async: true }`, which the
  event emitter (external) runs detached with their errors suppressed: `Dispatch`
  starts an execution, and how it ends is no concern of the worker. It may fetch, it
  may return without (an unknown marketplace or account, `order-ingest.listener.ts:33, 35`;
  an API error turned into "no order", 117), and it may throw.
* *Reconciler.* Dates are the numbers of changes. `Delta` holds the orders
  whose status is `paid`, since that is what `getOrders` asks for when it is given
  no status (`mercado-livre-order.adapter.ts:45`), oldest update first, as the
  comment there says. An order that comes twice in a listing is gone through once.
* *Deletion.* The queue of results delivers again what was in hand when the process
  died; a retry that the consumer asks for is another such delivery. Attempts and
  backoff of the moderation worker are left open (it may find a listing at any
  time, and give it up or not).
* *Tokens.* A token is the account it was granted to and the number of the grant.
  The marketplace takes a refresh token once, from its account, and the last one
  only. Some grants carry no expiresAt or no refreshToken and get no timer. A process
  that starts while the marketplace is disabled sets none. A write and what follows
  its acknowledgement are one step; a lost acknowledgement is an event of its own
  (`SaveFails`).
* *Left out:* the TTL index of the outbox (published documents only), average
  costs, sale prices, unit documents of damaged stock, the payload mapping,
  signatures, payment data, WhatsApp and pricing listeners (their effect on the
  order is `Emit`), and what section 6 lists.

Some properties carry an exception, and the exception is a history variable that
names the ways in which the code lets it happen: `unreturned`, `torn`,
`overrun`, `failures` and `losses`, `slipped`, `created`, `excused`, `contested`,
`unattended`. Each is set by the actions that cause it and by no other, and the
property says that nothing else does. A hazard that is excused so is reported and
not caught; section 4 lists these as known weaknesses. `alone` is the opposite: it
names the condition under which something is promised.

A definition commented `fault` is the one below it with a plausible bug. No
action uses it; `PROJECT.json` lists which property each one breaks when it is
put in place of the correct one, which shows that the property can fail:

| property | broken by |
|---|---|
| Outbox `TypeOK` | `NextCycleUnwrapped`: the cycle is never reduced |
| `PublishedMeansDelivered`, `KeepsPromise` | `ConfirmableUnawaited`: the awaited confirm is "optimised" away |
| `GivesUpOnlyAfterMaxAttempts` | `LastAttemptEarly`: off by one |
| `ExclusiveWork` | `ClaimableAgain`: the claim does not filter on the status |
| `EveryMessageSettles` | `StalePublishingMissed`: no recovery |
| Ledger `TypeOK` | `AbortOnceMore`: one retry too many |
| `ReferenceOncePerLot` | `ConflictUnversioned`: commits since the snapshot are not a conflict |
| `KeepsPort` | `ReferenceExistsUnread`: the reference is not checked |
| `OnlyDamageMarkingDiverges` | `IncrementToBox`: the debit of a transfer is counted in no box |
| `AnsweredMeansPosted` | `ReferenceExistsAnywhere`: the check reads uncommitted writes |
| Ingest `TypeOK` | `NeverFinal`: `processing` is committed |
| `DeductedMeansTaken` | `SilentlyDeducted`: skipped items are ignored |
| `StockOutIsTracked`, `CancellationsArrive` | `SavesBlindly`: no version check |
| `ReturnsWereTaken` | `CancelsAnything`: any order is cancelled with a return |
| `CancelledMeansReturned` | `ReturnedAsSale`: the return uses the reference of the sale |
| Inbox `TypeOK` | `StatusAfterFailed`: a status the schema does not have |
| `DispatchedAgainForAReason` | `LapsedOrNot`: entries in progress are found whatever their lease |
| `GivesUpAfterMaxAttempts` | `LastAttemptEarly`: off by one |
| `ExclusiveUnlessOverrun` | `ClaimableTwice`: the claim does not look at the lease |
| `DoneIsFinal` | `AppendedAgain`: a duplicate resets its entry |
| Inbox `KeepsPromise` | `NeverReaped`: expired leases are not found |
| Deletion `TypeOK` | `StatusAfterMistyped`: the listing's status on the product |
| `ErasedMeansClosed` | `IsLastWhatever`: a failed removal counts as the last one |
| `ManualRemovalStaysManual` | `LockableAlways`: the claim ignores the lock |
| Reconciler `TypeOK` | `NextAttemptsDoubled`: attempts grow past the maximum |
| `NothingIsPassedOver` | `DivergentOnly`: shipping is not looked at |
| `FailuresAreRemembered` | `SavableAlways`: no version check |
| `DeadRefsStay` | `DeadLate`: a dead order is tried again |
| Broker `TypeOK` | `ScheduledAsAsked`: the timer is set for what was asked, which may be nothing |
| `LiveTokenIsKept` | `WrittenLate`: the token that was read is written back |
| `RefreshesAreAccepted` | `LockedNever`: no lock |
| `DeletedStaysDeleted` | `SavableAlways`: no version check |
| `TokensAreTimed` | `NotScheduled`: the timer is not set again |
| `AnswersFitTheQuestion` | `LookupAnyway`: an unknown account falls back to the one that publishes |

## 3. Runs

| run | instance | checks |
|---|---|---|
| `Outbox` | 1 instance, 2 overlapping calls, 2 messages, maxAttempts 3, batch 1, recovery every 2nd cycle, 2 faults; 0.9 M states | types, `PublishedMeansDelivered`, `GivesUpOnlyAfterMaxAttempts`, `ExclusiveWork` |
| `OutboxLive` | 2 instances with one call each, 1 message, maxAttempts 2, 2 faults | `EveryMessageSettles`, `KeepsPromise` (with liveness) |
| `StockLedger` | 2 handlers, 4 requests out of two sales of two items, a return of two items, a transfer, amendments, a correction, a damage marking; a product of order A is found in either of two stores; 1.3 M states | types, `ReferenceOncePerLot`, `OnlyDamageMarkingDiverges`, `AnsweredMeansPosted`, `KeepsPort` |
| `StockEdit` | 1 handler, 3 requests | `AmendmentsReachTheirAim` is violated |
| `OrderIngest` | 2 calls, 1 item, 1 substatus, 2 faults; 0.9 M states | types, `DeductedMeansTaken`, `StockOutIsTracked`, `ReturnsWereTaken`, `CancelledMeansReturned`, `CancellationsArrive` |
| `OrderItems` | 1 call, 2 items, no fault | `DirectCancellationHoldsNoStock` is violated |
| `WebhookInbox` | 2 instances, 2 events, maxAttempts 2, batch 2, 1 change per resource, 2 faults; 0.7 M states | types, `DispatchedAgainForAReason`, `GivesUpAfterMaxAttempts`, `ExclusiveUnlessOverrun`, `DoneIsFinal`, `KeepsPromise` (with liveness) |
| `WebhookLost` | 1 instance, 1 order, 1 change, no fault of the worker | `FailedHandlersAreRetried` is violated |
| `WebhookRepeat` | 1 instance, 1 shipment, 2 changes, no fault | `NotifiedChangesAreFetched` is violated |
| `ProductDeletion` | 2 published listings, 2 requests that may overlap, 2 results in hand, 1 disturbance (sync, moderation, worker, crash, missing token, failed or slow removal, job given up); 2.1 M states | types, `ErasedMeansClosed`, `ManualRemovalStaysManual` |
| `OrderReconciler` | 2 instances, 2 orders (one paid at first), page size 1, maxAttempts 2, 2 changes, 2 faults; 1.0 M states | types, `NothingIsPassedOver`, `FailuresAreRemembered`, `DeadRefsStay` |
| `TokenBroker` | 1 instance, 2 accounts, 2 calls, 2 grants per account (the second without expiresAt for one account, without refreshToken for the other), 2 events; 1.3 M states | types, `LiveTokenIsKept`, `RefreshesAreAccepted`, `DeletedStaysDeleted`, `TokensAreTimed`, `AnswersFitTheQuestion` |

Why the bounds are enough.

* *Outbox*: every hazard needs two calls at one message; a batch of one with two
  messages makes the batch limit bite; three attempts and two faults let one call
  hold a counter that is two behind; recovery every second cycle lets one call
  recover while the other claims.
* *Ledger*: two handlers are one conflict; three attempts let a request use its
  retries up; four requests are a sale, the same sale again, its return and
  something that interferes. The second lot and the second item are there for the
  moves of one request: the first item posts, the second one meets its own
  reference. The third lot is the other store of a product, so that two sales under
  one reference, or two attempts of one sale, meet on different lots. Since MongoDB
  fails a conflicting write instead of queueing it, handlers cannot wait for each
  other; no run asks that question.
* *Ingestion*: two calls at a time already give the stale writer, the losing
  registration and the repeated cancellation, because a call starts again as soon
  as it ends; the number of calls over time is not bounded. Two faults are one
  crash during each of two calls. One item is no loss for the passing runs, since
  by the finding on `OrderItems` an order of several items never becomes
  `deducted`, unless one item alone has a product.
* *Inbox*: two instances are one claim lost and one overrun lease; two attempts let
  an overrun worker write a smaller counter than the entry has; a run of two events
  has one waiting while the other is worked on. Two faults are two rounds that end in
  the catch block, or an overrun and the crash of the other worker. Redeliveries, runs
  and executions of a handler are not bounded.
* *Deletion*: two results in hand are the lost update; two requests overlap or follow
  each other; one disturbance meets them at any point. What needs two disturbances,
  such as a moderation and a publication in one deletion, and listings that were never
  published, are left to the proofs, which bound neither.
* *Reconciler*: pages of one are pages that end between any two orders; two orders
  are the smallest list that can move; two attempts are a failure, then a death;
  two instances save over each other. With two faults one order dies, or one
  failure meets a crash.
* *Tokens*: two calls in one process meet at the lock or, since the other calls take
  none, without it; two accounts are what a fallback goes wrong with. Two events are,
  for instance, a deletion and a consent, or a registration and a crash. Several
  processes are left to the proofs, which do not bound them; what the properties say
  of an account that two of them refresh at a time is that it is `contested`.

Deadlock is checked everywhere except in the ledger runs, where all
`MaxRequests` requests may have been served; in `ProductDeletion`, which ends
when the product is erased or waits for a result that was lost; and in
`TokenBroker`, where nobody has to ask for anything.

The symmetry of messages, calls, handlers, instances and listings is used in runs
without liveness only.

### Fairness

* `Outbox`: the timer keeps firing and an awaited call settles, so each step of
  a call and one outcome per message are weakly fair; time passes (`BecomeDue`,
  `Age`). Nothing is assumed of the broker's answer, of producers or of faults.
  That `publish` settles at all is the confirm channel's behaviour.
* `WebhookInbox`: a marketplace delivers a notification until it is acknowledged,
  the timers keep firing, an awaited call settles, backoffs and leases end.
  Nothing is assumed of the handlers, not even that they end, and `emitAsync` (external)
  returns without waiting for them.
* The others state no liveness and assume no fairness. In `OrderIngest` nothing
  obliges a change to be ingested again (a repeated notification may be a duplicate,
  and the reconciler lists paid orders only), so `CancellationsArrive` is an invariant
  about the ingestions that do happen; the choice of linked items and stores stays
  hostile in it, and what a cancellation could not return counts as `unreturned`. A ledger request may fail for
  good after its retries. A deletion need not end (see below). The reconciler's next
  run and retry are left open. A token need not be asked for.

## 4. Findings

1. `StockEdit` (`stock.service.ts:227`): an edit is computed from the original
   movement and ignores earlier edits, although `newQuantity` is documented as the
   absolute quantity.
2. `OrderItems` (`stock-ledger.provider.ts:66`): all items of an order share one
   reference, so only the first is deducted; the order is `unresolved`, and its
   cancellation takes the "never deducted" path and leaves that stock out.
3. `WebhookRepeat` (`mercadolivre.adapter.ts:27`): the eventId of a shipment (and of
   an order) names the resource and nothing that changes with it. The second
   notification finds the entry of the first and is acknowledged without being
   handled, so the statuses the topic was added for stay frozen until the
   reconciler looks.
4. `WebhookLost` (`webhook-inbox.worker.ts:64`): the listeners run detached from the
   worker and their errors are suppressed, so an entry is `done` when its command is
   out. A handler that throws, or dies with its process, is not tried again, although
   the design document (`docs/superpowers/specs/2026-06-06-webhook-ingress-layer-design.md:78`,
   251) has transient failures retried by the worker. `attempts`, backoff and dead
   letters serve only the worker's own writes.

Known weaknesses. The properties state them as the code's own limits rather than
as findings; each is the exception of a property or was met in modelling.

* *Ingestion*: a return that throws or finds no store is dropped when the order is
  cancelled (`unreturned`). The decision reads `existing.shippingSubstatus`
  (`order-ingest.decision.ts:62`), which the document does not have (its substatus
  is `shipping.substatus`), although the comment at 58-60 and `order.schema.ts:179`
  speak of a delta: every re-ingestion with a substatus takes `UPDATE_SHIPPING`,
  which shadows the recovery (58-60) of a notification lost in a crash. No property
  promises that a sale is announced, nor that a cancellation is ever ingested: a later
  notice of an order may be a duplicate to the inbox (finding 3), and the reconciler
  lists paid orders only.
* *Ledger*: a reference may post once in each store its product is found in
  (`stock-ledger.provider.ts:52-57`, `93-98`; an ownership transfer between two calls,
  `ownership-transfer.service.ts:181-182`, changes it), so a sale that is processed
  twice may be booked twice; `ReferenceOncePerLot` says once per lot. A damage marking that dies half way leaves balance and ledger apart (`torn`).
* *Outbox*: a slow relay may send a message again after another one gave it up
  (`Resume` in `OutboxPromise`), and consumers may see a message twice.
* *Inbox*: finding 4, and with it: packs and shipments whose API call fails, and
  orders of a marketplace or an account that is not known, return without a fetch
  (`HandlerDeclines`). A worker whose lease ends while it waits for the database has
  the command emitted twice, and the later outcome wins (`overrun`); a failed write of
  `done` emits it again as well (`failures`).
* *Reconciler*: the delta holds paid orders only, so a cancellation that no webhook
  brings is never listed, although the header speaks of orders "whose status got
  stuck"; together with `WebhookRepeat`, a cancellation after a handled notification
  is not ingested by either. An order that leaves the list between two pages moves
  the next one past the page; an order that failed in one instance after another
  had retried it is skipped (both `slipped`; the comment at
  `order-reconciler.service.ts:41-42` says nothing is lost in silence). A later
  change of a dead order is skipped as well.
* *Deletion*: the comment of the service (`product-deletion.service.ts:17-24`) has the
  product erased once the last result is in. It may stay `pending` for ever instead,
  with another request refused: a result that arrives before its request is registered
  is ignored; a removal without a token sends no job but is waited for; a job may be
  given up by the outbox (`outbox.repository.ts:53-56`); two results write over each
  other's list; and so do two overlapping requests (46 and 74 are a check, then an
  act). `ProductDeletion` has all of these and states no property against them; the
  two it states hold in spite of them. A publication under way escapes the erasure
  (`created`). The worker sends every `pending_removal` listing as moderated, and
  only the lock turns it away (`excused`); a late success of a publish sets a removed
  listing active again. The status `removed_by_moderation` is not in the enum of
  `listing.schema.ts:43`.
* *Tokens*: `refreshLocks` is one process's. Refreshes of one account in two processes
  present one refresh token twice, and may save the older answer last; consents,
  profiles, registrations and deletions take no lock at all; a crash, a lost reply or
  a failed write between the exchange (`marketplace-token-broker.service.ts:349`) and
  the save (350) loses the token the marketplace has just granted. After each of these
  the account is `contested` and nothing is promised of its token. A timed refresh that
  fails, even for a moment, is not scheduled again before the process restarts, and an
  old array written back restores a token without its timer (`unattended`). Tokens
  without expiresAt have no timer (`token-refresh.scheduler.ts:59-60`), tokens without
  refreshToken or loaded while the marketplace is disabled none either
  (`marketplace-token-broker.service.ts:359-364`); the latter make the account
  `unattended` too. The timer of a
  deleted account refreshes the one that publishes, under the wrong lock. The
  active account may be one that was just deleted; the first one publishes then.

## 5. Proofs

`tlapm` checks every theorem for all values of the constants. The assumptions are
the named ones in the modules; they give the constants their types unless noted.

`OutboxProofs`:

* `TypeCorrect`, then `Invariance` of
  `Inv = TypeOK /\ Accounted /\ Owned /\ SeenBehind /\ PublishedMeansDelivered /\ GivesUpOnlyAfterMaxAttempts`.
  None of the safety properties is inductive alone. `Accounted`: a call past the
  confirm has its copy on the broker, hence `Published`. `Owned`: who works on a
  message that was never recovered holds its claim, and a document has one claim,
  hence `Exclusive`. `SeenBehind`: a counter a call has read is at most the
  document's, hence a last attempt by the stale counter is one by the real one
  (`GivesUp`).
* `Implements`: `Spec => Promise!SafeSpec`, each action mapped to a step of the
  promise or a stutter under `stateBar`.

`StockLedgerProofs`, where `OneReferenceAssumption` says that all moves of one request
carry one reference, as `deductAndLink` and `revert` give it to them:

* `Invariance` of `Inv`: `movements` is a sequence in which no pair of reference and
  lot occurs twice (`Posted` is the set of these pairs), answered references are in it,
  the handlers' open writes touch disjoint lots, and each handler is `Sound`: `Formed`
  (its program counter fits its request and buffer), `Rooted` (where the first move of
  what it serves may be, `Starts`), `Isolated` (every lot on which a reference was posted
  since its snapshot is in its `clash`), `Checked` (past the check, its reference is in
  no buffer but its own and was not in its snapshot). The argument is the one the code
  relies on without saying so: a transaction that would post a reference again on a lot
  must first write that lot, which is in conflict for it.
* `Once` (`ReferenceOncePerLot`), for any changes of store between calls and retries,
  and `Answered` (`AnsweredMeansPosted`). `Implements` (`Spec => KeepsPort`): the port's
  promise of one movement per reference for `SteadyRefs`, those whose requests all begin
  in one store. Of the others it is false, as section 4 says.

`StockBalanceProofs`, which besides assumes that handlers and boxes are finitely
many (`FinitenessAssumption`: a process serves finitely many requests, and a sum
over infinitely many boxes means nothing):

* *Sums.* A balance is a fold over a set, which the community modules define by
  recursion. `SumStep` shows that the recursion holds of finite sets, `SumTake` that
  the order of summation does not matter, and `SumAdd`, `SumJoin`, `SumImage` how a
  sum changes with its set. The inductions are in set form: the sets that satisfy
  the claim contain, with `WFMin` of the library, every finite set, so no theorem is
  instantiated with an operator. `TotalConcat` then says that appended movements add
  their own total to every box.
* `WellTyped` (`TypeOK`). Types alone are not inductive, because a handler indexes
  sequences. `Typed` adds `Fits`: a handler about to read serves a correction, or the
  amendment of a movement that exists; one that counts or records damage serves a
  damage marking, and what it will record is what it counted down. The rest (a
  position within the moves and legs of the request) is `Placed` of the invariant
  above.
* `Balanced` (`OnlyDamageMarkingDiverges`), inductive together with these two. A
  commit adds the same total to movements and balances; `CountDamage` takes from the
  balance what the marking then owes (`Owed`), `LogDamage` posts it, and a crash moves
  it to `torn`; every other step is `Quiet`.

`OrderIngestProofs`: `Inv` adds to the types and the three properties `Fresh` (a
registration that can still save has read an order whose stock is not taken, and
it is still so), `Cancelling` (a cancellation in progress returns what is out, and
is past the return once that is back or on record), `SingleOut` and `DeductedSome`
(at most one item goes out, and one has if the order says `deducted`). The version
check is what keeps `Fresh`, and `Fresh` is what lets nobody replace the items of an
order that is being cancelled. `Tracked` (`StockOutIsTracked`) is proved of orders of
one item: of others it is false, which is the finding on `OrderItems`. `Arrives`
(`CancellationsArrive`, of the same orders) has an invariant on top of `Inv`: `HeldOpen`
(no document is cancelled and deducted at a time, so that every ingestion of a
cancellation finds something left to do or nothing), `Settling` (once a call has begun
alone on the cancelled order, every call has fetched it as cancelled, and this one goes
to a step that settles it), `ActingCall` (a call about to write another status has
fetched that status and acts on stock that is out) and `SteadyCall` (the status a sale
has read is still the document's, or its save is too late).

`WebhookInboxProofs`: `OneAtATime` (a worker past the claim has one entry),
`Notified` (entries stem from changes, malformed ones are never worked on),
`Leased` (unless its lease ended, who works on an entry holds it, and no other
worker believes the lease to have ended), `Counted` (attempts, written or read, never
exceed the rounds that failed). `Leased` gives `Exclusive` and `Final`, `Counted` gives
`GivesUp` although the counter may go back. `AgainForAReason` has an invariant of its
own, `PayInv`: the commands that are out, those that workers are about to emit, and one
more if the entry can still be claimed, are together at most one more than the rounds
that failed or were lost (`Paid`), and a lease that a run believes to have ended has
(`Expired`). `Implements` is the refinement of the safety part of
`OutboxPromise`, with the emitter as the receiver.

`OrderReconcilerProofs`, for finite sets of orders with distinct dates: `Dated`
(dates are in the past), `Loaded` (a run differs from the checkpoint it loaded only
in the orders it has tried, and those it took off were ingested), `Recorded` (what the
cursor has passed and is behind is on record, and no run that could still save has
taken it off) and `Covered` (what a run would make the cursor pass has failed in the
run, or is recorded). `Covered` is what is needed for a cursor that is saved alone,
over any version; the version check is used for the failures (`Remembered`).

`TokenBrokerProofs`: `Named` (accounts that never were have no token; a refresh is of
the account whose lock it has unless that one was deleted), `Owned` (an account that
is not contested has one holder: one call that has read its token or got a new one
and will write it), `Current` (the holder presents the last token or has it in hand),
`Copied` (an array that can still be saved is the document's but for contested
accounts), `Asked` (what a call answers with if the refresh leaves nothing). `Owned`
and `Current` give `LiveTokenIsKept` and `RefreshesAreAccepted` together; neither
holds without the other. `TokensAreTimed` (`TimersKept`), of the
tokens that can be timed, has an inductive invariant of its own (`Placed`). The other properties follow from `Inv`. It assumes that there is an
instance, and that accounts are numbers (the order of the array).

`ProductDeletionProofs` has two inductive invariants besides the types, which need
nothing of each other. `Erasing` (`Listed`, `Publications`, `Closing`, `AskedFor`,
`Pending`): an item that is for sale and was not created by a requested publication has
a listing with an externalId, every request that has read the listings has it in one of
its lists, a pending deletion waits for it, and so does every list a result has computed
but not written; a result that finds nothing left, or a request that found nothing to
remove, therefore finds nothing open. `Locking`: of the listings that are not excused,
those pending removal hold their lock and so do those the worker is about to claim, so
that the worker is always turned away, and no job or result of moderation is about one
of them.

Model-checked only: liveness (`EveryMessageSettles` and the liveness of the two
`KeepsPromise`), which TLAPS does not reach. Every invariant and every action property
of a passing run is a theorem (`StockOutIsTracked` and `CancellationsArrive` of orders of
one item, the only ones they hold of).

## 6. Not modelled

Within the modelled components:

* *Ledger*: average cost, the editing of damaged units, the listing side of
  `StoreListingService`; the transfer that changes the store of an item (its effect on
  the lookup is modelled, the merge of the lots is not).
* *Inbox*: signatures, ignored kinds, payloads; the kinds whose listener is awaited
  (moderation, listing status), where a rejection would reach the worker.
* *Reconciler*: `MAX_PAGES`, the bootstrap window, the adaptive interval, due dates,
  stale alerts, targets of several accounts; webhooks (all lost there, which is the
  case it exists for).
* *Deletion*: the check for orders and boxes that refer to the product, notices,
  prices and titles, marketplaces that publish asynchronously (OLX), sync routing,
  bulk deletion; the orchestrator is another service and is modelled from what
  `src/` sends and receives.
* *Tokens*: tokens an operator enters (`saveToken`, `updateAccessToken`, the OLX
  endpoints), marketplaces with keys or signatures, credentials, labels, the config
  cache; `TOKEN_SAVED` reaches only the scheduler of its process, which is why a
  timer is set where the token was saved. Whether a token is near its end is left open.

Components left out:

* *Checkout and direct orders.* `createDirectOrder`
  (`order-lifecycle.service.ts:57`) writes `marketplaceId: 9999` into a required
  ObjectId field (`order.schema.ts:138-139`). Mongoose cannot cast it, so the order
  of a checkout is apparently never stored; a model of the payment and shipping
  that follow would describe states the program does not reach.
* *Fulfilment and rectification.* The move of `completePicking` names no store, which
  the movement schema refuses, so it counts every item as skipped and marks the
  order `deducted`; with that the agreement of order and ledger is lost by
  construction, and `OrderIngest` says what holds without it.
* *Ownership transfer.* One transaction over two listings; what can go wrong in it
  (see the hazard) is the arithmetic of a merge, not an order of steps.
* *Sale notification reconciler, stock divergence reconciler.* The first sweeps
  over the sales that ingestion has not announced (see the weaknesses of ingestion), every
  15 minutes; the second reports and changes nothing.
* *WhatsApp queue, generic work queue.* A further worker with lease and retry, and a
  wrapper of the broker.
* *The last row of the inventory.* CRUD over single documents, calculations over
  prices in floating point, and calls to external services, with no protocol of
  several steps whose order matters. They are most of the repository's lines,
  which is why the mapped definitions are a small share of them.

## 7. Running

    tlc -workers 2 -config Outbox.cfg MCOutbox
    tlapm OutboxProofs.tla

Every run and its expected outcome is listed in `PROJECT.json`. The longest runs
(`StockLedger`, `WebhookInbox`, `ProductDeletion`, `TokenBroker`) take one to two minutes, the longest
proof (`TokenBrokerProofs`) about four.
