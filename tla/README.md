# Formal models of Utilar Ferragem

Utilar Ferragem is an online hardware store with counters in its physical shops: five Go services,
one Postgres database each, Kafka between payments and orders, HTTP between orders and the
catalogue. What can go wrong in it is seldom inside one function. It happens between two services
that share no transaction, between two database statements of one handler, or between a call and
its lost answer. The modules here model that part: the stock, the orders, the payments, and the
protocol that ties them together.

Paths below are relative to the repository; `pkg/` and `services/` sit at its top.

## 1. The system

### Components

| Component | State it keeps | Operations | Modelled in |
|---|---|---|---|
| catalog-service: stock (`handler/reservation.go`, `reservation/sweeper.go`, `handler/restock.go`, `handler/stock.go`) | `products.stock` (what is *for sale*), `stock_reservations` (status and `expires_at` of each row), `stock_restocks` | Reserve, Commit, Release, SweepOnce, Restock, Adjust | `StockReservation`, `StockTransactions` |
| order-service: state machine (`model/transition.go`, `fulfillment/transition.go`) | `orders.status`, its timestamp columns, `tracking_events` | the INSERT of a checkout, `Advance` | `OrderJourney` |
| order-service: checkout and fulfilment (`handler/order.go`, `handler/fulfillment.go`, `catalogclient/`) | orders; one request in flight per checkout | Create with its compensation, Cancel, AdminCancel, MarkPicking/Shipped/Delivered | `CheckoutSaga`, `OrderTransactions` |
| order-service: payment consumer (`consumer/payment.go`) | `processed_payment_events`, committed offsets | Run (poll, handle, commit), Handle | `CheckoutSaga`, `OrderTransactions` |
| payment-service: charge, webhook, Sync (`handler/payment.go`, `handler/webhook.go`) | `payments`, `webhook_events`, `payments_outbox`, sales of the ledger | Create, Handle/processEvent, Sync | `PaymentCapture`, `PaymentEvents` |
| payment-service: outbox drainer (`outbox/drainer.go`) | `published_at`, `attempts`, `next_attempt_at` | drain | `PaymentCapture` |
| order-service: cashback and coupons (`cashback/`, `coupon/`, `handler/cashback_admin.go`, `coupon_admin.go`) | lots with what remains of them, the statement, programme and campaigns, uses of a coupon | quote, redeem in Create, credit on paid, reverse, expire, edit | `Promotions` |
| returns, across order, catalog and payment (`handler/returns*.go`, `restock.go`, `refund_psp.go`, `return_refund.go`) | `order_returns` and items, `stock_restocks`, `psp_refunds`, the ledger's entry | open, decide, receive, restock, refund, enter | `AfterSales`, `ReturnJourney` |
| payment-service: ledger (`internal/ledger`) | double-entry book, closed periods, reconciliation runs | post, reverse, close, reopen, reconcile | `Ledger` |
| payment-service: PSP gateways (`internal/psp/*`) | the token cache of Appmax v1 | charge, refund, split, withdraw, look up | `Gateways` |
| counter sales and their settlement (`handler/balcao.go`, `external_settlement.go`, `internal/balcao`) | discount, limit and approval of a sale, receipt number, audit events | sell, approve, cancel, settle, enter | `CounterSale` |
| auth-service: login (`handler/auth.go`) | failed attempts, `locked_until` | login | `LoginLockout` |
| auth-service: sessions (`handler/auth.go`, `mfa.go`, `cleanup.go`) | refresh tokens, reset tokens, TOTP secret | login with a second factor, refresh, logout, reset, sweep | `AuthSessions` |
| auth-service: rights (`handler/store.go`, `admin_users.go`, `denylist.go`) | role, binding to a shop, deny-list in Redis | bind, unbind, promote, sign out, accept a token | `AccessRights` |
| `pkg/circuitbreaker`, `pkg/retry`, `catalogclient/resilience.go` | state, failures, probes in flight | call, record an answer | `Resilience` |
| `pkg/idempotency`, `pkg/ratelimit` | a key, a counter in Redis | reserve, save, look up; allow, or let through when Redis fails | `RequestGuards` |
| `pkg/servicetoken` and the middlewares that use it | the keys each process read when it started | sign, verify, restart with other keys | `ServiceIdentity` |
| `pkg/audit` | a table whose rows are chained by their hashes | append, verify by pages | `AuditTrail` |
| catalog-service: import and editor (`internal/ingest`, `handler/admin_import.go`, `admin_product.go`) | `products`, import batches, price history, stock movements | plan, commit row by row, patch, create, old CSV | `ImportPlan`, `CatalogWrites` |
| catalog-service: storefront (`handler/product.go`, `recommendation.go`) | none of its own | list, search, related products | `Storefront` |
| catalog-service: bought together (`reco/copurchase.go`) | pair counts and a watermark | refresh, rebuild | `Copurchase` |
| catalog-service: reviews (`handler/review.go`, migration 015) | reviews, the score of the product | write, edit, delete, moderate, list | `Reviews` |
| catalog-service: photos (`handler/product_image_upload.go`, `imaging`, `storage`) | rows with positions, stored objects | upload, reorder, cover, delete | `Gallery` |
| assistant-service: Alice (`internal/alice`, `calc`, `knowledge`, `safety`, `gaps`) | one conversation, the registry of gaps | answer with at most `MaxTurns` calls of the model | `Alice` |
| assistant-service: curated library (`internal/ingest`) | one document with its versions | propose, publish, reject, send back, cite | `CuratedLibrary` |
| dashboards, reports, shipping, address look-up, spreadsheet and SINAPI readers, web client, deployment | none, or one row per call | | not modelled |

### How the parts interact

    customer --> order.Create --HTTP--> catalog.Reserve
                      |                     ^
                      | INSERT orders       | Commit / Release over HTTP
                      v                     |
    operator --> orders (Advance) <-- consumer <--Kafka-- drainer <-- payments_outbox
                                                                         ^
    customer --> payment.Create --> PSP --webhook--> processEvent --------+
                                     ^---- Sync ----

- **Create** reserves the cart's units over HTTP *before* its own transaction. If anything fails
  later, a deferred Release gives them back; if the process dies nobody does, and the reservation's
  TTL (30 minutes by default) hands the case to the sweeper, which runs every minute.
- **payment.Create** inserts the payment, calls the PSP, then links the row to the PSP's id.
- **The webhook** asks the PSP for the payment's status before it opens the transaction that writes
  the idempotency row, the status and the outbox row. The notice's own content decides nothing
  about the status.
- **The drainer** produces an outbox row to Kafka, then marks it: at least once. Events of one
  payment go to three topics, so they have no order between them.
- **The consumer** moves the order in one transaction with its idempotency row, and settles the
  stock over HTTP *after* that transaction; when the call fails it only logs.

### What is hard about it

- Row locks and concurrent transactions at READ COMMITTED: two checkouts for the last unit, a retry
  that overtakes its first attempt, a sweep while the payment arrives, lock cycles.
- Calls with a timeout and one retry: a call may be served after its caller gave up, twice or never.
- Values read from the PSP before a transaction, written in it.
- At-least-once delivery, duplicates, no order across topics, batches whose offsets commit together.
- Crashes between two writes to two systems (a table and an object store, a commit and a call).
- Rows read outside of the transaction that acts on them: tokens, lockout counters, bindings, prices.
- Values computed by several statements of one transaction at READ COMMITTED: the closing of a month,
  the score of a product, the watermark of an incremental job.
- Redis and other services that do not answer while the store goes on serving.
- A language model that calls any tool, in any order, any number of times.

### What makes each part correct

- Stock: no unit is created, lost, sold twice, given back twice or held for ever.
- Orders: what the customer reads in the timeline is a path of the state machine, whoever moved the
  order; goods with the carrier are never cancelled.
- Payments: nothing is confirmed that was never approved; an event published is true and every
  event is published in the end; a charge of another amount goes nowhere.
- Together: goods written off belong to a paid order, a paid order has a confirmed event, a paid
  order keeps its goods, and every event is processed.
- Money after the sale: nothing comes back twice, the statement of cashback agrees with its lots, a
  sale counts once in the book, a closed month stays as it was handed over, a charge is made once.
- Access: guessing is bounded, a reset ends the sessions before it, a right taken away is gone, a
  discount beyond the seller's limit had a second person.
- The shop window: pages neither repeat nor skip, a basket counts once, the score tells the reviews,
  a photo on show exists, and the papers of a product agree with its row.
- The assistant: it stays within its budget, warns of every risk, shows no cost to a customer, cites
  nothing that nobody read.

`PROJECT.json` lists 40 hazards at their lines, each with the properties that would catch it or the
reason none does yet.

## 2. The modules

| Module | What it is |
|---|---|
| `StockReservation` | The stock with one action per database transaction. The abstract specification of catalog-service's stock. |
| `StockTransactions` | The same transactions SQL statement by statement, with row locks, aborts and crashes. Implements `StockReservation`. |
| `StockProofs` | TLAPS proofs about `StockReservation` and `StockTransactions`: the second implements the first, and its Reserves never wait in a cycle. |
| `OrderJourney` | What an order may become: the table, Place and Advance. The abstract specification of an order. |
| `OrderTransactions` | The transactions that move an order, statement by statement: cancellations, fulfilment, settlements at the counter and payment events. Implements `OrderJourney`. |
| `OrderJourneyProofs` | TLAPS proofs about `OrderJourney`. |
| `CheckoutSagaProofs` | TLAPS proofs about `CheckoutSaga`, among them that its stock implements `StockReservation`; it builds on the proofs of `StockReservation` and `OrderJourney`. |
| `PaymentCaptureProofs` | TLAPS proofs about `PaymentCapture`, among them that it implements `PaymentEvents`. |
| `PaymentEvents` | What payment-service promises to the others: an event reports a status the payment has had. |
| `PaymentCapture` | The charge, the webhook, Sync and the drainer. Implements `PaymentEvents`. |
| `CheckoutSaga` | Create, Cancel, fulfilment and the consumer, composed with `StockReservation`, `PaymentEvents` and `OrderJourney`: its orders take the steps that `OrderTransactions` justifies. |
| `ReturnJourney` | What the store promises about a return. The abstract specification of `AfterSales`. |
| `AfterSales` | A return across order-service, catalog-service and payment-service. Implements `ReturnJourney`. |
| `Promotions` | Cashback lots and the use of a coupon, with several checkouts. |
| `Ledger` | The double-entry book, the closing of a month and the reconciliation. |
| `CounterSale` | Sales over the counter, from the discount to the receipt of the card machine. |
| `LoginLockout`, `AuthSessions`, `AccessRights` | One account of auth-service: its counter of failures; its refresh tokens, reset tokens and second factor; its role, binding and access tokens. |
| `Resilience` | The circuit breaker around the retry. |
| `RequestGuards` | The idempotency store and the rate limiter. |
| `ServiceIdentity` | Which key each service signs and verifies with while the fleet changes keys. |
| `AuditTrail` | The hash chain and its verification. |
| `ImportPlan`, `CatalogWrites` | What a sheet would do to the catalogue (operators); everybody who writes a product row. |
| `Storefront`, `Copurchase`, `Reviews`, `Gallery` | Listings and related products; the bought-together job; reviews and the score; photos and their objects. |
| `Gateways` | The four clients of payment providers. |
| `Alice`, `CuratedLibrary` | A conversation of the assistant; the documents it may cite. |
| `Sums` | The sum of the values of a function, used wherever units, cents or entries are added up. |
| `PlatformProofs` | TLAPS proofs about `Resilience`, `RequestGuards`, `ServiceIdentity`, `AuditTrail`, `LoginLockout`, `AuthSessions` and `AccessRights`. |
| `SalesProofs` | TLAPS proofs about `OrderTransactions`, `AfterSales`, `CounterSale`, `Promotions`, `Ledger`, `Reviews`, `Gateways` and `Alice`. |
| `ShopfrontProofs` | TLAPS proofs about `Gallery`, `Copurchase`, `CuratedLibrary`, `CatalogWrites` and `Storefront`. |
| `StoreServices` | The components that share no state, side by side (section 3). |
| `StoreServicesProofs` | TLAPS proofs about `StoreServices`: what is proved of each component holds of all of them together. |
| `MCStockTransactions`, `MCCheckoutSaga`, `MCPaymentCapture`, `MCAfterSales`, `MCServices` | Values of the constants for the runs. |

A definition preceded by `\* Mutant:` is not part of a model: it is a plausible bug, kept beside the
definition it would replace to show that the named property notices it.

### StockReservation

A row of `stock_reservations` is the triple of its order, its product and the request (attempt) that
inserted it. `reservation` is its status, `"absent"` before the INSERT. `Commit(o, found)` and
`Release(o, found)` settle the rows that their UPDATE *found* active: the UPDATE takes its snapshot
once, so rows that a late Reserve of the same order commits while it runs stay active. The quantity of a row is
constant (`Demand`), as `dedupeItems` sums the cart once. `stock` is `products.stock`: a
reservation takes units off it at once; Commit leaves them off, Release and Sweep put them back.
`received` is a history variable: what entered the books by the initial count, restocks and
adjustments. `lapsed` stands for the clock: the reservations whose `expires_at` has passed.

`Reserve(o, a, kept)` is the whole request: `kept` are the products for which it saw an active row
and skipped (`reserveOne` returns early). The unique index covers active rows only, so a reservation
of an order that is over holds units again; this is allowed by the model as by the code.

`products.stock` is NUMERIC because some goods are sold by length or weight; the model counts whole
units. Every guard and update of it is linear, so a smaller unit changes nothing.

### StockTransactions

One step per SQL statement. A SELECT reads committed rows and waits for nobody; an UPDATE waits for
the row lock and evaluates its WHERE clause on the newest version; locks last to the end of the
transaction. `marked` and `holds` are what an open transaction has written and locked. Reserve takes
product locks in the order of ids (`sort.Slice`), settle and SweepOnce in the order in which
`RETURNING` gave the rows, which is any order. The INSERT waits for an open INSERT of the same
order and product, then succeeds or violates `idx_stock_reservations_active`; the violation is
returned as an error and ends the request.

`Victim` is Postgres's deadlock detector, `Crash` a replica or connection lost at any point.
Restock and Adjust stay one step each, taken only when the row locks they need are free: each
works under a lock from its first statement that matters.

### OrderJourney, OrderTransactions and CheckoutSaga

`Advance` of `OrderJourney` is one step: ask the table, write status and timestamp, add a tracking
event. `OrderTransactions` is how it comes about. Each hand (a request of a customer or an operator, a
settlement at the counter, a replica of the consumer) has an open transaction with its own reads: what
Cancel reads before the lock (`order.go:768`), whether the consumer finds an order for its event
(`BeginNotice`), the status under FOR UPDATE (`LockOrder`), the UPDATE and the tracking event
(`WriteOrder`) and the COMMIT, before which nobody sees anything. `RecordNotice` is the INSERT into
`processed_payment_events`: it waits for an open one of the same event, fails on a committed one, and
shares the lock of the order's row through its foreign key. Two events of one order may therefore both
share it and both wait for FOR UPDATE; Postgres aborts one (`AbortOrderTx`), Handle returns an error,
and what becomes of that is `saga_offsets`. What Cancel reads before the lock are columns that nothing
updates after the INSERT, so only the status matters.

`CheckoutSaga` takes the steps of `OrderJourney` directly, one per transaction, because
`OrderTransactions` implements it. It splits Create at every point where it can fail:
the call, the answer, the INSERT, the COMMIT in doubt, the death of the process. `calls` holds
the HTTP requests that may still be served, whether or not anybody waits for them. `record` follows
each event from its topic to the committed offset: `queued`, `fetched`, then `handled` or
`refused`, then `committed`; a consumer that dies sends its batch back to `queued`. `processed`
is `processed_payment_events`.

The orders of the saga are those of the web shop that hold a reservation (`stock_reserved`); counter
sales settled outside the PSP, which also become paid, are not among them (they are among those of
`OrderTransactions` and in `CounterSale`).

### PaymentEvents and PaymentCapture

`TopicOf` and `MapPSPStatus` are translated as they stand: a status that is neither failed nor
cancelled is announced on `payment.confirmed`. `PaymentCapture` separates what the PSP knows (`now`,
`was`), what the row says (`row`), what a webhook request carries between the PSP's answer and its
transaction (`inHand`), what Sync carries (`syncs`), the outbox and the topics (`log`).
`ServiceYears` bounds the time a retry may wait: the drainer's delay is a number of nanoseconds that
Postgres reads as seconds, so `YearsUntilRetry` counts in years.

### ReturnJourney and AfterSales

A handler that leaves its transaction to call another service is a sequence of steps of the *desk*
that runs it: `desk[d]` says what it read and what it does next. `BeginRefund`, `ReserveRefund` (the
INSERT into `psp_refunds`), `PspRefunds` or `PspAnswerLost`, `MarkRefunded` and `PostRefund` are the
path of `Refund` through three processes; any of them may fail or die between two. `PaidOut` is what
the PSP really gave back. The refinement maps the status of a return to the stage of its journey, the
units put back to `shelved`, and the ledger's entry to `booked`.

### Promotions, Ledger, CounterSale

A checkout of `Promotions` prices its cart (`Quote`) and writes the order later (`Place`): the balance
is read again under FOR UPDATE, the coupon is taken by a conditional UPDATE. Amounts are cents and
percentages are rounded as `cashback.go` rounds them. In `Ledger` a payment has whatever status the webhook or Sync last wrote over
it, a confirmed one too, and an amount that the webhook checks and Sync only warns of; `approved` remembers
whether the PSP ever approved it for its price. A posting is two steps, the INSERT
that the triggers check and its commit; a closing reads balances, totals and count in three
statements (`ReadBalances`, `ReadTotals`, then the INSERT), so a posting may fall between them.
`quiet` is a history variable: the months in which nobody was writing while they were being closed.
In `CounterSale` a person's token and the cache of bindings may be older than the binding; when
auth-service does not answer the ceiling is zero.

### LoginLockout, AuthSessions, AccessRights

Each request is a small sequence: read the row, compute (argon2 takes long), write. `mishaps` counts
UPDATEs that failed and processes that died. `AuthSessions` keeps which session descends from which,
to tell a session that outlives a password reset because its request had begun before it from one
that should not exist. `AccessRights` has a clock in seconds, as `iat` and the deny-list have.

### Resilience, RequestGuards, ServiceIdentity, AuditTrail

A call of `Resilience` carries the `round` in which it was let through as a probe; its answer is
recorded in whatever state the breaker is by then, as `record` does. `RequestGuards` is one
idempotency key sent by several requests, and one client of the limiter: every hit renews the window, refused
ones included, and a request that Redis did not answer is let through (`LimitFailsOpen`), whether its hit was
counted or not. In `ServiceIdentity` a
process reads the environment when it starts; `GivePublicKey`, `GivePrivateKey` and `DropSecret` are
the operator's steps in the sequence that `servicetoken.go` documents, `Restart` makes a process read
them, and a call that was signed at any time may be judged at any later one. In `AuditTrail`
the hash of a row is the row itself, `Tamper` is anybody with the database's password, and
verification reads `VerifyPage` rows at a time while rows are added.

### ImportPlan, CatalogWrites, Storefront, Copurchase, Reviews, Gallery

`ImportPlan` is `pipeline.go` as operators: what each row would do to the catalogue as it is read.
`CatalogWrites` commits it later, row by row, among the other writers: none of them locks what it
read, and `disturbed` remembers the products written while somebody held an older reading. `books`
adds up the movements a product should have. A page of `Storefront` comes in any order its ORDER BY
allows, afresh for every page. A batch ends committed, failed (with its rows written, or before any) or stuck in the
middle. A confirmed reservation of `Copurchase` carries the time its
transaction began and is seen only once it commits. The trigger of `Reviews` counts in one statement
and updates in another. `Gallery` keeps rows and stored objects apart: every step between them may be
the last of its request; `doubtful` remembers the files that two requests handled at once or whose
commit got no answer, and `arranged` that a person chose an order or a cover. `AddImage` and the imports insert images of their
own at place 0 without the lock; they are not among its writers. (`DeleteImage` of `admin_product.go` has
no route.)

### Gateways

An ask (charge, refund, split, withdrawal, look-up) goes out on a *wire*: a sequence of routes, each
with its attempts. `PspActs` lets the provider do what was asked although the answer is lost, a 5xx
or unreadable. `took` counts what it did. The token of Appmax v1 is shared by all wires. Amounts are
tenths of a cent, so that rounding to cents is visible.

### Alice and CuratedLibrary

The language model is external: `AliceNext` lets it call any tool with any input at every turn. Each
tool is translated with the calls it makes to the catalogue (they spend one budget per request), the
cards, warnings and lists it returns, and what it registers as a gap. What the calculator knows of shapes is
in two constants: `Geometry`, the quantity that a shape takes of given dimensions (`sobrescreverGeometria`),
and `Limits`, the most of each measure that `Validar` believes; the area of a roof is given along its slope.
`CuratedLibrary` is one document with its versions, a reviewer who reads and decides later, and the tool that
cites it. `Sanitizar` is as weak as the code: an order that its patterns know is neutralised, one that is broken
up by characters nobody sees comes out whole (they are removed after the patterns looked, `ingest.go:147-166`),
and one that no pattern knows is a text like any other. What keeps it from doing harm is a reviewer and the
fence that `ParaModelo` puts around what is cited, not the sanitiser, so the property is about the reviewer. Nothing in
production calls the writing side of the library yet; its tests do.

## 3. The runs

Each passing run checks its properties on every reachable state of the instance; each violation run
checks one property that a comment, a doc or a test of the repository states and the code does not
keep.

| Run | Module, configuration | Result | States |
|---|---|---|---|
| `stock_transactions` | `MCStockTransactions`, `StockTransactions.cfg` | pass | 772,000 |
| `stock_liveness` | `MCStockTransactions`, `StockLiveness.cfg` | pass | 3,700 |
| `stock_lock_order` | `MCStockTransactions`, `StockLockOrder.cfg` | violation | |
| `checkout_saga` | `MCCheckoutSaga`, `CheckoutSaga.cfg` | pass | 172,000 |
| `saga_offsets` | `MCCheckoutSaga`, `SagaOffsets.cfg` | violation | |
| `saga_cancel` | `MCCheckoutSaga`, `SagaCancel.cfg` | violation | |
| `payment_capture` | `MCPaymentCapture`, `PaymentCapture.cfg` | pass | 177,000 |
| `capture_topics` | `MCPaymentCapture`, `CaptureTopics.cfg` | violation | |
| `capture_early_notice` | `MCPaymentCapture`, `CaptureEarlyNotice.cfg` | violation | |
| `capture_retries` | `MCPaymentCapture`, `CaptureRetries.cfg` | violation | |
| `services` | `MCServices`, `Services.cfg` | pass | 862,000 |
| `refund_total` | `MCAfterSales`, `RefundTotal.cfg` | violation | |

**stock_transactions.** Two carts share two products (1 and 1, 1 and 2 units) with stock for one of
them, two attempts each, a sweeper that takes one row at a time and a return; at most three
transactions are open at once. (A sweep of two rows and an adjustment by -1 are in `stock_liveness`;
both here exceed the time a run may take, and the refinement is proved for any batch and any
adjustment.) It shows that units are conserved (`Conservation`); that Reserves never wait in a cycle
(`ReservesNeverDeadlock`); and that every transaction amounts to one step of `StockReservation`
(`ImplementsStockReservation`), which is what lets the saga use the small module, and what carries the
theorems of section 4 (nothing oversold, nothing held twice, nothing settled twice) over to the
statements. Two carts over two products are the smallest instance with a shortage, a lock cycle and a
partial reservation; two attempts are the client's `MaxAttempts`; three open transactions let a third
one meet any pair.

**stock_liveness.** The same with one attempt and one crash: a lapsed reservation is settled or swept
(`LapsedUnitsComeBack`), though Releases and sweeps can deadlock and a sweep may crash or skip a
locked row.

**stock_lock_order.** `NoLockCycle` fails: a Reserve and a Release of the same two products wait for
one another. `reservation.go:109` claims a global order; it holds among Reserves only. Postgres
resolves it by an error to one of them, which `stock_liveness` shows to be harmless in the end.

**checkout_saga.** Two orders compete for the last unit, one of them is paid, and one fault may
happen anywhere (`MaxFaults = 1`): a timeout, a lost call or answer, a crash, a database error, a
republished event. Stock is written off only for paid orders (`SoldImpliesPaid`),
nobody gives back the goods of a live paid order except the sweeper after the TTL and a checkout whose
COMMIT was in doubt (`PaidOrderKeepsItsGoods`: those two exceptions are real behaviours of the code and
are written out in the property), no unit is held for ever (`NoUnitHeldForever`), and no event is
skipped while Handle returns no error (`NoEventIsSkipped`). One fault suffices for each recovery path
of the code, as none has a second layer; two faults exceed the time a run may take. That its orders stay on
the state machine holds by the way they are built (they take the steps of `OrderJourney`); the run where it
could fail is `services`, with `OrderTransactions` in focus.

**saga_offsets.** `EveryEventIsProcessed` fails: when Handle returns an error (the database is away),
the loop logs it and commits the whole batch; the comment above the loop says that the message comes
back with the next poll.

**saga_cancel.** `CancelledGoodsComeBack` fails without any fault: reserve, pay, commit the stock,
cancel. Release settles only `active` rows and these are `committed`.

**payment_capture.** One payment whose status changes at the PSP (pending, approved, cancelled), its
notices delivered any number of times, Sync, the drainer and one fault. A payment is confirmed or
entered as a sale only if it was approved at some time (`ConfirmedWasApproved`); a charge of another
amount reaches neither the ledger nor a topic (`WrongAmountGoesNowhere`); the service is
`PaymentEvents` to the others (`ImplementsPaymentEvents`); notices are processed in the end
(`NoticesAreProcessed`). One webhook request at a time is in hand besides one Sync: they race for the row,
and redelivery is unbounded. `ServiceYears = 40` is there so that the drainer's second attempt, some 31 years
after the first, is among the states explored; that a service runs for so long is nobody's promise, and
whether events are produced in time is the question of `capture_retries`.

**capture_topics.** `ConfirmedEventWasApproved` fails: a notice of a payment still pending (a Pix just
generated) is published as `payment.confirmed`, and the consumer moves the order to paid.

**capture_early_notice.** `EarlyNoticeResolves` fails: a notice that overtakes the UPDATE of
`psp_payment_id` commits its `webhook_events` row and no event; redeliveries are then duplicates.

**capture_retries.** `EventsAreProduced` fails with `ServiceYears = 5`: after one failed production the
next attempt is 1,000,000,000 seconds away (`drainer.go:112`), where the comment above it promises "1s -> 5s ->
30s" and `consumer/payment.go` calls the outbox at-least-once.

**services.** The twenty component modules of `StoreServices`, which share no state, one at a time: `focus` is
chosen in the initial state among twenty-two values (the idempotency key and the limiter of `RequestGuards`, and
the closing and the reconciliation of `Ledger`, are in focus apart) and only the component in focus moves. Nothing is lost by this, because an action of one reads
no variable of another; the product of all would have the same reachable states of each, many times
over. Model values stand for workers (`w1`, `w2`) and things (`x1`, `x2`) of every component, and the
run uses their symmetry.

| In focus | The instance | Property |
|---|---|---|
| orders | one order, two hands, three events of two payments, any request at any time | `ImplementsOrderJourney` |
| returns | two returns of one order of two units, two desks, day 7 and day 91, four situations of the order, one mishap | `NothingComesBackTwice`, `ImplementsReturnJourney`, `MoneyLeavesAfterTheGoods` |
| promotions | three checkouts, a coupon with one use, two programmes, one edit while carts are priced | `StatementMatchesLots`, `LastUseTakenOnce` |
| ledger, reconciliation | one payment whose status the PSP changes at will, to the right amount or another, one external sale, one refund, two writers, two months; a closer, or a reconciliation | `BookCanBeHandedOver`, `CleanRunVouchesForTheBook` |
| counter | two sales, one receipt number, two tills, a seller and a manager whose binding changes once | `SettlementsAreSound` |
| lockout | three logins at once, a limit of two failures, seven guesses, one mishap | `GuessingIsBounded` |
| sessions | two requests at once, three sessions, one reset, one second factor, one crash | `OnlyALateRequestOutlivesAReset` |
| rights | two administrators' screens, a clock of four seconds, tokens that live two | `RightsTakenAreGone` |
| resilience | three calls, a threshold of two, one probe at a time, one of the calls not idempotent | `ProbeSlotsAreHeld` |
| idempotency, limiter | three copies of a request and one slip-up of Redis; a limit of two in a window of two ticks, and one request that Redis did not answer | `ARetryHappensOnce`, `NoBurstOverTheLimit` |
| catalog | one product, two requests, one batch, a sheet with an unreadable and a repeated line | `QuietPapersAreExact` |
| gateways | two calls at once to each of four providers, one retry, one token taken back | `OneCallChargesOnce`, `NoRefusedTokenIsSentAgain` |
| audit | three rows, pages of two, two writers, one act of tampering | `AVerificationTells` |
| identity | the whole migration from one secret to a key pair, each process restarted at will | `NoCallIsMisjudged` |
| storefront | three products, two of them equal under an order that does not break ties, pages of one or two | `NothingIsShownTwice` |
| copurchase | three baskets (one too large), two replicas, confirmations that commit late, a rebuild | `EveryBasketCountsOnce` |
| reviews | three authors (two of them bought the product), two hands, a reader | `OnlyARaceMissesAReview` |
| gallery | two files, two hands, room for two photos, four requests | `EveryPhotoCanBeDrawn` |
| assistant | two turns of two tools, two jobs with a name in common, a visitor with a forged role | `AliceKeepsHerWord` |
| library | a text, an order, an order broken up by invisible characters, two versions | `OnlyReadPagesAreCited` |

What each property says stands above its definition. Several of them name the exception the code
really has: `QuietPapersAreExact` speaks of products whose edits never overlapped (the PATCH writes
back what it read), `BookCanBeHandedOver` of months nobody was writing in while they were being closed, `NoBurstOverTheLimit` of
requests that Redis did not answer,
`OnlyALateRequestOutlivesAReset` of requests that had begun before the reset, `OnlyARaceMissesAReview`
of an INSERT or a DELETE that another write overtook, `EveryPhotoCanBeDrawn` of files that two requests
dealt with at once, `GuessingIsBounded` of one guess for each request already past the check. Each
exception is a run of the code that the model reaches and that the plain property would report.

The bounds: two workers are enough for each race listed under the hazards, which are all between two
requests; a third request appears where the second one's effect has to be seen (logins, copies of a
request, calls of the breaker, baskets). Two months, two versions, two pages are the
smallest numbers with a "later"; the one batch of the catalogue races with the editor, with the old import and with
a second hand that commits it, and the proof is of any number of them. The refunds, look-ups and withdrawals of `Gateways` are in the module
and not among `MCPspAsks`: they use the same wires and the same rules of repetition as the charges.

**refund_total.** `MoneyFollowsTheGoods` fails: with two partial returns open, the first one refunded is
sent to the PSP as total, as `isFullReturnOfOrder` counts returns that are only requested; the
customer has the whole payment back and the goods of the second return still at home.

`CHECK_DEADLOCK FALSE` stands in every configuration because the bounds let an instance come to
rest: its orders are over, its payments settled, its faults used up, and nobody owes another request.

### Bounds

`MaxRunning` (open transactions), `MaxFailures` and `MaxFaults` (faults), `MaxReceived` (units an
adjustment may bring in), `MaxInHand` (webhook requests in hand), `ServiceYears` (life of the
service), and the sizes of the sets of orders, products, attempts, sweepers, returns and payments. In
the components of `services`: `MaxSlips`, `MaxMishaps`, `MaxSlipUps`, `MaxAuthCrashes` and
`MaxRevocations` (what fails), `MaxEdits`, `MaxRebinds`, `MaxResets`, `MaxSecrets`, `MaxShelfChanges`
(what people change), `MaxDocs`, `MaxGuesses`, `MaxSessions`, `MaxCards`, `MaxPeriods`, `MaxWrites`,
`MaxReviewWrites`, `MaxGalleryAsks`, `MaxTrail`, `MaxVersions` (how much happens), and the clocks
`LastMonth`, `LastSecond`, `LastTick`, `LastMinute`, `Days`. The other `Max` constants are limits of the
code itself (`MaxFailedLogins`, `MaxAttempts`, `MaxImages`, `MaxTurns`...), taken smaller. Each is a
constant, and those that count something appear in the guards of the action that counts.

### Fairness

- `TxSpec`: the sweeper's ticker fires for ever and an open transaction runs on (weak fairness);
  Postgres queues lock requests, so a statement that waits for a lock released again and again gets
  it (strong fairness); its deadlock detector breaks cycles (weak fairness of `Victim`).
- `SagaSpec`: catalog-service serves what it received, its clock and sweeper go on, the consumer
  polls, handles and commits, and Create's own steps go on. Polling is fair as a step of the
  client; which queued events it returns is not constrained, and finitely many events are published.
- `CaptureSpec`: the drainer's ticker, the handler, and the PSP, which delivers a notice until it is
  answered (strong fairness, as the handler's slots are taken in turns).

No fairness is assumed of a customer, an operator or the PSP's decisions, and nothing fails or
recovers by fairness. The components of `services` promise safety only: what they leave unfinished
(an approved return, an open closing, a half-written upload) waits for a person, and nothing in the
code retries it, so there is no fairness to assume and no liveness to check.

## 4. The proofs

TLAPS proves these for every value of the constants: any catalogue and carts, any number of orders,
payments, requests, administrators, notices and faults, any PSP.

| Module | Theorem | Says |
|---|---|---|
| `StockProofs` | `TypeCorrect` | every state is well typed; no balance is negative |
| | `UnitsConserved` | `Conservation` |
| | `NoDoubleHold` | `OneActiveRow` |
| | `NoOverselling` | `NeverOversold` |
| | `SettledForGood` | `SettledIsFinal` |
| | `TransactionsImplementStock` | `ImplementsStockReservation` |
| | `TransactionsConserveUnits` | `Conservation`, statement by statement |
| | `ReservesWaitInOrder` | `ReservesNeverDeadlock` |
| `OrderJourneyProofs` | `TimelineAlwaysAPath`, `StampsAlwaysAgree`, `NeverCancelledAfterDispatch` | the three properties of an order, however long it lives |
| `CheckoutSagaProofs` | `SagaTimelineIsPath`, `SagaStampsAgree`, `SagaNeverCancelsDispatched` | the same three of the orders of the saga |
| | `SoldOnlyIfPaid` | `SoldImpliesPaid` |
| | `PaidOnlyByConfirmation` | `PaidImpliesConfirmedEvent` |
| | `SagaImplementsStock` | the saga's stock is `StockReservation` |
| | `PaidGoodsAreKept` | `PaidOrderKeepsItsGoods` |
| | `SagaTypes` | `SagaTypeOK` |
| `PaymentCaptureProofs` | `CaptureTypeCorrect` | `CaptureTypeOK` |
| | `ConfirmedOnlyIfApproved` | `ConfirmedWasApproved` |
| | `WrongAmountNeverLeaves` | `WrongAmountGoesNowhere` |
| | `MarkedOnlyIfProduced` | `PublishedWasProduced` |
| | `PublishedStays` | `PublishedForGood` |
| | `CaptureImplementsPaymentEvents` | `ImplementsPaymentEvents` |
| `PlatformProofs` | `SlotsAreAlwaysHeld` | `ProbeSlotsAreHeld` |
| | `RetriesHappenOnce` | `ARetryHappensOnce` |
| | `TheLimitHolds` | `NoBurstOverTheLimit` |
| | `NobodyIsMisjudged` | `NoCallIsMisjudged` |
| | `VerificationsTell` | `AVerificationTells` |
| | `GuessesStopAtTheLock` | `GuessingIsBounded` |
| | `AResetRevokesTheRest` | `OnlyALateRequestOutlivesAReset` |
| | `TheRoleFollowsTheBinding`, `TakenRightsStayTaken` | `OperatorRoleHasAReason`, `RightsTakenAreGone` |
| `SalesProofs` | `OrderTransactionsKeepTheJourney` | `ImplementsOrderJourney` |
| | `NoUnitComesBackTwice` | `NothingComesBackTwice` |
| | `ServicesKeepTheJourney` | `ImplementsReturnJourney` |
| | `MoneyWaitsForTheGoods` | `MoneyLeavesAfterTheGoods` |
| | `RefundsStayInTheBook` | `RefundsAreBookedAsDecided` |
| | `SettlementsStaySound` | `SettlementsAreSound` |
| | `StatementsMatchTheLots`, `LastUsesAreTakenOnce` | `StatementMatchesLots`, `LastUseTakenOnce` |
| | `OrdersCoverTheirDelivery` | `NobodyIsPaidToBuy` |
| | `TheBookIsHandedOver`, `ACleanRunVouches` | `BookCanBeHandedOver`, `CleanRunVouchesForTheBook` |
| | `TheScoreTellsTheReviews` | `OnlyARaceMissesAReview` |
| | `OneCallOneCharge`, `RefusedTokensStayAway` | `OneCallChargesOnce`, `NoRefusedTokenIsSentAgain` |
| | `AliceAlwaysKeepsHerWord` | `AliceKeepsHerWord` |
| `ShopfrontProofs` | `PhotosStayWhole` | `EveryPhotoCanBeDrawn` |
| | `BasketsCountOnce` | `EveryBasketCountsOnce` |
| | `StagingNeverReachesAlice` | `OnlyReadPagesAreCited` |
| | `QuietPapersStayExact` | `QuietPapersAreExact` |
| | `ReimportsChangeNothing` | `ReimportChangesNothing` |
| | `NothingComesUpTwice` | `NothingIsShownTwice` |
| `StoreServicesProofs` | `ServicesAreWellTyped` | `ServicesTypeOK` |
| | `TheStoreKeepsItsPromises` | every safety invariant proved of a component above, of all components side by side |
| | `TheStoreStepsAsPromised` | `ImplementsOrderJourney`, `ImplementsReturnJourney`, `MoneyLeavesAfterTheGoods`, `LastUseTakenOnce` and `ReimportChangesNothing` likewise |

Each component has besides a lemma `...TypesAlways` with its type invariant. So every invariant and
every action property of a passing run is a theorem; what is left to the runs alone is liveness.

What is proved for every instance is not checked again on a small one where it adds nothing:
`OneActiveRow`, `NeverOversold`, `SettledIsFinal`, the three properties of an order's timeline,
`PaidImpliesConfirmedEvent`, `CaptureTypeOK`, `PublishedWasProduced`, `PublishedForGood`,
`RefundsAreBookedAsDecided`, `NobodyIsPaidToBuy` and `ReimportChangesNothing`
stand in the modules and in the theorems and in no configuration.

### The arguments

**StockProofs**, for `StockReservation`, rests on `CatalogAssumption` (finite sets, natural quantities). The
inductive invariant is `TypeOK /\ RowsWereServed /\ OneActiveRow /\ Conservation`. `Conservation`
alone is not inductive: when Reserve turns rows of its attempt to active, the units they now hold
equal what left the balance only if those rows were absent before, hence `RowsWereServed` (a row
that exists belongs to a request that was served). Counting is by cardinality of a set with one
element per unit, so adding disjoint rows adds counts (`UnitsAdd`) and one row per product counts
its quantity (`UnitsOfOneRow`); Release and Sweep give back exactly the units of the rows they
settle. There is one lemma per action; `NoOverselling` follows from `Conservation` and `stock >= 0`.

For `StockTransactions`, the committed tables are the abstract state; an open transaction is
invisible until its last statement, which is the step of `StockReservation`. The invariant says what
makes that step possible: what a transaction has marked and locked is still as it found it (no other
transaction holds those rows), the products it has taken were on the shelf when it took them, and two
open transactions hold different locks. The proof attempt found the model wrong at one place: `settle`
reads the active rows of its order in one statement, and a late Reserve of the same order may commit
another row before `settle` does. `StockReservation` used to settle every row that was active at the
end; it now settles the rows that were found. `ReservesWaitInOrder` needs that the locks a Reserve
holds come before the one it waits for in the order of ids: a cycle of Reserves would have a product
with the largest rank that is both held and waited for by a holder of a larger one.

**OrderJourneyProofs** needs no assumption. The inductive invariant is the conjunction of the type
invariant with the two others: that the last tracking event is `orders.status` makes the event
appended by `Advance` a legal successor of it, and the timestamps speak of the same timeline.

**CheckoutSagaProofs** rests on `SagaAssumption` (each payment is for one of the orders). Every step
of the saga is `Place`, `Advance` or leaves the orders alone (`SagaSteps`), by its construction, which carries
the invariant of `OrderJourneyProofs` over. `SoldImpliesPaid` is not inductive: between
the transaction that pays an order and the write-off of its stock there is a request in flight, so
`SagaInv` adds that a Commit is asked for only after the order was paid (`CommitsFollowPayment`),
and, for `PaidImpliesConfirmedEvent`, that the consumer holds only events that were published
(`RecordsWerePublished`). Every step is also a step of `StockReservation` or leaves the stock alone,
so the saga has the types and the theorems of the stock without a second proof. For
`PaidOrderKeepsItsGoods` the invariant follows the Releases: one that is in flight belongs to a
cancelled order, to a checkout that never placed its order, or to a COMMIT in doubt, and an order that
was paid was never one of the first two.

**PaymentCaptureProofs** rests on `CaptureAssumption` and `ReportedAssumption`. The answers of the PSP
may be old when they are written, but were true once (`AnswersWereTrue`), so the row and the outbox
never say what the payment never was (`OutboxIsTrue`). That a charge of another amount goes nowhere
needs that nothing is written about a payment before it is linked (`LinkedFirst`), since the PSP
charges before that, and that its outbox rows hold only the suspicion (`SuspectsStayOut`). The
refinement then maps what the PSP sets to `Becomes` and the production of a row to `Announce`.

**PlatformProofs.** Each section counts something that the code only bounds indirectly. The breaker:
the slots in use are at most the running probes of this round plus the late answers. The idempotency
key: executions so far plus requests past the look-up are at most one plus what slipped. The limiter:
as every hit renews the window, the requests admitted since the key last lapsed are those of any window
that contains now; a request that Redis did not answer is counted apart, and its hit, if it came through,
only makes the limit stricter. The lock-out: a guess over the limit belongs to a request that found the counter at the
limit and is about to lock the account, or that was past the check when another one did. The keys of the fleet: at each stage of the migration, which keys a process may have
loaded and who could have signed with them. The audit trail: its rows always have ascending numbers,
and until somebody touches the table they are numbered from 1 and each points to the one before
(`WholeUntilTouched`); a touch that can be told leaves a row that gives it away (`DamageLeavesAMark`),
and a verification that began later has that row still before it (`VerifierIsOnItsWay`). A session: a rotation in hand knows whether the
session it read was late already. A token: it was issued at a second that the deny-list remembers.

**SalesProofs.** Orders: a transaction that has decided (`locked`, `ignored`, `written`) holds its row alone
until it ends (`OneLocker`), so the status it decided on is still the committed one when it commits
(`StillAllowed`), and its COMMIT is an `Advance` of `OrderJourney`; every other step changes no committed row.
Returns: what each desk holds in its hand agrees with the row it read under lock, the
units of live returns are summed in the row lock of the order. The refinement to `ReturnJourney` maps
handlers to journey steps one by one. For `MoneyLeavesAfterTheGoods`, a desk that may ask the PSP holds
the reservation of the row of `psp_refunds` and no other desk does, and a second payment needs a row
that was reserved again, which only a failure allows (`MoneyInv`). For `RefundsAreBookedAsDecided`, what
a return is worth no longer changes once it was counted in, and a desk that asks for a refund asks for
something (`WorthInv`). Counter sales: an approval or a ceiling travels with the sale,
and two settlements with one receipt meet the unique index. Promotions: a lot's remainder falls by what
a cart spends of it in the same step that writes the statement. What is off a cart stays between zero and
its goods, what it wants of the balance between zero and what is left of them (`FairInv`), since a share of
at most a hundred hundredths, rounded, is at most the whole (`ShareIsWithin`); what it really spends is
less still. Ledger: an entry's key says its
document, reversals come in chains, so the net revenue of a document is its price or nothing; a sale is posted
by the webhook only, which asked for the amount, so the PSP had approved it for its price, whatever was written
over the payment since; a closing
that nobody disturbed has read the lines that are still there. Reviews: the score is the tally of the
snapshot that the trigger read, and whoever waits for the row looks again. Gateways: a wire is idle, or
has charged nothing and cannot have (it is before its financial route), or has sent that route, which
is never repeated. Alice: whatever a tool leaves of a request is one that fits (`AllFit`): its calls and
what is left of its budget make up `MaxCatalogCalls`, which needs the ceiling of the costs to be of what
the request has left; the risks it is owed a warning of are warned of, its cards are of different
products, and its list buys enough. One lemma per tool, from one per change that tools share
(`SpendKeeps`, `CardsKeep`, `ToldKeeps`, `EnrichKeeps`). The list of several works is a matter of sums:
quantities rounded by at most five each, added over the items of a material (`SumOfLittle`,
`ListOfJobsBuysEnough`), and packages whose number is a division rounded up (`PackagesHold`).

**ShopfrontProofs.** Photos: the objects of a file are stored before its row is inserted and removed
after it is deleted, so they are there unless two requests work on one file; places are handed out
under the advisory lock. Baskets: only the holder of the watermark's row counts, everything at or
before its cut-off has landed, and the windows of successive counts are adjacent. Library: what is
published is the version the reviewer read, whether or not the sanitiser understood it. Catalogue: nobody having written a product since a request
read it, the reading is still the row (`Quiet`), so the note a request makes continues the history and
the difference it books is the difference it made; an edit between its write and its trail is the only
one, and owes exactly the missing note (`Owes`). A row that was written as its sheet says is skipped the
next time: its price does not move, it is as far above its cost as it was, and no column differs
(`WrittenRowIsSkipped`). Storefront: under a total order the place of a row is the
number of rows before it, so the database has only one sequence to return (`OnlyOneOrder`, and
`AnOrderExists` that there is one); at the beginning of a page its reader has the pages before it of that
sequence, whichever of the two searches takes over (`PagesOf`), and whoever reads while the catalogue
changes is owed nothing. Each source of the related products adds a list without repetitions and without
what the ones before it showed (`FreshIsListing`, `ListingsJoin`).

**StoreServicesProofs.** A step of the store is a step of the component in focus and leaves the variables
of the others alone, so a behaviour of the store is a behaviour of the specification of each component
(`SalesBehave`, `AccessBehaves`, `GuardedBehave`, `TrustBehaves`, `ShopfrontBehaves`, `AdviceBehaves`),
and what holds of that specification holds of the store. Their types are proved in the modules of the
components, from the invariants above and what those leave open: the counters of a behaviour stay in
their bounds because the guards count them, and the values that come from people stay in their kinds.

### Assumptions and findings

The assumptions on the constants are typings of inputs (finite sets of requests, prices and
quantities that are numbers, sentinels that are no names) and limits that the code sets or the
database checks: prices and stocks are not negative (migrations 002, 004 and 005 of catalog-service),
discounts are percentages, a sheet's row without an SKU is unreadable, the lag of the bought-together job
is longer than a commit may take (`CommitDelay < LagWindow`, which `copurchase.go` states as the reason of
the lag), and a base of knowledge is one that `LoadFS` accepts (thicknesses in their range, coefficients not
negative, packages that hold something, materials that exist). The type invariants needed a few more to be
said: a cell of a sheet has a number that is not negative or nothing (`Cell`; `parse.go:216` refuses a
minus sign), the shelf of `Storefront` has the three statuses that the database allows
(`003_ingestion.up.sql:14`), at most the whole of an order may be redeemed (`redeemMax`, checked by
`009_cashback.up.sql:22`), the words that Alice is given are of the kinds her tools have, and the clocks have at
least one step. TLC evaluates each of them in the runs.

Proving changed the models in six places: `Commit` and `Release` of the stock (above); `Copurchase`
now adds the counts to the table as it is when they are saved (`order_count + EXCLUDED.order_count`), so
that `EveryBasketCountsOnce` depends on the lock of the watermark as the code does; and sums are written
as functions over sets (`Sums`) rather than as lambdas, with the same values; a page of the audit trail is
a stretch of the table after the rows with smaller numbers rather than a filtered sequence, and who edits a
row makes it say something else; an ORDER BY of `Storefront` is given by a function from rows to keys, and
what a source of related products adds by the places of the rows that are new; and the tools of `Alice` give
their outcomes as sets rather than by folding over what they found. Stating the assumptions of `Alice`
showed two inaccuracies in it: `Calcular` keeps one item per use, without adding up the uses of one
material, and a use per volume takes nothing in a job that has no thickness (`volume` is only set when the
base is m3, `calc.go:292-311`), where the model multiplied by the default of a thickness that is not there.

### What is only model-checked

- Liveness: fairness and ENABLED are outside the prover's reach (`LapsedUnitsComeBack`,
  `NoUnitHeldForever`, `NoEventIsSkipped`, `NoticesAreProcessed`).
- What a recursive function computes for every input (the hashes of `AuditTrail`, the plan of
  `ImportPlan`). Where a proof needs induction over numbers or finite sets (the next free place of a
  photo, the last basket of a batch), it takes a smallest element instead (`Smallest`, by
  `WFMin`), which needs no operator parameter.
- The violations are runs by nature.

## 5. Not modelled

Whole parts:

- The readers of spreadsheets, of the SINAPI price list and of suppliers' sites, the matching of
  categories by text and the pricing suggestions: sequential functions of one file or page. What
  they yield is an input of `CatalogWrites` (`Sheets`).
- Dashboards, reports, exports, facets, autocomplete, ETags: reads of one statement.
- Shipping quotes, address look-up, profiles, registration: one row of one user at a time, or a call
  that changes nothing here.
- The web client and the deployment (images, manifests, scripts, load tests) keep no state of the
  store.

Inside modelled parts:

- One payment per order in `checkout_saga`; two multiply its states beyond the time a run may take,
  so the failure of one payment cancelling the order another one pays is a hazard without a property.
- One event type per status in `payment_capture`; Mercado Pago shares one among several, and its key
  then drops the second notice. `capture_early_notice` shows what a dropped notice means.
- Of the PSP's statuses only approved and cancelled in the saga, and pending, approved and cancelled
  in `payment_capture`.
- A service that refuses to start for lack of `SERVICE_JWT_SECRET` at the end of the key migration is
  no state of `ServiceIdentity`, which follows the processes that run.
- `AddImage` and the images of the imports in `Gallery`; the slope, tile, joint and stud checks of the calculator
  in `Alice`, and that its results are right beyond enough packages being bought.
- Prices and freight in Create; texts, tracking codes and locations; the JSON of the PSPs, the
  signatures of webhooks, their redaction; the text of prompts and answers; metrics and logs.
- Hashes are injective and signatures belong to their key, by construction of `AuditTrail` and
  `ServiceIdentity`.
- PSPs, Kafka, Redis, object storage, the language model and Postgres's locks are modelled from how
  the code uses them and marked external in the map.

Observations that are not findings: comments at `reservation.go:88` and `resilience.go:166` call a
retry that meets the unique index harmless, while `reserveOne` returns the violation as an error; Sync
logs a difference of amounts and confirms the row all the same (`handler/payment.go:376`). A payment whose
sale was booked may later be written over as failed or cancelled (`webhook.go:297`, `payment.go:403`); the sale
stays in the book until a person reverses it, and a reconciliation, which looks for confirmed payments without an
entry, does not flag it. The comments of `ratelimit/limiter.go` describe a fixed window that later hits do not
renew; EXPIRE is sent without NX, so every hit renews it, the refused ones too, and a client that goes on trying
stays refused; the module follows the code. Two events of one order that are handled at once by two replicas
can deadlock on its row (the foreign key's share, then FOR UPDATE), and the one that Postgres aborts is an
error that `saga_offsets` shows to be skipped. `Sanitizar` lets through an order that invisible characters break
up, although each of its passes would have known it whole. A second import of
the same file is not always empty, as `pipeline.go:640` and `commit.go:12` say of every row: a status
that the commit does not grant (a "draft" for a product that is published and has a price, a "published"
for one without) is compared with the status the product has, so such a row is planned as an update every
time; so is one with a column that `hasChanges` always counts as changed. `ReimportChangesNothing` says
which rows are skipped.

## 6. The plan

Done: the stock in two levels, the orders in two levels, the saga and the payment side; returns in two
levels, promotions, ledger, counter sales, access, the guards of `pkg/`, the catalogue, the gateways
and the assistant. Every invariant and every action property that a passing run checks is proved, for
each component and for the services side by side.

Next, in this order:

1. The hazards without a property: several payments of one order in the saga, Mercado Pago's second
   notice with the key of the first, and a service that refuses to start at the end of the migration.
2. What a component never undoes, as action properties next to the invariants: warnings and calls of a
   request, the trail of audits.
3. The parts that section 5 leaves out, where they come to keep state.
