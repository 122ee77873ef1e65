# Verification of JMJ Synergie

JMJ Synergie is a back office for a trading company: quotes, orders,
deliveries, invoices, payments (cash, bank, mobile money), refunds, purchases,
stock, and a read-only portal for clients. The backend is FastAPI over
PostgreSQL and Redis (`src/backend/app`); the frontend (`src/frontend`) is
Next.js and calls it.

This directory holds TLA+ modules translated from that code, the TLC
configurations that check them, and TLAPS proofs.

## 1. Inventory

| Component (source under `src/backend/app`) | State it keeps | Operations | Interacts with | What is hard | What makes it correct |
|---|---|---|---|---|---|
| Orders (`domain/entities/order.py`, `application/use_cases/order`, `repositories/order_repository.py`) | `orders` row, `order_items` rows | create, edit terms and lines, confirm, cancel, deliver, delete | payments, refunds, invoices read and write the same row | every save writes a whole entity read earlier, with no lock and no version | status, lines and amounts agree; an order can always be read back |
| Payments and refunds (`use_cases/payment`, `use_cases/refund`, `entities/payment.py`) | `payment_transactions`, `refunds`, the paid and refunded columns of `orders` | record payment; request, approve, reject a refund | orders | balance and status checked on stale reads, three rows written per approval | order and transactions tell the same story; nobody pays twice or is refunded twice |
| Payment idempotency (`endpoints/orders.py`, `endpoints/payments.py`) | Redis keys | claim, poll, cache, release | Redis, the use cases above | lock expiry, crash, response cached before commit | one key, one execution |
| Mobile money (`endpoints/mobile_money.py`) | pending transactions | initiate, webhook, status poll | CinetPay, orders | repeated and late webhooks, poll racing webhook | transactions agree with CinetPay, money comes with a transaction |
| Documents and invoicing (`external/pdf/pdf_service.py`, `signature_service.py`, `endpoints/documents.py`) | `documents`, invoiced quantities, a sequence | generate, sign; scan, attach a scan | orders, and everything that saves them | the file is drawn in a thread between the read and the write; every save of an order writes invoiced quantities back | delivered goods are billed once; one document of a kind; the file bears the document's number; a scan stays on the order its owner was told of |
| Quotes (`endpoints/quotes.py`) | `quotes`, `quote_items` | create, update, send, accept, reject, convert, delete | orders, clients | edits and conversions raced | an order costs what the quote said, and the quote names it |
| Purchases and stock (`endpoints/purchases.py`, `endpoints/stock.py`, `use_cases/product`) | `purchase_orders`, `purchase_order_items`, stock of `products` | create, update, confirm, receive; adjust, configure; edit a product | scans, products | receptions raced, stale stock written back | closed when all came; stock is the sum of its movements; a source document used once |
| Sessions and accounts (`endpoints/auth.py`, `endpoints/users.py`) | `users` row with its one refresh token | login, refresh, logout, reset, change of password, e-mail, name | the API client | rotation racing revocation, answers that are lost | a dead token is never accepted, a living one refused only for a reason |
| Portal (`endpoints/portal.py`) | `client_portal_tokens` | share, revoke, visit | orders | two creations at once, expiry during a visit | one active link; a dead link shows nothing |
| Rate limiter (`middleware/rate_limiter.py`) | Redis window, list in memory | check | Redis | window edges, failing Redis calls | no more than the limit per window |
| Clients and suppliers (`use_cases/client`, `client_repository.py`, `purchases.py`) | `clients`, `suppliers` | create, update, delete; make one the other | orders, quotes converted | the deletion rule read before an order is created or saved; lookups before inserts, each comparing other fields | the last order keeps its client; suppliers are told apart |
| Product codes (`manage_product.py`, `product_repository.py`) | `products` | create, delete | | the code is a count | creations do not fail for nothing |
| Settings (`users.py`, `organizations.py`, `permissions.py`, `single_tenant.py`) | profile, organization, signature, grants | forms, uploads, grant, revoke | file storage | forms and uploads of one row overlap | an uploaded file stays |
| Notifications (`notification_publisher.py`, `endpoints/notifications.py`, frontend hooks) | Redis channel, streams, lists shown | publish, subscribe, forward, refetch | payments | events precede commits, streams are cut | lists follow the payments they are told of |
| API client (`frontend/src/lib/api/client.ts`, `AuthGuard.tsx`) | calls in flight, one refresh, a queue | call, retry, refresh | sessions | the queue behind a refresh | every call settles |
| ARQ jobs, OCR, e-mail, storage, exports, pages | none that the rest depends on | | | best effort | not modelled (section 8) |

Everything talks through two shared stores. PostgreSQL holds the rows; each
request has a session of its own (`core/database.py`), READ COMMITTED, without
row locks, version columns or optimistic checks, so two requests interact only
through what one commits between the reads and the commit of the other. Redis
holds idempotency keys, rate-limit windows and the notification channels; every
use of it has a fallback for the case that it is down. The process is
single-threaded asyncio: a request can be suspended at each `await`, that is at
each database, Redis or HTTP call and while a PDF is drawn in a thread, and
several processes may run side by side.

The schema that runs is the one of `backend/alembic` (`backend/start.sh`). The
SQL under `src/infrastructure/postgres/migrations`, with triggers that recompute
`paid_cents` and refuse changes to completed transactions, is documentation
(`docs/architecture/DATABASE.md`) but is not installed: the modules do not have
those triggers.

## 2. Plan

In order of what the business loses when it goes wrong; all of it is done:

1. **OrderAggregate, OrderLedger, OrderRequests**: orders, payments, refunds;
   first alone, then interleaved, the second refining the first.
2. **Idempotency** and **MobileMoney**: the two other ways in which one payment
   can be counted twice.
3. **Quotes**, **Billing**: what an order says and what is billed of it.
4. **Accounts**, **Portal**: two mechanisms that implement one abstract
   specification, **Capability**.
5. **Procurement**, **Partners**, **Catalogue**, **Scans**: the rows around the
   orders.
6. **ApiClient**, **Notifications**, **Settings**, **RateLimiter**: what the browser
   meets.

Every invariant a passing run checks is also a theorem (section 5). What would come
next: the refinement `ImplementsLedger` as a theorem; the exports and reads, which
nothing depends on.

## 3. Modules

`OrderAggregate` (pure operators) is extended by `OrderLedger` (one request at a
time), which `OrderRequests` instantiates as `Ledger` with the same variables.
`Accounts` and `Portal` instantiate `Capability` with expressions over their
state. The other modules stand alone: each is about one mechanism, and takes what
it needs of its neighbours with it: `Billing` and `Partners` have the saves of orders,
as a read, a second read and a write, `Partners` also the conversion of a quote;
`MobileMoney` has a price.

`Commerce` and `Sessions` put components side by side. `Commerce` extends `Quotes`
and instantiates `Billing` (as `Bill`), `Portal` (`Share`), `Procurement` (`Buy`),
`Partners` (`Deal`), `Scans` (`Scan`) and `Catalogue` (`Make`); `Sessions` extends
`Accounts` and instantiates `Settings` (`Save`), `RateLimiter` (`Limit`) and
`Notifications` (`Notify`). Each instance has variables of its own and the requests
in common. These two modules declare the constants, state what is assumed of them, and
name the properties as TLC and the theorems use them.

`MC*` modules add the values and symmetry for TLC, `*_proofs` the theorems. `Sums` has
the lemmas about sums over finite sets that the proofs share.

| Module | Variables and the state they stand for | Actions |
|---|---|---|
| `OrderAggregate` | none; an order is a record, its lines three functions over `Items` (a line exists iff its quantity is positive) | guards (`CanPay`, `CanDeliver`, ...) and results (`AfterPayment`, `AfterDelivery`, ...) of the methods of `Order` |
| `OrderLedger` | `order` (row and items), `received`, `returned` (sums of completed payment and refund transactions), `refunds` (rows) | one per endpoint: create, update terms, replace lines, add, update, remove a line, confirm, cancel, deliver, delete, pay, request, approve, reject a refund |
| `OrderRequests` | the same four, and `job`: per worker the entity it changed, the row the save re-read, and how far it is; history `deletionLost` | `Begin...` (read, check, change), `ApplyRefund`, `Load`, `LoadRefund`, `LockRow`, `Commit...`, `Refuse`, `Crash` |
| `Idempotency` | `key` (Redis), `committed` (executions in the database), `req` (each delivery of the request) | `Claim`, `ClaimRefused`, `ClaimRaises`, `Replay`, `ReadAgain`, `ReadRaises`, `Execute`, `ExecuteRaises`, `Release`, `CacheAnswer`, `Commit`, `CommitRaises`, `Crash`, `LockExpires` |
| `MobileMoney` | `provider` (CinetPay), `notices` (webhooks), `txns`, `amount`, `order` (paid and payment status), `cash`, `job` | `Initiate`, `CommitInitiate`, `ReceiveWebhook`, `ReadStatus`, `Verify`, `ReadOrder`, `Settle`, `Fail`, `Forget`; environment: `Decide`, `Notify`, `PayCash` |
| `Quotes` | `quote`, `items` (rows, each named after the request that inserted it), `orders` made of it, `req` | `CreateQuote`; `Begin...` and a commit for update (with `ListItems`), send, accept, reject, convert, delete |
| `Billing` | `order` (status, delivered, invoiced), `documents`, `next` (invoice sequence), `date`, `req`; history `bills` | `BeginGenerate`, `LookUp`, `Generate`; `BeginSign`, `Sign`; `BeginDeliver`, `BeginSave` (payment, refund, edit, confirmation, cancellation), `LoadOrder`, `SaveOrder`; `TimePasses` |
| `Scans` | `scans` (rows and the order each is on), `req` | `ScanInvoice`, `BeginLink`, `LinkToOrder` |
| `Portal` | `order`, `links`, `expired`, `req` | `BeginShare`, `Share`, `BeginRevoke`, `Revoke`, `BeginView`, `View`, `LinkExpires`, `DeleteOrder` |
| `Procurement` | `purchase`, `items`, `product` (stock and flags), `req`; history `moved`, `version` | create, update (with `ValidateSource`), confirm, receive (with `ReadProduct`); adjust, configure; product edits (`BeginProduct`, `ReadProductAgain`, `SaveProduct`) |
| `Partners` | `clients`, `suppliers`, `orders`, `req` | create, update, delete a client (`CheckOrders`, `ReadAgain`, `SaveClient`); create an order (`BeginOrder`, `BeginConvert`, `CreateOrder`); save one (`BeginSaveOrder`, `ReadOrderAgain`, `SaveOrder`); create a supplier; `FromClient`, `AsClient` with their lookups |
| `Catalogue` | `products` of two organizations, `req` | `BeginCreateProduct` (counts), `CreateProduct` (inserts), `DeleteProduct` |
| `Capability` | `live`, `dead`, `uses` | `Issue`, `Revoke`, `Use`: what a secret that gives access promises |
| `Accounts` | `user` (token, password, e-mail), `cookie` and `access` of each browser, `lost` (refreshes the browser no longer waits for), `req`; history `log` | login, refresh, logout, reset, changes: read, commit, answer; `LoseAnswer`, `RefuseRefresh`, `AccessExpires` |
| `Settings` | `profile`, `organization`, `signature`, `granted`, `req` | forms, uploads, `AttachOrganization`, `Grant`, `Revoke` |
| `RateLimiter` | `now`, `store` (per process, and Redis) | `CheckRedis`, `MemCheck`, `Tick`, `RedisExpires`, `Restart` |
| `Notifications` | `payments`, `req`, and per browser `stream`, `inbox`, `fetch`, `list` | `Record`, `Publish`, `Commit`, `Rollback`; `Subscribe`, `Refuse`, `Disconnect`, `TokenChanges`, `Forward`; `AnswerFetch`, `ShowList` |
| `ApiClient` | `call` (each call of the tab), `leader` (who refreshes), `token`, `guard` (AuthGuard) | `Send`, `Respond`, `GatewayError`, `Resend`, `Unauthorized`, `Boot`, `RefreshSucceeds`, `RefreshFails`, `LogIn`, `TokenExpires` |

### How the code became steps

- **A request is a read and a commit.** What a handler reads is kept in `req` (or
  `job`); later steps write what follows from it. A handler that reads twice has two
  reading steps. SQLAlchemy's UPDATE names only the columns that differ from what
  its session read (`Changed`, `Write`, `Column`): two requests that change
  different columns do not disturb each other, two that change the same do.
- **A save of an order** (`order_repository.py:88-124`) reads the row again, copies
  the whole entity over it and flushes. SQLAlchemy keeps rows by weak reference and
  `get_by_id` drops its row, so the second read sees what others committed since.
  Items of the second read are deleted and the entity's inserted (`Rows`). An older
  entity therefore overwrites newer columns: this is where most interleaving
  behaviour comes from. Clients and products are saved the same way (`SaveClient`,
  `SaveProduct`), without lines.
- **Commit.** Nothing a transaction wrote is visible before its commit, so flush
  and commit are one step, except in `ApproveRefund`, whose UPDATE of the order
  takes the row lock before the refund is read again (`LockRow`), and in
  `Notifications`, where the event goes out between the two. Elsewhere a flush
  before other awaits takes a row lock too, which only delays other commits: the
  modules allow more interleavings than that.
- **Responses count.** A handler that edits an order answers with its amounts;
  `Money` refuses a negative one, the request fails and `get_db` rolls back
  (`Presentable`). Delete and the money handlers do not compute them.
- **A request that dies** leaves nothing: it is one that never takes its last step,
  except where dying leaves something behind (`Idempotency`, and `OrderRequests`,
  which releases a row lock), where it is an action.
- **Unique constraints** refuse a commit (`NumberTaken`, `Taken`, `CodeTaken`,
  `Failed`); lookups made before the insert do not replace them.
- **Redis calls** may raise, with or without their effect.
- **Webhooks** once sent stay in `notices` and are delivered any number of times
  in any order. A webhook for a transaction not yet inserted is acknowledged and
  forgotten: a step that changes nothing.
- **JavaScript** runs one callback at a time: what follows the end of a refresh is
  one step of `ApiClient`.
- **History.** `overlaps`, `after`, `version`, `log`, `missed`, `deletionLost` record
  which requests overlapped which; no guard reads them. The code has no locks, so most of its
  promises hold only between requests that do not overlap; the properties say so,
  and say it of the requests concerned, not of all.

### Abstractions

- One order, one quote, one refund table, one idempotency key, one product with
  stock, one user, one organization (two in `Catalogue`): no handler relates two.
- Names, dates, people, currencies, descriptions and layout are left out: no guard
  modelled here reads them. A document's number is a kind and a date; the due date is
  the flag `late`.
- A company is a phone, a name and perhaps an e-mail address, as each endpoint of
  `Partners` compares some of them. Two names are the same when `ilike` finds them so; a
  client's name is its company's or its own (`company_name or full_name`), whether it is
  a company's is left open in `FindClient`. A client's status is always active.
- `Billing` has the handlers that save an order by what they do to its status and
  to the quantities delivered and invoiced, whatever else they change. Edits of lines are
  left to `OrderRequests`: the quantities ordered are fixed here. `Partners` has them by
  whether the order is cancelled or deleted; its orders take the place in `created_at` in
  which their requests began.
- Roles and owners (403) are left out: every user may do what some user may.
- Amounts are cents; tax is rounded half up as in `Money.apply_rate` for orders and
  cut for quotes (`quotes.py:122`). The discount share of a partial delivery is a
  float product in the code and a floor here.
- Identifiers are fresh uuids: a row is named after the request that inserted it.
- `received` and `returned` are ghost sums of a table that only grows.
- `OrderRequests` leaves invoiced quantities to `Billing`; they are never above
  delivered ones (`order.py:73`), so "has been delivered or invoiced" is "has been
  delivered".
- The statuses no endpoint sets (`in_production`, `ready`, `disputed`,
  `archived`) stay in the guards as in the code.
- The original transaction a refund request names exists as soon as something was
  paid, which `CanRefund` requires.
- `MobileMoney` keeps the order's price fixed and takes payments by other means
  as single steps; `OrderRequests` has both in full.
- `Idempotency` takes the 24 h of a recorded answer as longer than any retry.
- `RateLimiter` counts by tick and gives each request a timestamp of its own (Redis
  would keep one member for two equal timestamps); one client, one key.
- `Notifications` has the payment lists only; other pages invalidate theirs alike.

## 4. Runs

| Run | Instance | Shows |
|---|---|---|
| `ledger` | two lines of quantity 1 or 2 and price 0 or 1, plain terms and terms with 50 % tax, discount 2 and shipping 1; two refund requests, payments up to 4 cents | requests one after another keep the order, its transactions and its refunds consistent: `Balanced`, `NoOverpayment`, `DeliveryMatchesStatus`, `PaymentStatusTracksMoney`, `RefundsAccountedFor`, `DeliveredNeverShrinks` |
| `requests_one` | one worker, two lines, both terms, payments up to 4 | split into reads and commits, crashes included, a lone request does what `OrderLedger` says (`ImplementsLedger`: the abstract specification as a property) |
| `requests_two` | two workers, one line of quantity 2, one refund, amounts 1 and 2 | what overlapping requests still keep: `PaidBacked`, `ApprovalsWithinRequest` |
| `requests_edits` | two workers, two lines, a discount; no money | overlapping edits and deliveries leave an order that can be read back: `LinesReadable`, `EditsKeepTotalReadable` |
| `requests_finish` | two workers, one line, one refund, fair | every request ends: `RequestsFinish` |
| `idempotency` | three deliveries, two reads before a 409, Redis failing at claim, read and release | one execution, one answer, no key blocked and no retry waiting for ever |
| `mobile_money` | two transactions, two requests in flight, amounts 1 and 2 for a price of 3, one cent of cash, final verdicts notified | transactions agree with CinetPay, money comes with a transaction |
| `commerce` | four requests, see below | what quotes, documents, share links, purchases and stock, partners, scans and product codes keep when requests overlap (table below) |
| `sessions` | four requests, two browsers, see below | what sessions, settings, the rate limiter and notifications keep (table below) |
| `api_client` | three calls, one retry, fair | every call of a page is answered or rejected: `CallsSettle` |
| `requests_lost_payment`, `mobile_money_counted_twice` | as `requests_two` and `mobile_money`, one property each | the disagreements of section 7 |

The components of `Commerce` and `Sessions` share no state. In `MCCommerce` and
`MCSessions` a variable `focus`, chosen at the start, says which one a behaviour is about; the
others stay where they began. The states of the components then add up instead of
multiplying, and each component is explored as if it had a run of its own.

| Run, focus | Bounds | Properties |
|---|---|---|
| `commerce`, quotes | lists of items of one, two or no lines (10; 7 and 30), rates 0 and 15 %, two clients | `WholeEdits`, `OrderCostsWhatQuoteSaid`, `OrdersAreTraceable` |
| billing | an invoice, a delivery note and a receipt; one line of quantity 2; two dates; no typed numbers; one payment, edit or the like, beside deliveries and invoices (`MaxSaves`) | `GoodsBilledOnce`, `OneDocumentOfAKind`, `FileBearsItsNumber` |
| portal | four requests on one order | `LinksAloneUnlessOverlapping`, `LinksAreCapabilities` |
| procurement | two purchase orders (one sent already), three requests, lists of one or two items of quantity 1 or 2, one source document; stock moved by one, set to 0 or 2 | `ClosedWhenComplete`, `StockFollowsMovements`, `SourceUsedOnce` |
| partners | three companies: two of one name, two of one phone, one with an e-mail address; orders and suppliers, which share no row, not mixed | `LastOrderKeepsClient`, `SuppliersAreDistinct` |
| scans | two orders | `LinksAgree` |
| catalogue | one barcode, up to two products of another organization | `CreationsSucceedAlone` |
| `sessions`, accounts | two browsers, one e-mail address | `TokensAreCapabilities`, `RefusedForAReason` |
| settings | three requests, one permission | `UploadsSurvive` |
| limiter | one process and Redis, two calls in two ticks, five ticks, two requests in a tick | `BudgetPerStore` |
| notifications | two payments, two browsers | `ListsFollowPayments` |

Why these bounds are enough. Two workers: each anomaly of a save is one stale
entity against one commit; a third request only adds a second such pair. Two
lines: one that is delivered and one that is not, or one each for two edits. A
price of 0 and a discount above the price reach free and negative totals;
quantity 2 gives partial deliveries; `MaxReceived` 4 pays, refunds and pays an
order again. Three deliveries of a request: one that holds the lock, one that
waits, one that arrives after the lock expired. Two mobile transactions against
a price of 3 reach the cap with the second. In `commerce` and `sessions` every
request is one call, and four of them are one that sets the scene (creates the
quote, logs in, uploads the scan), two that overlap and one that meets the result;
procurement has its scene set and needs three. `commerce` has 1.5 million distinct states,
`sessions` 370,000. A save that reopens a closed order beside a deleted client
(`ReopenedStale`) takes five requests: of that case only the proof speaks. Two item lists
of different length tell a mixture from either; a quantity of 2 is received in two parts; a
window of two ticks opens and closes twice in five; two payments can be announced to a list in
either order of their commits. Bounds are guards of the models only through
`MaxReceived`, `MaxCash`, `Horizon`, `MaxPerTick`, `Today`, `MaxPurchaseRequests`, `MaxSaves`,
`MaxSettingsRequests` and `MaxPayments`; everything else is a constant.

Symmetry is of identities that no property or guard tells apart (requests, workers,
lines, browsers), and is used in no run with a liveness property. The two refinement
properties are checked with it: they quantify over identities and name none.

Deadlock checking is off because a system at rest is no error: with all orders
deleted, all requests answered or the bounds reached nothing has to happen.
`RequestsFinish`, `KeyIsFreed`, `RequestsEnd` and `CallsSettle` say instead that what
began ends.

### Fairness

- `OrderRequests!FairSpec`: strong fairness of each worker's `Proceed`, never of
  starting a request or of a crash. The event loop resumes every task whose I/O is
  ready. Strong, because a save waits for a row lock that others take again and
  again; PostgreSQL queues the waiters, so a waiter is not overtaken for ever.
- `Idempotency!Spec`: weak fairness of each delivery's `Proceed` and of
  `LockExpires` (Redis expires keys). Errors, failed commits and crashes are in
  `Fault`, which is not fair: nothing is answered because something must fail.
- `ApiClient!Spec`: weak fairness of an answer to each call sent, of the end of each
  sleep and of the end of a refresh. axios gives up after 30 s (`client.ts:32`), a
  sleep is a timer, and `waitForBackendReady` tries a bounded number of times. Which
  answer it is, is never fair: everything may fail.
- `MobileMoney` has no fairness and no liveness property: no code repeats a status
  request (`frontend/src/lib/api/mobile-money.ts` offers one, no page calls it), so
  nothing makes a verdict that was lost arrive later. `Notifications` has none
  either: a page that missed an event asks for nothing until its user does.

## 5. Proofs

TLAPS checks every invariant of every passing run, two of the three refinements and an
action property for every value of the constants, under the ASSUMEs the modules state:
`Quantities` and `Amounts` positive integers, `Prices` natural, tax rates 0..100;
markers (`None`, `Processing`, `Stock`, `Redis`) are no identifier and no row; items of
a purchase are positive (the DTO's `gt=0`); the rate limiter's period is positive. They
are as weak as the code justifies, and TLC evaluates them in the runs.

Most invariants are not inductive. The code has no locks, so the argument is mostly
about what a request keeps in memory between its read and its commit.

| Module | Theorems | Argument |
|---|---|---|
| `Sums` | lemmas: `SumType`, `SumAdd`, `SumUpdate`, `SumSame`, `SumWithin`, ... | the library states nothing of the fold behind a sum, and its induction theorems cannot be instantiated here. So the induction is made on the set of counterexamples: were there one, there would be a smallest (`SmallestSet`); none is, and a sum counts pairs (`SumCountsUnits`), for which the theorems about cardinalities hold |
| `OrderAggregate_proofs` | lemmas on the guards and results: types, which columns each leaves alone, what a payment status implies | cited by the two modules below |
| `OrderLedger_proofs` | `TypeCorrect`, `MoneyBalances`, `NeverOverpaid`, `StatusMatchesDeliveries`, `StatusIsHonest`, `RefundsAddUpToReturned`, `DeliveriesPersist` | an edit changes the price under `NoOverpayment` and `PaymentStatusTracksMoney`; it may, because it needs `paid = 0`, and that an unpaid order is never marked paid is `PaidMeansMoney`. That totals are natural numbers (`Readable`) comes from the rollback of unpresentable edits. `IInv` is the conjunction, with `Blank` for the time before the insert. One approval adds to the sum of refunds what it adds to `returned` (`ApprovalAddsUp`) |
| `OrderRequests_proofs` | `TypeCorrect`, `MoneyShownIsBacked`, `LinesStayReadable`, `ApprovalsStayWithinRequest`, `EditsLeaveTotalReadable` | for any number of requests in flight. A commit can write back any entity that is still in memory, so `GoodJob` says of every one what the property says of the row, counting the money its own commit adds; transactions only grow, so an old entity stays backed. A refund in memory names the request it was read from, whose amount never changes (`Claims`), and one that is being inserted is nobody else's (`InsertsAlone`). Totals: saves of edits are answered with their amounts and rolled back when negative; every other save of the order moves money (`MoneyMoves`) or deletes it |
| `Idempotency_proofs` | `ExecutedOnce`, `SameAnswer` | if `HandlersBeatTTL` and the write of the answer does not fail. One request at most holds the lock, and it finds its mark in the key; once an answer is in the key nobody holds the lock and the key does not change (`HolderHasKey`, `OneHolder`, `AnswerKept`) |
| `MobileMoney_proofs` | `TypeCorrect`, `AgreesWithProvider`, `MoneyHasTransaction` | if CinetPay notifies only final verdicts. What a webhook says, a request was told or a session loaded is still true when it is written (`NoticesTrue`, `JobTrue`), so no write undoes a completed transaction |
| `Commerce_proofs` | the table below | one section per component, for any number of requests |
| `Sessions_proofs` | the table below | likewise |

| Component | Theorems | Argument |
|---|---|---|
| quotes | `EditsAreWhole`, `OrdersTraceable`, `OrdersCostAsQuoted` | rows named after one request are the same wherever they are found, in the table, in an order or in a request's memory, and are a whole body (`PartsAreWhole`): an edit deletes all or none of them. A conversion under way read a quote without order, so no earlier one was over when it began (`ConversionsOverlap`). As long as nothing overlapped, what a request read is what there is (`ReadsAreFresh`) and totals are those of the lines (`Costs`); the tax cut and the tax rounded are a cent apart (`RoundingApart`) |
| billing | `BilledOnce`, `OneOfAKind`, `NumberOnFile` | of two requests one began before the other was over, or it has read what the other wrote (`SawRow`, `SawInvoiced`, `SawDelivered`, `BillingInsertsUnseen`). A bill adds to the sum of the bills what it adds to the line's invoiced quantity, and a save writes back the quantities there are, as long as none missed another (`StillSound`): what overwrites what is in `Deals`, so it is not enough to look at deliveries |
| portal | `LinksAlone`, `LinksRefineCapability` | of the links made before a request began, those in the table are ones it has read (`HistoryIsPast`), so it deletes them; and links in the table were created by requests that are over (`LinksWereShared`) |
| procurement | `Closes`, `StockFollows`, `SourceOnce` | a request that saw the current version of a row has read the row; each write makes a new version. What it was told of a source document holds until another purchase order is committed. A purchase order that is being created is nobody else's (`CreatesAlone`), and a line never receives more than was ordered, stale or not |
| partners | `SuppliersDistinct`, `LastOrderKeeps` | an insert that missed a row overlapped the request that wrote it (`PartnersInsertsUnseen`); a supplier has the phone, name and address its request was given, so what it did not look for is known from its operation. A deletion under way has seen the client's last order closed (`ChecksLast`), and of a client that is deleted one is over (`DeletedBy`): an order made since came of a conversion or overlapped it. A request that saves an order as open read it so, and where it no longer is, a request that closed it ended since (`SawOpen`, `ClosedSince`): what it opens again is `ReopenedStale` (`SalesFollow`) |
| scans | `LinksStay` | a scan is on the order its reader saw, or somebody the reader did not see has attached it (`SeenOrChanged`) |
| catalogue | `CreationsAlone` | codes in use are 1 to the number of products (`CodesAreCounted`), so a code counted is the next one until another creation ends (`CountsAreNext`) |
| accounts | `SessionsTyped`, `TokensRefineCapability`, `RefusalsHaveReasons` | the row, and every row a request is working from, names no token or an issued one (`RowsNameIssued`): writing it back never revives a dead one, as the column is written only by requests that change it. Most steps leave what `Capability` sees alone (`Quiet`); a login or refresh is its `Issue`, a revocation its `Revoke`, a refresh let through its `Use`. The row names the token of the last commit that touched it (`LogFollowed`) and a browser has tokens it was answered (`TokensFromAnswers`), so a refused one was followed by another commit (`RefusalsFollowed`). That commit can be the browser's own refresh with the same token only if the browser no longer waited for it, else its answer would have replaced the cookie first: it is in `lost` |
| settings | `FilesSurvive` | a request can put back only what it saw, and writes a path only when it brings a file (`SeenByOthers`); the last upload is the largest position of one in the log (`FiniteMax`, by well-founded induction) |
| rate limiter | `BudgetsKept` | a store keeps what it let through for as long as the window has it (`WindowKept`): what a restart or an expiry forgets has left the window or belongs to a new store |
| notifications | `ListsKeepUp` | a payment that was announced is in the browser's inbox, in a fetch that is to come or has it, in the list, or missed (`NoneForgotten`) |

The refinement mapping of `Accounts` takes the row's token for `live`, every other
token issued for `dead`, and the refreshes let through for `uses`; that of `Portal`
the links not expired, those deleted or expired, and the visits.

Every inductive invariant was first checked by TLC. `Bill!SumFunctionOnSet`,
`Deal!Cardinality` and the like are the library's operators under the names of an
instance; `SameSums` and `SameSizes` say so, once.

Model-checked only: the refinement `ImplementsLedger` of `OrderLedger` by
`OrderRequests` with one worker (next in the plan: the merge of a save into an
unchanged row has to be shown to be the handler's result), and the liveness properties
`KeyIsFreed`, `RequestsFinish`, `RequestsEnd` and `CallsSettle`: fairness and ENABLED
are beyond the prover.

## 6. Assumptions made visible

- `HandlersBeatTTL`: `payments.py:32` calls 30 s the longest a request may run and
  nothing enforces it. With FALSE, a lock expires under its holder, a retry
  claims it and both commit (`AtMostOnce` fails); a failing first request then
  also deletes the lock of the second (`payments.py:82`).
- `RedisFaults` without `"cache"`: a lost write of the answer (`payments.py:112`,
  tested as harmless by `test_record_payment_swallows_cache_write_error_after_success`)
  lets the lock expire over a committed payment, and the next retry pays again.
- `Notified` without `"waiting"`: the webhook takes every status but an acceptance
  for a failure. Were CinetPay to notify an undecided payment, and that notice to
  arrive after the acceptance, the completed transaction would become failed and
  its money stay on the order.
- A request that Redis fails at its claim or while it waits runs unguarded, as the
  comment at `payments.py:75` says; `AtMostOnce` speaks of guarded ones.
- `BootsOnLoad`: AuthGuard starts a refresh only while no API call is in flight, as
  on the load of a page. With FALSE a call that is queued behind AuthGuard's refresh
  is never answered (`CallsSettle` fails): only the interceptor calls `processQueue`.
- One tab per browser in `Accounts!Refreshing`: the shared promise of `client.ts:38`
  is per tab, the cookie per browser. Two tabs refresh with one token and the second
  is refused, which `client.ts:7` means to prevent. Losing an answer (`LoseAnswer`) is no
  assumption: it may happen to any refresh under way.

## 7. What the code does not keep

Two have a run whose counterexample TLC prints:

- `requests_lost_payment`: two payments read the same order, each saves its own
  `paid_cents`; the order shows one, two transactions are completed.
- `mobile_money_counted_twice`: the amount of a completed transaction is added
  again by every further acceptance, up to the order's price.

Others are definitions that TLC refutes when they are added to a configuration of
their module:

- `FullPaymentSetsPaid` (`OrderLedger`): an order refunded in full and paid again in
  full stays `refunded`, since that test comes first (`order.py:381`);
  `tests/unit/domain/test_order.py:177` says a full payment makes it paid.
- `RefundsWithinPayments` (`OrderRequests`): two approvals of one refund, each
  reading it as requested (`manage_refund.py:76`), return the money twice.
- `AnswerNotRolledBack` (`Idempotency`): the answer is in Redis before the commit
  (`payments.py:111`); when that raises, the first caller gets an error and the
  retries a payment that does not exist. A commit raises, for one, after an audit
  row could not be flushed: `log_audit_event` swallows the error and leaves the
  session unusable.
- `SessionsMatchPassword` (`Accounts`): a refresh or login that read the row before a
  reset of the password and commits after it opens a session that the reset was to
  end (`auth.py:302`).
- `OnlyDraftsChange` (`Quotes`): an edit or deletion that read a draft commits after
  it was sent, accepted or converted (`quotes.py:7`, `quotes.py:12`).

Seen while modelling orders and money:

- `verify_financial_integrity` (`007_views_and_rls.sql:379`) compares `paid_cents`
  with the sum of payments; after any refund they differ by design, since
  `apply_refund` lowers `paid_cents`.
- `record_delivery` sets a status outside `ALLOWED_TRANSITIONS` (`order.py:38`):
  `confirmed` to `delivered`.
- `PATCH /orders/{id}` is documented as draft only (`orders.py:8`); the guard is
  `can_edit_commercial_terms`, which allows four statuses.
- Two payments at once, each within the balance, are both accepted: more money
  comes in than the order costs, though the order shows only one of them.
- A stale save undoes a cancellation or a deletion (`order_repository.py:191`).
- A payment that overlaps an edit can leave a total below what is paid, or a
  negative one that no later request can read.
- So can three requests without money. A deletion whose save finds the order deleted
  already does not write `is_deleted`; an edit that read the order earlier puts it back
  with new lines and a larger discount; the deletion commits the lines it had read, and
  no amount of it is checked, as its answer shows none. The proof of
  `EditsKeepTotalReadable` asked for this case, which two workers do not reach: the
  property leaves out orders whose deletion was lost like that (`deletionLost`).
- An order can lose all its lines; a cancelled order that holds money can be
  deleted, and its refunds then never approved.
- A webhook that answers before the pending row is committed is lost; two
  settlements that overlap can leave `payment_status` behind `paid_cents`, or
  lose one amount, as two payments do.

And around them:

- An edit of a quote with items and a rate computes with the new rate and stores the
  old one (`quotes.py:309`, `quotes.py:336`); an order made of it costs something
  else. The quote's tax is cut and the order's rounded: up to one cent more.
- Two edits of a quote that overlap leave both lists of items; two conversions make
  two orders.
- Two requests that insert the same kind of document at once leave two rows, and that
  kind can no longer be generated (`pdf_service.py:1201`).
- Whatever saves an order deletes its lines and inserts them with the quantities
  invoiced it read (`order_repository.py:116`). So an invoice that overlaps a payment, a
  refund's approval, a confirmation, a cancellation, an edit or a delivery is forgotten and the
  goods are billed again, though no two invoices or deliveries overlapped.
- Two invoices at once bill the same goods. A save of a delivery that missed
  another can leave a line invoiced beyond delivery, which no entity accepts (`order.py:71`): the
  order can no longer be read.
- A regenerated document keeps `is_signed`, though its new file is not signed.
- Receptions that overlap can leave a purchase order `partially_received` though
  everything came.
- Sharing an order twice at once leaves two active links (`portal.py:97`).
- Every process that falls back to its memory has a budget of its own, beside the
  one in Redis, and a restart renews it.
- A colour chosen in a form is overwritten by the one extracted from a logo uploaded
  at the same time; `grant` is called idempotent (`permission_repository.py:57`), but
  of two at once one fails on the unique key.
- Deleting a client looks at its newest order only (`delete_client.py:29`): an older
  active one does not keep it. Converting a quote does not look at its client
  (`quotes.py:473`): once the client is deleted, with nothing overlapping, the conversion
  gives it an active order. A stale save that opens a cancelled or deleted order again
  does so for a deleted client too.
- `create_supplier` compares phone, name and e-mail address; giving a client the
  supplier's role compares the client, phone and address, not the name
  (`purchases.py:234`), so a supplier made from a client may have the name of another, one
  request after the other. `create_client` compares e-mail addresses only, and changing a
  client compares nothing.
- Of two requests that attach a scan to different orders at once, the last wins and
  both are told it is done. A deleted product keeps its code and its barcode.
- A refresh that commits but whose answer is lost (a reload, a network error, a gateway's
  502) leaves the rotated token in the cookie. The promise is cleared (`client.ts:55`), the
  next refresh presents that token and is refused (`auth.py:370`): the user has to
  log in again though nothing but the browser's own refresh was committed.
- The event of a payment is published before it commits (`payments.py:98`): a list
  read in between stays without it, and the event may announce a payment that is
  rolled back. An `EventSource` that reconnects fetches nothing again, and one that is
  answered 401 stays closed until the token changes.

## 8. Not modelled

- Lists, reads, search and exports: they change nothing. (The one list that matters
  to `Notifications` is in it.)
- ARQ jobs (`workers/`): no code enqueues them. `reset_rate_limit`: no caller.
- OCR, PDF layout, e-mail, file storage: pure computation on one document, or output.
- Registration and forgotten passwords (`auth.py:272-290`), creation and deletion of
  users (`users.py:470-491`): they answer 403 and read nothing.
- A client's status (active, inactive, blacklisted): no endpoint changes it.
- Roles, owners and the HMAC check of webhooks: who may call is taken as given.
- Configuration, logging, metrics, security headers; the pages of the frontend, the
  bell that shows notifications and the pings of a stream.

## 9. Running

    tlc -config MCOrderLedger.cfg MCOrderLedger.tla
    tlc -config MCOrderRequests_two.cfg MCOrderRequests.tla
    tlc -config MCCommerce.cfg MCCommerce.tla
    tlc -config MCSessions.cfg MCSessions.tla
    tlapm OrderLedger_proofs.tla
    tlapm Commerce_proofs.tla

and likewise for the other configurations and proof modules. `PROJECT.json` maps
each definition to its source lines, each property to a mutation of the model
that breaks it, and each hazard of the code to the properties about it.
Definitions such as `CanRefundAny` or `ClaimAfterGet`, used by no action, are
those mutations.
