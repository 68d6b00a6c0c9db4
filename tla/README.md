# A formal model of Harbor Market

Harbor Market is a small shop: a FastAPI back end over PostgreSQL and an object
store (`backend/app`), a Vue administration front end (`frontend`), a WeChat Mini
Program (`miniprogram`) and deployment scripts (`deploy`). This directory holds
TLA+ modules of its core logic, TLC configurations that check them on small
instances, and proofs checked by TLAPS. Paths below are relative to `backend/app`
unless they start with another top-level directory.

The back end runs as the threads of one server process (`backend/Dockerfile:33`; each
HTTP request has one database session, `api/dependencies.py:16-18`, with autoflush
off, `db/session.py:46-47`), next to a clean-up worker started from the command line
(`cli.py:37-53`). Requests interact only through PostgreSQL (READ COMMITTED, row
locks, unique constraints), the object store, the payment provider and, within the
server process, the rate limiter. That is why
every model below has the same shape: shared stores, plus one program counter per
request that is executing.

## Inventory

| Component | State | Operations | Interacts with | What is hard, what must hold |
|---|---|---|---|---|
| Payment state policy `payments/domain.py` | none | `decide_transition`, `status_for_provider_state` | payment service | a success never regresses; a late success is always accepted |
| Payment service `services/payments.py`, `models/payment.py` | attempts, state events, provider receipts | create, refresh, reconcile, close, process notification, simulate | database locks and constraints; the provider, under the lock | idempotency, one active attempt per order, close against pay, lost and repeated notifications, lost prepay answers, double payment |
| Mock provider `payments/providers/mock_wechat.py` | one record per merchant order, committed in its own session | create prepay, query, close, set trade state, build and verify notification | payment service | its state commits although the caller rolls back |
| Object cleanup outbox `services/object_cleanup.py` | jobs (intent, pending, processing, completed, failed) | enqueue, claim due jobs, check reference and delete, retry, admin retry | uploads, deletions and imports enqueue; the worker and requests run jobs | nothing referenced is deleted, nothing unreferenced leaks, crash between any two steps |
| Product images `api/routes/admin_catalog.py` | product image rows, objects, quota | upload, staged upload, cancel, delete | outbox, object store | the same protocol seen from the request; capacity and quota |
| Workbook import `services/catalog_excel.py`, `models/import_job.py` | import jobs, promoted keys | import, recover stale jobs | catalog rows, outbox, object store | idempotency key, three-hour lease, partial failure of copies |
| Catalog `services/catalog.py` | categories, products, SKUs | create, update, delete | images, shop media | acyclic category tree, publication contract, one default SKU |
| Mini identity `services/mini_auth.py` | customers, sessions | login, authenticate, logout | WeChat code exchange | a login code is used once, one customer per identity, first revocation kept |
| Customer avatar `services/mini_avatar.py` | avatar key | replace | outbox | as for product images |
| Shop commerce `services/shop_commerce.py` | favorites, coupons, claims, recorded orders | claim, edit, record, void | customers, products | claim against edit, idempotent order reference |
| Cart quotation `services/shop_cart.py` | none | `quote_cart` | products, claims | prices, stock over lines, coupon eligibility at its boundary |
| Shop media and profile `services/shop_store.py` | profile row, media | save, update, delete | outbox, owner check | carousel limit, replacement under the store lock |
| Rate limiter `core/rate_limit.py` | one window per key, in process | check, consume, reset | routes | limit per window, eviction at capacity |
| Administrator accounts `services/auth.py`, `core/security.py` | users | login, register | routes | tokens are stateless |
| Shop home `services/shop_home.py` | none | reads | catalog, shop | none of its own |
| Front end, Mini Program, deploy | per page, local storage, files | — | HTTP API | cart store and session store of the Mini Program keep state |

The hazards each of them is exposed to are listed, at their lines, in
`PROJECT.json` under `hazards`.

## Modules

| Module | Contents |
|---|---|
| `PaymentDomain` | the state policy, as constant operators |
| `Payments` | the payment service and its provider: a state machine |
| `MCPayments` | small instances of both (requests, provider moves, symmetry) for TLC |
| `PaymentLifecycle` | the abstract specification: what an order's attempts may live through |
| `PaymentsRefinement` | `Payments` under the refinement mapping |
| `PaymentsProofs` | type correctness and the inductive invariant, proved |
| `PaymentsSafetyProofs` | what a step may do to the table of attempts, and the safety properties that follow, proved |
| `PaymentsReviewProofs` | history, close reason, review of double payments, and the refinement, proved |
| `PaymentsProviderProofs` | successes, prepay IDs, receipts and closes against the provider's records, proved |
| `ObjectOutbox` | clean-up jobs with all their clients, and the object store |
| `MCObjectOutbox` | small instances of it (keys, symmetry, view) for TLC |
| `OutboxProofs` | types, no leaks, no dangling references, the staging quota, proved |
| `CatalogRules` | specifications, SKUs, images and the merge of a workbook, as constant operators |
| `Catalog` | administrators' requests on categories, products and images |
| `CatalogImport` | the workbook import and the lease of its jobs, beside those requests |
| `MCCatalog` | a small instance of it (documents, workbooks, symmetry) for TLC |
| `CatalogProofs` | every safety property of the catalog and the import, proved |
| `RateLimiter` | the sliding window, as operators on its table |
| `MiniSessions` | customers, logins and sessions of the Mini Program |
| `CartQuote` | the quotation of a cart, as operators |
| `ShopCommerce` | coupons, claims, recorded orders |
| `ShopStore` | the shop's owner, text and media |
| `MiniShop` | the composition of the last five on the same threads, customers and clock |
| `MCMiniShop` | a small instance of it for TLC |
| `RateLimiterProofs` | lemmas about the limiter's operators |
| `MiniShopProofs` | every safety property of the composition, proved |

### Payments

State and code:

| Variable | In the code |
|---|---|
| `attempts[a]` | a row of `payment_attempts` with its events: status, creation request, prepay generation, transaction, review reason, close reason, history |
| `provider[a]` | the provider's record of the attempt's merchant order: trade state, prepay generations issued and expired, whether a payment was recorded |
| `inbox[e]` | the row of `payment_provider_events` of event ID `e` |
| `lock[o]` | the row locks of the attempts of order `o` |
| `calls[p]` | the request thread `p` executes: program counter and local variables |

A request is a chain of steps. Between two of them any other request may run; the
steps that the code performs without leaving its own memory or a single statement
are one action. `create_mock_attempt` is `CreateLookup` or `CreateReplayed`, then
`CreateRead`, `CreateLock`, `CreateInsert` or `CreateConflict`, and hands over to a
second transaction, `_ensure_prepay` (`PrepayLock` ... `PrepayLate`), which is also
the whole of refresh and the tail of reconcile. `reconcile`, `close` and
`process_notification` are split likewise; every call to the provider is a step of
its own, because the provider commits in its own session (`mock_wechat.py`) and the
customer pays when he likes. `simulate_mock_transition`
is `SetTradeState` followed by a notification or a reconcile.

Choices worth knowing when reading the module against the code:

- All rows of an order are locked in ascending ID (`payments.py:733-745`), and rows
  are never deleted, so the lowest row's lock stands for all of them: `lock` has one
  entry per order. A deadlock between row locks of one order can therefore not be
  expressed here; what rules it out is that order, and that no transaction locks the
  rows of two orders. `FOR UPDATE` of `create` reads its row set when the statement
  starts (`CreateRead`), waits (`CreateLock`), and re-reads only those rows; an order
  without rows gives no lock at all.
- What a call writes is computed at its commit from the stored rows and the snapshot
  it read earlier. That the rows did not change in between is what
  `RowsChangeUnderLock` and `CallsConsistent` show.
- A late success in `_ensure_prepay` re-reads the rows with `populate_existing` and,
  as the session does not flush on its own, loses the prepay that was staged before
  (`StagedPrepay`).
- Unique constraints are evaluated against committed rows at the commit step:
  idempotency key and active attempt (`Insertable`), transaction ID
  (`TransactionTaken`), event ID (`Stored`).
- A creation request has a `key` (owner and idempotency key), an order, `terms` (owner,
  amount and currency) and a description. The request hash of a replay covers all of it;
  a retry for the same order must agree in the terms only (`Admits`).
- A prepay ID is its generation, a transaction ID with its success time is the
  attempt whose payment it belongs to. Amounts are right or wrong (`amountOk`).
- `history` keeps the events that change a status or flag a review. The other events
  only note an observation and repeat without bound.
- A crash is a rollback that frees the locks; nothing in memory survives.

### Properties

Invariants: `TypeOK`; `CallsConsistent` (what a call has read stays true until its
commit); `OneActiveAttempt`; `OneAttemptPerKey`; `DoubleSuccessUnderReview`;
`ReviewFollowsSuccess`; `HistoryIsChain`; `CloseReasonOfClosed`; `ClosedMeansUnpaid`;
`PrepayIsIssued`; `SuccessIsProven`; `ReceiptsBacked`. Action properties:
`SuccessNeverRegresses`, `RowsChangeUnderLock`, `ReceiptsFinal`. Liveness:
`EveryCallEnds`, `PaidIsRecorded`. Each is stated in words above its definition.

### PaymentLifecycle

The abstract specification knows no requests, locks, constraints or provider: an attempt
has a status and the request that made it, and a set of attempts is flagged for manual
review. Its steps are creating an attempt, learning a status by the transition policy
(a success flags, in the same step, the attempt and all its paid or payable rivals) and
reviewing again. `PaymentsRefinement` maps `status` and `request` to the stored row and
`flagged` to the rows with a review reason. `ImplementsLifecycle` says that each commit
of each call is one such step or none: no call is ever half visible, although a call
is up to two transactions with provider calls in between. `flagged` forgets the reason,
the mapping forgets prepay IDs, transactions, closing and the inbox.

### ObjectOutbox

| Variable | In the code |
|---|---|
| `objects` | the keys the object store holds |
| `refs` | the keys of committed `product_images`, `mini_customers.avatar_object_key` and `shop_media` rows |
| `jobs[j]` | a row of `object_cleanup_jobs`: status, key, whether it is due, whether a staged upload made it |
| `quota` | the holder of the staging advisory lock |
| `calls[p]` | the request or worker run process `p` executes |
| `shown` | history: the keys an exported workbook can name |

Uploads of product images, avatars and shop media follow one protocol and are one
group of actions: commit an intent (`UploadIntent`), store the object (`UploadPut`),
commit the reference with the completed intent and the job of what is replaced
(`Attach`); on any failure roll back, requeue the intent and run it (`Abandon`,
`AbandonRequeue`). Staged uploads, cancellation, deletion and the image side of the
import are the other clients. `RunStart`, `RunCheck`, `RunDelete`, `RunDeleteFails` and
`RunFinish` are one turn of the loop of `run_object_cleanup_jobs`, split where another
transaction can commit; `WorkerClaim` and `AdminRetry` are `retryable_cleanup_jobs`.

- A session keeps the rows it has written (`expire_on_commit=False`), so a request runs
  the job it made as it remembers it: `RunStart` writes "processing" whatever the row
  says by now, and may reopen a job that a worker has completed. A claimed job is
  remembered as "processing" and is not written again before it is finished.
- Taking over a stale "processing" row changes none of its values, so SQLAlchemy emits
  no UPDATE and the row stays claimable: two workers may run it together.
- Time is `due`: past `not_before`, and past the ten minutes of an intent or a claim.
  `Ripen` lets it pass at any moment. With `Prompt`, not while a live request or worker
  holds the job: the assumption the code's graces make.
- A storage call fails before or after its effect. Deleting a missing key succeeds.
- A cancellation takes any key of the staging area, stored or not. The client has the
  key from the answer to its upload. The list of clean-up jobs shows the keys of uploads
  still in progress as well (`api/routes/admin_catalog.py:542-557`); that nobody cancels
  such a key is the second half of `Prompt`.
- An import promotes one image; the second validation pass and the etag condition
  appear as a source found missing, a failing copy or a conflict at the commit.

Invariants: `NothingLeaks`, `NothingDangles`, `StagingWithinQuota`; liveness:
`UnusedIsRemoved`; violated: `NeverDeletesReferenced`.

### Catalog and CatalogImport

| Variable | In the code |
|---|---|
| `categories[c]` | a row of `categories`: parent and whether it is active |
| `products[x]` | a row of `products` with its specification document, `product_skus` and `product_images` (key and role) |
| `locks[r]` | the FOR UPDATE lock of that row |
| `calls[p]` | the request thread `p` executes; `rows` is what its lock statement found, `seen` what an import's second pass read, `job` its import job |
| `jobs[j]` | a row of `import_jobs`, with a count of the transactions that stored its workbook |
| `left` | bound: requests that may still be made |

A request is one step up to the point where it waits or another transaction can commit,
and one step for its commit: `UpdateCategory`, `CategoryLock`, `UpdateCategoryCommit` are
the lookup, the table-wide lock with the cycle check, and the write; a product or image
is locked, read again and validated in `UpdateProduct`, `DeleteProduct`, `DeleteImage`,
`ImageLock`, and written in the commit step. An import is `Import` (the lookup of its
key), `ImportInsert` (the job's own transaction), `ImportParse` (first pass), `ImportLock`,
`ImportReparse` (second pass, under the locks) and `ImportApply` (everything and the
job's completion in one transaction); every way to fail ends in `Fail`, as
`_fail_import_job` does. `Recover` is the worker that fails jobs whose lease is over,
at any time, as the import may still be running; `Crash` rolls a transaction back.

- A lock statement finds its rows when it starts and waits for them then: a row
  created in between is not locked (`TableRows`, `calls[p].rows`), a row deleted in
  between is gone.
- A write of a foreign key waits while the referenced row is locked FOR UPDATE
  (`Referable`) and is refused if the row is gone (`CategoryPresent`).
- Unique indexes, on SKU codes, covers and idempotency keys, are evaluated at the commit
  (`CodesFree`, `OneCover`, `Insertable`).
- Only the fields a request sets are written, over the row as it is at the commit.
- A category is read without a lock when a product is validated. So a published product
  may belong to a category that was deactivated a moment ago, or later; the code does
  not promise more, and the public pages filter on both.
- The partial unique index on the active default SKU (`models/product.py:228-234`) is
  not modelled as a constraint that refuses a write. The services validate that a list
  of SKUs has one active default and unset the stored one before they write it, under
  the product's lock; `SkusMatchSpecifications` says that what is stored has exactly one.
- Categories have surrogate IDs: the ID of a deleted one becomes `Gone` and is not used
  again. A request names a category that exists when it starts; moving one to the root is
  allowed. `Above` is the chain of parents, stated as the least set closed under "parent"
  instead of by recursion, so that it can be reasoned about.
- A deleted product also vanishes from the rows of the calls that wait for it.
- An import's commit waits for the categories and products that its new rows refer to
  (`ReferencesFree`), and finds the owners of its images again or fails (`OwnersFound`).
- The tables an instance starts with and the inputs of requests are assumptions
  (`InitialTablesAssumption`, `CatalogInputsAssumption`, `CatalogImportAssumption`): the
  former says what the proved invariants say of the tables, the latter what the request
  schemas and the workbook parser let through.
- Staged images of a workbook are copied to keys of their own (`Injection` into
  `FreshKeys`). The stored objects are `ObjectOutbox`'s subject.
- The etag and existence checks of the two passes are the outcome `ImportStorageFails`.

Invariants: `TypeOK`; `TreeIsAcyclic` (the stored categories are a forest, and a product
refers to one of them); `ImageContract` (limits per role and exactly one
cover of a published product); `SkusMatchSpecifications`; `ImportAppliedOnce`;
`JobTellsTruth`. Action property: `PublishedNeverDeleted`. Violated:
`ValidationObservesFinalState`.

### The Mini Program's shop

| Variable | Module | In the code |
|---|---|---|
| `customers`, `sessions` | `MiniSessions` | rows of `mini_customers` and `mini_sessions` in insertion order; a bearer token is named by its row |
| `limiter` | `MiniSessions` | the table of the login limiter: client key to times of counted events |
| `granted` | `MiniSessions` | history: the logins counted for a client since it was last given up |
| `coupons`, `claims`, `orders` | `ShopCommerce` | the rows of those tables; an order carries its lines |
| `holders` | `ShopCommerce` | the row lock of a coupon |
| `answered` | `ShopCommerce` | history: the order reports that were accepted |
| `owner`, `author`, `media` | `ShopStore` | the store's owner, the last author of its text, the rows of `shop_media` |
| `now`, `calls`, `left` | all | the clock, the executing requests, the bound on requests |

`Login` runs the limiter (a call of it is under one lock, hence an operator) and starts a
request; `LoginLookup`, `LoginCustomer`, `LoginCommit` and `LoginConflict` are the code
exchange, the head of the retry loop, the commit and the handler of the constraint
violation, which runs the loop once more. `Logout` authenticates, `LogoutCommit` is its
conditional update. A claim locks its coupon's row (`ClaimLock`) until `ClaimCommit`;
`UpdateCoupon` waits for the row. An order is looked up (`RecordOrder`) and committed later
(`OrderCommit`, `OrderConflict`); its lines are a bag, the code comparing sorted lists in
which a line may occur twice. Saving media is two transactions, each with the same
checks (`MediaIntent`, `MediaAttach`), and the upload between them. Requests that lock
what they read, and neither wait nor call anything before their commit, are one step.
`CartQuote` has no state: `QuoteCoherent` evaluates it in every reachable state of
coupons, claims and clock, for a set of carts.

`MiniShop` adds the clock and interleaves the three groups: what a commerce or store
request acts on, the session it authenticated with and the owner it was, may have
changed when it commits.

Invariants: `TypeOK` (a stored coupon is valid as a whole); `LoginIsExclusive`;
`LimitHonest`; `OrderRecordedOnce`; `QuoteCoherent`. Action properties:
`FirstRevocationStands`, `ClaimedWhileValid`, `ShopPageContract`.

## Runs

| Run | Instance | Question |
|---|---|---|
| `payments-race` | 2 threads, 2 attempts, 1 order, 2 keys, late success and late close at the provider | do interleavings of all calls keep an order's attempts right, and implement the abstract life cycle? (0.6 million states) |
| `payments-faults` | 2 threads, 1 attempt, 2 prepay generations, every provider fault | is what is stored as payable or closed what the provider says? (40 thousand states) |
| `payments-notify` | 2 threads, 2 orders, 1 event ID, wrong amount, transaction and order | does exactly a true payment become a success, and once? (0.4 million states) |
| `payments-liveness` | 2 threads, 1 attempt, late success, every provider fault, fairness | does every call end, and is a payment recorded without any notification if the attempt goes on being reconciled? |
| `payments-retry` | as the race, without notifications | violated: see below |
| `outbox-uploads` | 2 threads, 2 workers, 2 keys, 3 open jobs, puts and deletions fail, all may die | is no object orphaned and none in use removed? (0.1 million states) |
| `outbox-import` | 3 threads, 1 upload key, 2 staged keys, 3 open jobs, copies fail, threads may die, quota 1 | the same with staging and imports, and is the quota kept? (0.3 million states) |
| `outbox-liveness` | 1 thread that may die, 1 worker, 2 keys, 2 open jobs, fairness | is every unused object removed at last? |
| `outbox-reuse` | 2 threads, 1 worker, no crash, no fault, keys named again | violated: see below |
| `catalog` | 2 threads, 2 categories, 1 product, 3 object keys, 2 jobs, 3 requests | do concurrent administrators and imports keep tree, images, SKUs and jobs right? (6 initial states, 0.27 million states) |
| `catalog-late` | the same with 2 requests and `LateCreation` | violated: see below |
| `mini-shop` | 2 threads, 3 codes of 2 identities, 3 clients, 2 coupons, 3 media, 3 requests | do logins, logouts, the limiter, claims, orders and the shop's page keep their promises together? (0.36 million states) |

Why these bounds: two threads are the smallest number that races, and the locks and
constraints involve two transactions at a time; two attempts of one order are what
double payment, retry and the unique index are about; one event ID delivered any
number of times, for any attempt, covers repeats and reuse; two prepay generations
are one expiry and one renewal. Threads and attempts are interchangeable in the model
(symmetry), except in the liveness run, which uses none. `ProviderMoves` limits what
the provider does on its own: `FinalMoves` are those of a real provider, the others
add late truths and the control endpoint of the mock.

For the outbox: a key has at most a replaced, a promoted and a new object to do with,
hence two or three keys; three job rows are what the widest commit needs (the
promotion: intent, expiry, new job), and a completed row that nobody works on is free
for the next job, so runs are not limited in length. In `outbox-import` the third
thread plays the worker by the administrator's retry, which claims one due job as the
worker does. `View` hides what a free row still holds, which nothing reads. The quota
is checked without failing puts and deletions: when an upload fails and its requeue
races a cancellation, or a deletion fails after one, a completed expiry job is opened
again and the count may pass the quota; `backend/README.md:32-33` calls the
staging keys "capped", without exception: there the code falls short of its documentation.

For the catalog and the mini-shop: all requests are short, so a behaviour needs two
that race and at most one that prepares or follows them (`MaxCalls = 3`); `Done` stands
for the end of such a behaviour. Both start from several populated states: a published product with its
cover, a draft or none, each with one top category or two; with a known customer, a session, an inactive
guest, a full limiter, a coupon and an announcement. Limits are scaled to be reached:
one image of a role (8 and 20 in the code), one carousel medium (20), two logins per
window and two keys in the limiter, an amount of at most 8 (2^31 - 1), one tick of
tolerance for completion times (60 seconds). The clock has two ticks per second, since
Retry-After rounds up to whole seconds, and `MaxTime` of 2 crosses the expiry of the
first session, of the coupon and of the limiter's oldest events. The documents, SKUs,
workbooks and carts of `MCCatalog` and `MCMiniShop` are the smallest that meet each
branch of the rules: a SKU that another document does not admit, two SKUs that would
both be the default, a row that publishes, a row that demotes the cover, a product known
only by its SKU rows, a sparse SKU beside a full one, a negative price difference.

`LateCreation = FALSE` is an assumption of the run `catalog`: no product that an import
names is created between the import's lock statement and its commit. The code does not
enforce it; `catalog-late` shows what happens without it. The deletion of a locked
product, its edits and every other creation are left free.

`Prompt` is what the outbox needs and does not enforce. Without it (an upload that
hangs for more than ten minutes between its intent and its commit while a worker runs
the intent) both `NothingLeaks` and `NothingDangles` fail: the worker completes the
intent and the late object is stored without a job, or the key is attached between
the worker's check and its deletion. Nor does it hold back the cancellation of a staged
upload in progress: without that half of `Prompt` TLC finds `NothingLeaks` violated in the
instance of `outbox-import`, the cancellation completing the expiry and deleting nothing
before the object is put.

`ClosedMeansUnpaid` is checked under `FinalMoves` only. With an order that turns
from closed to paid at the provider it cannot hold at any instant; there `PaidIsRecorded`
says that the row is still corrected once somebody asks the provider again.

**Fairness.** `FairSpec`: a started call goes on (its thread is scheduled, and
PostgreSQL queues lock waiters, so a lock released again and again is granted: strong
fairness). Nothing is assumed of notifications, customers, administrators or the
provider. In particular nobody is assumed to reconcile: the code does so on request only
(`api/routes/payments.py`), and
`.spec-workflow/specs/wechat-payments-mock/design.md:106-108` leaves retry, backoff and
reconciliation to a later live adapter. So `PaidIsRecorded` is conditional: *if* an attempt
is reconciled again and again, and these calls are answered rather than killed or refused,
its payment is recorded, whatever was closed, failed or lost before. That the condition
is met is not a promise of this code. `RecoveringSpec` of the outbox: live requests
and runs go on and time passes (weak fairness); the `cleanup-worker` container claims
due jobs again and again and does not skip a job for ever, claims being ordered by due
time, and deletions that are retried succeed at some point (strong fairness). In that
run requests may die anywhere; the worker does not.

**Deadlock** is checked in every run (in `catalog` and `mini-shop` up to the end of the
bounded behaviour, `Done`, which needs every request to have been answered): the provider and new requests keep the system
moving (new uploads and the jobs of the outbox do the same there), and a thread that could
not go on would still be visible in `EveryCallEnds`.

### Findings

`payments-retry`: `.spec-workflow/specs/wechat-payments-mock/requirements.md:19-21`
lets an attempt be retried only when the earlier ones are closed or failed with the
same terms, and `backend/tests/test_payments_api.py:382` tests that a success prevents
another attempt, sequentially. `create_mock_attempt` enforces this on the rows its lock
statement returned (`payments.py:78-79`). If there were none, nothing is locked; when
a rival creates *and completes* an attempt before the insert, the partial unique index
does not object either, and a second payable attempt is added to a paid order.
The service does detect the consequence: `DoubleSuccessUnderReview` holds.

`outbox-reuse`: the comment in `services/object_cleanup.py:59-60` says "Never delete a
key that is currently referenced", of a job that is run while another transaction
finishes attaching the object. The check (`object_cleanup.py:61-73`) and the deletion
(`:82`) are two steps, and nothing locks the key. An image is deleted; an import whose
workbook still names its key finds it stored (`catalog_excel.py:1107-1113`); a clean-up
run checks the references; the import commits; the run deletes the object. The row then
refers to nothing. If the run comes before the import's commit altogether the result
is the same, the import not looking for open jobs of the key.

`catalog-late`: the comment in `services/catalog_excel.py:383-384` promises "Reparse while
the affected product locks are held so image/SKU validation observes the final state".
The lock statement locks the products that exist. A product that another request creates
after the second pass has no lock, was seen as absent, and is found by the selection in
`_apply_import` (`catalog_excel.py:1308-1317`), which updates it: what was validated as a
new product overwrites, or is merged with, one that validation never saw.

## Proofs

Every safety invariant and every action property that a passing run checks is also a
theorem, and so is the refinement. A run shows it on a small instance; the theorem holds
for every set of threads, requests, rows, keys and inputs, every bound, and every choice
of faults and anomalies that the hypotheses named below leave open. The named assumptions
on constants (`PaymentsAssumption` and so on) say what kind of values the constants are,
what request schemas let through and what the initial tables can be; the one on carts is
described below. TLC evaluates them in every run.

The argument has the same shape everywhere. A property is seldom inductive, because
a call acts on what it read several steps ago. So the invariant says for each program
counter *what its call may still rely on*: rows it has locked are as it read them, rows
it has not locked have moved on only in ways that do not matter. The proof of a step then
has two halves: the calling thread establishes what it will rely on next, and every other
thread's knowledge survives (a frame lemma, proved once per module).

### Payments

`PaymentsProofs`: `Consistent` is `Spec => []Inv`, with `Inv == TypeOK /\ CallsConsistent`;
`TypeCorrect` and `CallsStayConsistent` are its two halves. `TypeOK` alone is not
inductive: a row computed from `calls[p].snap` is a row only if the snapshot was read and
the attempt exists, and the locked steps need the caller's lock to be theirs.
`CallsConsistent` says exactly that, and also what the provider's records presuppose.
There is a lemma per operator that builds a row (`LogType`, `MarkType`, `MoveType`,
`SettleType`, `AppliedType`), a frame lemma and one lemma per request.

`PaymentsSafetyProofs`: its central lemma, `NextRows`, says what a step may do to the table
of attempts: nothing, or add one attempt that the unique constraints admit, or commit
rows of one order whose lock it held and now frees, each by the transition policy
(`RowPolicy`). From it follow `SuccessIsFinal` (`SuccessNeverRegresses`) and
`LockProtectsRows` (`RowsChangeUnderLock`), facts about single steps; `OneActiveAlways` and
`OneKeyAlways`, inductive with `Inv`; and `ReceiptsAreFinal` (`ReceiptsFinal`).

`PaymentsReviewProofs` sharpens `NextRows` to `TableStep`: a commit is `Learns(new, a)`, that
is, attempt `a` moves by the policy and the others keep their status; and *a new success
flags itself and all of its paid or payable rivals in the same commit*. The second half
is what a test of one path cannot show, as six steps of the code write a status.
`RowTells` (the history is a chain that ends in the status; only a closed row keeps a
close reason) and `Grown` (a history is only appended to) are kept by each operator on rows.

- `HistoryAlwaysChain`, `CloseReasonAlwaysOfClosed` follow from `RowTells`;
- `ReviewAlwaysFollowsSuccess`: a review reason is written only with a confirmed success
  in the same order, and histories grow;
- `DoubleSuccessAlwaysReviewed`: the second success finds the first among its rivals;
- `PaymentsImplementLifecycle`: `Learns` maps to a step of `PaymentLifecycle`, an insertion
  to a creation, everything else to a stutter.

`PaymentsProviderProofs` relates rows to the provider's records, which move on while a call
holds an answer. `MovesOn` says how (a payment, a known order and an issued prepay stay);
`Knowing` says what an answer is still worth between its arrival and its use; `Backed`
says what a row may then say. From it, `SuccessAlwaysProven`, `PrepayAlwaysIssued` and, with
`ReceiptBacked` for the inbox, `ReceiptsAlwaysBacked`. `ClosedAlwaysUnpaid` has the hypothesis
`ClosedIsFinal`: the provider's moves do not leave "CLOSED". That of a real provider
does not; the moves of the run `payments-faults` satisfy it, and without the hypothesis
the property is false (see above).

### The object outbox

`OutboxInvariant` is `Spec => []OutboxInv`. Its parts: `TypeOK`; `Fitting` (a call has the
job and the kind of key its program counter needs); and under `Prompt`

- `Owns`: a call that is bringing an object in has a row that is its own (not
  due, in nobody else's hands), and no other row, reference or call names its key;
- `Covered`: an object that nothing refers to has an open job *that nobody is about to
  complete*. Without the second half the invariant is not inductive: a run that has
  checked and deleted completes the job in a later step.

`NoLeaks` follows. `AttachInvariant` adds that what a run is about to delete is not
referred to (`Deletable`); it is kept because a reference is only ever given to a key
whose call owns it. This is where a workbook that names the key of a deleted image breaks
the argument: its commit refers to a key it does not own. So `NoDangling`
(`NothingDangles`) and `ReferencedIsKept` (`NeverDeletesReferenced`, that no step deletes an
object in use) have the hypothesis `Reattach = {}` beside `Prompt`, and the run
`outbox-reuse` shows that it cannot be dropped. `TypeCorrect` needs no hypothesis.

`StagingQuota` says that racing staged uploads never pass the quota: the count is taken and
the row committed under the advisory lock (`Harmless`), and a completed expiry is never
opened again. Its hypothesis is that no put and no deletion fails; with either fault TLC
finds the quota passed, in the way described above under the bounds.

The lemmas come per action (`...Sound` for `OutboxInv`), and three summaries of what a step
may change (`Basic` and the frame of `StepSound`, `Shaped` for references, `Sparing` for
expiries) carry the other two invariants.

### The catalog

`InvariantHolds` is `Spec => []IInv`. Its parts:

- `CallSound`: a call holds the rows it has selected (`Holding`); a category that will be
  re-parented is not above its new parent; a row that will be stored is valid over the
  stored one (`Decided`); what an import's second pass has computed can be stored
  (`Computed`) and, without `LateCreation`, is about what is stored (`UpToDate`);
- `Nested`: of two re-parentings, one has selected all the stored rows of the other. The
  table-wide lock only locks rows that existed when it started; that this suffices to
  serialise the cycle checks, although categories come and go meanwhile, is this fact
  (`TreeMoves` is the lemma on a single re-parenting);
- `JobsSound`: one job per key, a running import has a job of its own (`OwnJobs`), not
  applied yet, and a job is completed if and only if it was applied.

From it: `TypeCorrect`, `TreeStaysATree`, `SkusAlwaysMatch` (late creations included),
`KeysAppliedOnce`, `JobsTellTheTruth`; with each step, `PublishedProductsStay`; and
`ImagesWithinContract` under `~LateCreation`. With a late creation the images of a
workbook are merged into rows that nobody has counted; in the instance of `catalog-late`
TLC finds `ImageContract` violated as well.

Data without induction: the operators on SKUs and images search sequences and
replace keys. `FirstPosition`, that a position with a property has a first one, is proved
by counting (were each preceded by another, the numbers of predecessors would be as many
as the positions and all too small) instead of by induction, which the provers do not offer; `FinalSkusIs`, `AppliedImagesTyped`, `AppliedImagesCounted` and
`FinalRowIs` say what a merged row is.

### The Mini Program's shop

`RateLimiterProofs` has lemmas only, for every limit, window and resolution: `Kept` drops
exactly a prefix (`SplitsAt`), dropping later or twice is the same (`KeptLater`),
`RetryAfterIsExact` (waiting that many seconds frees a place, one less does not) and
`ConsumeCounts` (the table's bound, which key is given up, what is counted).

`ShopIsConsistent` is `Spec => []ShopInv`, a conjunction of four parts; each step belongs
to one of them and is `Quiet` for the others:

- `SessionsInv`: a login between two steps still finds what it has read, and on its second
  attempt meets the customer that beat it (`SessionCall`), hence it never fails twice;
- `LimiterInv`: what the table remembers of a client is exactly what still counts of its
  history `granted`;
- `CommerceInv`: a claim holds its coupon, which was open at the time of the claim; each
  accepted report has its order, stored as it was reported (`OrdersInv`);
- `StoreInv`: slots, categories and the carousel limit of the stored page.

From it: `ShopTypes`, `LoginAlwaysExclusive`, `LimitAlwaysHonest`, `OrdersAlwaysRecordedOnce`,
`QuoteAlwaysCoherent`, and of each step `FirstRevocationAlwaysStands`, `ClaimAlwaysValid`
and `PageContractAlwaysHolds`. `QuoteAlwaysCoherent` uses a part of
`ShopCommerceAssumption` that is a fact of arithmetic: the subtotal of an accepted cart,
a sum of integers over its lines, is an integer. That needs induction over
the fold that computes it; TLC evaluates it for the carts of the instance.

### Only model-checked

- Liveness: `EveryCallEnds`, `PaidIsRecorded` (conditional, see Fairness), `UnusedIsRemoved`.
  Fairness and ENABLED are out of the prover's reach.
- The violated properties: `RetryOnlyAfterEnd`, `ValidationObservesFinalState`, and
  `NeverDeletesReferenced` where keys are named again. They are false.
- Where a theorem has a hypothesis, the behaviours outside of it: `Prompt`, `Reattach = {}`,
  no failing puts and deletions, `~LateCreation`, `ClosedIsFinal`. The runs and the
  paragraphs above show that each is needed.

## Plan

Done: all modules above, and the theorems on every safety property of the passing runs.

Left, in this order:

1. the fact about subtotals in `ShopCommerceAssumption` as a lemma, should the sum be
   stated without a fold;
2. an abstract specification of the outbox (a set of keys in use and a set of keys that
   will go) which `ObjectOutbox` implements;
3. an abstract specification of import jobs (a key is applied once or never);
4. favorites, `check` and `reset` of the limiter for the administrators' login.

## Not modelled

- Signing and encryption of notifications, password hashing and tokens, administrator
  accounts (stateless): cryptography.
- Workbook parsing, the export and template workbooks, image and video decoding, texts,
  formats and ranges of single fields: data handling of one request.
- Favorites and nicknames (one unconditional statement each), titles and positions of
  images and media, lists and read-only pages, the search hit counter, `check` and `reset`
  of the limiter (the administrators' login).
- The shell, settings, migrations, the web front end, the Mini Program client and
  deployment.
- The connection pool is listed as a hazard and not modelled: a payment request holds
  one connection, with locks, while the mock provider takes a second one.

## Running

    tlc -workers 2 -config PaymentsRace.cfg MCPayments
    tlc -workers 2 -config OutboxUploads.cfg MCObjectOutbox
    tlc -workers 2 -config Catalog.cfg MCCatalog
    tlc -workers 2 -config MiniShop.cfg MCMiniShop
    tlapm PaymentsProofs.tla
    tlapm PaymentsSafetyProofs.tla
    tlapm PaymentsReviewProofs.tla
    tlapm PaymentsProviderProofs.tla
    tlapm RateLimiterProofs.tla
    tlapm MiniShopProofs.tla
    tlapm CatalogProofs.tla
    tlapm OutboxProofs.tla

The other configurations belong to the modules `MCPayments` (`PaymentsFaults`,
`PaymentsNotify`, `PaymentsLiveness`, `PaymentsRetry`), `MCObjectOutbox` (`OutboxImport`,
`OutboxLiveness`, `OutboxReuse`) and `MCCatalog` (`CatalogLate`).
