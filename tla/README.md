# Formal models of vyapar-ai

TLA+ models, model-checking configurations and machine-checked proofs for the
shop back end in this repository: stock, orders, payments, invoices, AI catalog
drafts, notifications, the WhatsApp conversation, the master data and the refresh
tokens.  The code is a FastAPI application whose request handlers run in a
thread pool; each request has its own SQLAlchemy session and PostgreSQL
transaction (READ COMMITTED).  Everything that can go wrong between two
requests goes wrong in the database, so the models step from one SQL statement
that matters to the next and keep, for every request, what its session has read.

## 1. The system

| Component | State | Operations | Talks to | What makes it correct |
|---|---|---|---|---|
| inventory (`app/inventory`) | `inventory` rows (quantity, threshold), `stock_movement` rows | create, set threshold, `adjust_stock`, `adjust_stock_by_product`, `stage_adjustment` | event bus | no lost update, quantity never out of range, history explains quantity, row locks are given back, low stock decided on committed values |
| order (`app/order`) | `orders.status`, order lines | create, transition (CONFIRM, CANCEL, PAY, PACK, SHIP, DELIVER, CLOSE) | inventory (stages its changes inside the order's transaction), event bus | all lines or none, stock held exactly once, survives deadlocks on row locks |
| payment (`app/payment`) | `payment` rows | initiate, verify (online), confirm_cod | gateway, order (`transition(PAY)` in the same session), event bus | one success per order, one payment per gateway reference and idempotency key, PAID exactly when paid, settled is final |
| database session (`app/db.py`) | locks, unique indexes, identity map | SELECT, FOR UPDATE, flush, COMMIT, ROLLBACK | | (part of the others) |
| event bus (`app/common/events.py`) | subscriptions; a thread's unhandled events | publish, after the commit, synchronously | notification listener | an event ends as a notification unless its own crash or failure swallows it |
| notification (`app/notification`) | `notification` rows | create from event, mark one or all read | event bus | at most one per event key, says only what was committed |
| invoice (`app/invoice`) | `invoice` rows, counter per business and year, PDF | generate, fetch PDF | order, payment, storage | one invoice per order, only for paid orders, gap-free numbers, no reference to a document that was not stored |
| catalog drafts (`app/catalogai`) | `catalog_ai_draft` rows | generate, regenerate, edit, approve, reject | AI provider, catalog (`create_product`) | an approved draft has its product, one draft per request key, no product without its draft, every draft is answered |
| conversation (`app/conversation`) | none | WhatsApp message -> intent -> product -> handler -> reply | AI provider, catalog, inventory | the product acted on is the one a single look would find |
| catalog, customer, business (`app/catalog`, `app/customer`, `app/business`) | categories, products, images, customers, addresses, businesses | create, update, soft delete, link WhatsApp number | object storage | unique keys, no dangling or foreign reference, deleted stays deleted |
| auth (`app/auth`) | users, denylist of refresh tokens | register, create user, login, refresh, logout | business | a business has an owner, a revoked token stays refused |
| analytics, dashboard, routers, adapters, migrations | none of their own | | | not modelled (section 5) |

Hard behaviour, in the order of how much hangs on it: requests that interleave
between a read and the write that depends on it (everywhere); transactions that
lock several rows (orders); a transaction that spans two services and a call to
a gateway (payments); failures and crashes between any two statements; events
published after a commit by a thread that may die; checks that only a unique
index makes good (master data); a clock and a denylist that forgets (tokens).
`PROJECT.json` lists every hazard with its line.

## 2. The modules

| Module | Models | Extends / used by |
|---|---|---|
| `StockLedger` | abstract promise of the inventory: atomic `Open` and `Post` | instance `Ledger` in `Inventory` |
| `Inventory` | `app/inventory`, with the conversation's stock command | base of `Orders` and `Conversation` |
| `Orders` | `app/order` composed with `Inventory` | base of `Payments` |
| `OrderLifecycle` | abstract promise of orders and payments while transitions of an order overlap no other request about it: every operation atomic | instance `Life` in `Payments` |
| `PaidOrders` | abstract promise that holds whatever overlaps: a paid status has its money, money stays | instance `Promise` in `Payments`, extended by `Invoices` |
| `Payments` | `app/payment` composed with `Orders` | base of `Notifications` |
| `Notifications` | event bus and `app/notification`, composed with everything that publishes | |
| `InvoiceBook` | abstract promise of the invoices: one book per year, filled line by line | instance `Book` in `Invoices` |
| `Invoices` | `app/invoice` composed with `PaidOrders` | |
| `CatalogDrafts` | `app/catalogai`, and its call of `create_product` | |
| `Directory` | the writes of `app/catalog`, `app/customer`, `app/business`, and users | base of `Conversation` |
| `Conversation` | `app/conversation`, composed with `Inventory` and `Directory` | base of `BackOffice` |
| `Sessions` | refresh tokens of `app/auth` | base of `BackOffice` |
| `BackOffice` | conversation, master data and sessions on one pool of threads | |
| `MCInventory`, `MCOrders`, `MCPayments`, `MCInvoices`, `MCCatalogDrafts`, `MCNotifications`, `MCBackOffice` | constants, bounds and symmetry for TLC | |
| `Inventory_proofs`, `Payments_proofs`, `Shop_proofs`, `Notifications_proofs`, `Invoices_proofs`, `CatalogDrafts_proofs`, `Directory_proofs`, `BackOffice_proofs` | theorems | each extends what it proves about; `Shop_proofs` extends `Payments_proofs`, which extends `Inventory_proofs` |

### State and steps

A request is a record with a control state `pc` (`adj[r]`, `ord[r]`, `preq[r]`,
`dir[r]`, ...) and the values its session holds.  `pc` goes from `"new"` through
one label per statement to `"done"` (answered), `"failed"` (answered with an
error, rolled back) or `"crashed"` (the process or the connection died; the
database rolled the transaction back).  Committed rows are plain functions (`quantity`,
`threshold`, `movements`, `status`, `pay`, `db`, ...).  Row locks are functions from
rows to their holder (`rowLock`, `payLock`); `Released(r)` is what a COMMIT or a
ROLLBACK does to them.

Two facts about SQLAlchemy matter and are modelled as they are:

* the identity map keeps the object a session loaded first.  A later
  `SELECT ... FOR UPDATE` of the same row locks it but does not overwrite the
  attributes (no `populate_existing`), so `LockHeldRow` - the lock that
  `adjust_stock_by_product` takes after it has read the row - keeps the old copy,
  while `LockRow` of `adjust_stock`, whose first read is the locking one, loads
  the current row;
* a session sends the columns whose values differ from the loaded ones and no
  others (`SetThreshold`, and `Flushed` in `CatalogDrafts` and `Directory`).

`Orders` stages the lines of a confirmation or cancellation one by one
(`StageLine`, `RefuseLine`), holds what was flushed but not committed in
`ord[r].staged`, and makes everything visible in `CommitTransition`.  The rule it
applies was looked up from the status read without a lock in `ReadOrder`.
`WaitsFor`, `Deadlocked` and `AbortDeadlock` are PostgreSQL's deadlock detector.

`Payments` follows `PaymentService`: initiation (`BeginInitiate` ...
`InsertPayment`), verification and cash confirmation (`BeginVerify`,
`LockPayment`, `CheckOrder`, the gateway's answer, `FlushSuccess`,
`CommitSuccess`, `PublishPayment`).  The gateway may answer anything at any time.
A colliding unflushed success makes `FlushSuccess` wait (`MustWait`), a committed
one makes it fail (`Collides`).  `CommitSuccess` commits SUCCESS and PAID in one
step because `_succeed` and `transition(PAY)` share one session.  The order object of
that session is the one `CheckOrder` loaded (`seen`): `transition(PAY)` looks its rule up
for that status, whatever the row says by now, and without a rule (`PayRules`) it would
refuse and everything would be rolled back.

`Notifications` adds the bus to all of these.  The step in which a request
publishes hands its drafts (`Unpublished`) to the thread's `backlog`; `Deliver` is
the listener's INSERT and COMMIT in a session of its own, or its failure, which it
logs and forgets.  A notification that exists already under the key of
`uq_notification_dedup` (`DedupKey`) is as good as a new one.  The backlog lives in
the memory of the thread: a crash before or during publication loses it, and the history
variable `lost` keeps what was lost so, and whose it was.

`Invoices` stands next to `PaidOrders`, not `Payments`: a generation reads only
the status of an order, once and without a lock, so what matters is what such a
status still proves later.  `PaidOrders` says just that, with no assumption about
overlaps: any status may follow any other, but a paid one has its money and money
once taken stays.  `Payments` is proved to implement it, so what is proved of
`Invoices` holds next to the real orders.  `TakeNumber` is the UPSERT of
the counter (its row stays locked until the transaction ends), `InsertInvoice` the
flush that waits for an uncommitted invoice of the same order, `LoseRace` the
IntegrityError of the unique `order_id` and the rollback that gives the number
back.  `StorePdf` and `ReferToPdf` come after the commit, from a generation or
from a download, in any interleaving; a stored document can be lost (`get_pdf` is
written for that case), but a lost one is still one that had been stored.

`CatalogDrafts` follows `CatalogAiService`.  A call reads its draft once, decides
on that copy and may wait for the provider.  Its commit is `Flushed`: the session
updates the columns its copy changed and no others (`expire_on_commit` is off, so
the copy is the one of the first read), there is no version column, and the last
writer of a column wins.  An approval commits twice: `CreateProduct` (inside
`create_product`) and `LinkProduct`.  `OneCallPerDraft` is not a rule of the code but the
hypothesis under which two of its claims hold.  A provider error of any kind is one step,
`ProviderFails`.  `generate_draft` is an `async def` route that calls the blocking
service, so in one process it holds up the event loop; it still overlaps calls that are
already in the thread pool and those of other processes.

`Directory` is one module for four services because they share one pattern: load
or build the object, check the reference (`CheckParent`) and the unique key
(`CheckKey`) with plain SELECTs, store the image object (`PutObject`), then flush
and commit (`WriteRow`), where the partial unique index (`IndexRefuses`) has the last
word.  A row is a record of five columns: its state (soft deletion), its business,
its unique key, its reference and one column for everything else.  Which table has
which columns, which of them a call may change and which scope a key has (`SameScope`:
emails and WhatsApp numbers are unique over all businesses) is taken from
each service.  `Register` inserts a business and its owner with one COMMIT.

`Conversation` starts where the provider has answered, with any intent, query and
delta.  `resolve` sends one SELECT per candidate word, so `TryNextWord` is a step of
its own and products may change in between; `AdjustStock` enters `Inventory` on the
row the session has already read.  A reply that cannot be sent ends the request,
whatever was committed.

`Sessions` has a clock.  A refresh token is a JWT that knows only its expiry; what
ends it earlier is a denylist whose entries expire and are purged by the next
revocation (`Purged`).  `CheckRevoked` and `Revoke` are separate steps, and `logout`
revokes without looking.

A request that is refused, or answered, on its first read leaves no trace and is
a stuttering step in the modules.

Operators marked "Fault:" are plausible bugs.  No specification uses them; each
shows, put in the place of the operator below it, that a property can fail.

### Abstractions

Outside `Directory` one business is modelled (every query is scoped by
`business_id`; that this scoping keeps references inside a business is
`ReferencesResolve`).  Product names, prices, tax and actors are left out where no
step depends on them.  In `CatalogDrafts` no product is deleted, so `Free` counts the SKU
of every product as taken; the code counts those of live products.  Amounts and currencies of a payment appear as the gateway's
verdict (`GatewayRejects` covers every mismatch).  The transactions a request opens
only to refresh an object after its commit read nothing the request acts on.
`taken`, `opening`, `lifecycle`, `lost` and `spent` are history variables.

## 3. What TLC checks

`tlc -config X.cfg M`, with M from the table.

| Run (cfg) | Module | Instance | Checks |
|---|---|---|---|
| `InventoryDashboard` | `MCInventory` | 1 product, 3 dashboard requests, 1 conversation command | `InvTypeOK`, `LockDiscipline`, `LockedCopyIsCurrent`, refinement `LedgerSpec`, `LowStockDecidedAtCommit`, liveness `Answered` |
| `InventoryLostUpdate` | `MCInventory` | 1 product, 1 conversation command, 1 dashboard adjustment | violates `Balanced` |
| `Orders` | `MCOrders` | 2 products, 2 orders in opposite line order (one with a product twice), 2 order requests, 1 stock request | `OrderLockDiscipline`, `LedgerSpec`, `WholeOrderMoves`, liveness `OrdersAnswered` |
| `OrdersDoubleRestore` | `MCPayments` | 1 order, CONFIRMED at the start, 2 order requests | violates `StockHeldOnce` |
| `Payments` | `MCPayments` | 2 orders, 2 earlier attempts, 2 payment requests, 1 order request, 1 stock adjustment | `TypeOK`, `PaymentLockDiscipline`, `OneSuccessPerOrder`, `RefBacksOnePayment`, `KeyNamesOnePayment`, `PaidOrdersHaveMoney`, `SettledIsFinal` |
| `PaymentsCancelRace` | `MCPayments` | 1 order, 1 attempt, 1 order request, 1 payment request | violates `MoneyMatchesStatus` |
| `Notifications` | `MCNotifications` | an online and a cash payment of one order, an order request about it or another order, a stock adjustment, a reader | `NotificationsAreTrue`, `NoEventVanishes`, refinement `LifecycleSpec`, liveness `PublishersAnswered` |
| `Invoices` | `MCInvoices` | 2 orders, 2 generations, 1 download, 2 years | `InvoicesTypeOK`, `GapFreeNumbers`, `InvoicedOrdersArePaid`, `NoFakeReference`, refinement `BookSpec`, liveness `GenerationsEnd` |
| `CatalogDrafts` | `MCCatalogDrafts` | 2 drafts, 3 calls, 1 request key, 2 SKUs, 1 price | `DraftsTypeOK`, `ApprovedHasItsProduct`, `OneDraftPerKey`, `NoProductIsForgotten`, `SerialApprovals`, liveness `PendingIsAnswered` |
| `CatalogDraftsDecided` | `MCCatalogDrafts` | 1 draft, 2 calls, 1 SKU | violates `DecisionsAreFinal` |
| `CatalogDraftsTwice` | `MCCatalogDrafts` | 1 draft, 2 calls, 2 SKUs | violates `OneProductPerDraft` |
| `BackOffice` | `MCBackOffice` | 3 threads; 1 business with a row in most tables; 2 names, 2 labels, 1 old token | `OneLiveRowPerKey`, `ReferencesResolve`, `EveryBusinessHasOwner`, `LastMovementIsQuantity`, `DeletedStaysDeleted`, `ResolutionIsAtomic`, `RevokedStaysRefused` |

**Bounds.**  Every request is made once, so runs are finite without further
constraints.  Quantities go up to `MaxInteger = 3` (the end of the INTEGER
column), initial quantities are 0 or 2: stock-outs, overflow and low stock all
occur.  Two requests are enough for every race between a pair.

* `InventoryDashboard`: the third request adds a threshold change between two
  adjustments.  The constraint `CommandsAlone` lets the conversation command overlap
  with no other request, because overlapping ones lose updates (`InventoryLostUpdate`),
  and lets a fourth request come when three have failed.
* `Orders`: two products in opposite order are the smallest deadlock, a product on
  two lines the smallest order that stages a row twice.
* `Payments`: two payments share one gateway reference and one idempotency key.  The
  adjustment comes when the others have ended (`AdjustmentLast`): it shares no row with a
  payment, and `Orders` lets adjustments overlap with transitions.
* `Notifications`: at most two threads are at work at a time, each payment request
  settles a payment of its own (so that both wait for one unique index), and the
  reader comes when the others have ended or not begun.  A transition overlaps no
  other request about its order (`TransitionsAlone`), the two payments of one order
  may; the order request moves the order of the payments (cancels it, or packs it once it is
  paid) or creates, confirms or cancels another one.
* `Invoices`: two generations race for one order or for one counter row, and two
  years let the loser of an order hold another counter row than the winner; the
  download stores and refers to a document between the steps of a generation.  The
  orders take three statuses (`Few`), one paid, one before and one beside it,
  which is all `generate` tells apart.
* `OrdersDoubleRestore`: all orders start CONFIRMED (`MCCancellations`), the state
  from which a cancellation restores stock.
* `CatalogDrafts`: a decision, a stale call and a third that reads what the two
  left; two drafts are needed for a key to name both, and a second SKU for an
  overlapping approval to make a rival product.  One draft at most is there at the
  start, the others are generated.  Three calls also let an approval die between its
  commits and two more follow it.
* `BackOffice`: two of three threads overlap and the third request comes when one has
  ended; two of them may write master data, or one beside a conversation.
  Requests of areas that share no table are not made together (`Area`), registration and
  user creation with any.  Refresh tokens live 2 ticks, access tokens 1, and the
  clock stops at 3: an entry of the denylist can expire and be purged.

Symmetry (of orders, of attempts and of requests of one kind) is used only in runs
without liveness properties: `Payments`, `CatalogDraftsTwice`, `BackOffice`.

**Deadlock** is checked in every passing run; the last disjunct of each `Next`
is the state in which no request is under way.

**Fairness.**  Weak fairness of the steps of each request that has begun, and of
nothing else: a thread keeps running, the database grants a free lock, its
deadlock detector acts, a gateway call ends (by
`payment_request_timeout_seconds` if need be), a listener's INSERT ends.  Beginning
a request and crashing are never fair.  Weak fairness is enough although locks are
contended, because each of the finitely many other requests holds a lock once.
`InvFairSpec` and `OrdersFairSpec` say this of the two lower modules;
`ShopFairness` of everything that publishes, payments included.  In
`InvoicesFairness` only the steps of generations are fair (rendering and storing
end or fail), not those of the orders or of downloads.  In `CatalogDrafts`
only the provider's answer is fair (`DraftsFairness`): its client has a timeout of 30 s
(`adapters/gemini.py`).

**What the passing runs show beyond the obvious.**

`LifecycleSpec` says when the order protocol is sound: as long as a transition
overlaps no other request about *its* order, the code implements the atomic lifecycle,
however the payments of one order overlap each other (the unique index lets one of
them through) and requests about different orders and stock adjustments interleave.

`NoProductIsForgotten` says what survives even the stale answers that
`CatalogDraftsDecided` shows: a draft whose APPROVED was taken back keeps the
reference to its product, because the answer never read that column.
`SerialApprovals` says what is left of the idempotence of `approve` when calls
about one draft wait for each other: only a crash between its two commits can still
make a second product.

`NoEventVanishes`: an event stays with the thread that caused it until somebody is
notified under its key, or a crash or failed write of that thread loses this very event.
The failure of one handler leaves the other events of the same commit alone, an earlier
loss excuses no later event with the same key, and deduplication never drops the only
copy.
`PublishersAnswered` says that this costs nobody an answer: an online payment and
cash for the same order wait for each other's unique index entry in one direction
only.

`ResolutionIsAtomic`: the words a query is reduced to ("notebooks", "notebook")
widen, so a product missed by a later SELECT was not there for an earlier one
either.  For words that do not widen each other this fails, which is why the
property says `Widening`.

`RevokedStaysRefused`: the denylist may forget its entries because each of them
lives as long as a refresh token issued at the moment of revocation would, and so
longer than the token it is about.

**What the violations show.**  Five statements of the repository do not hold:

* `inventory/service.py:3-7` says concurrent adjustments cannot race.  A stock
  command of the conversation reads the row before it locks it: an adjustment
  that commits in between, from the dashboard or by another command, is overwritten, and
  the movements no longer add up to the quantity (`Balanced`).
* `order/service.py:6-8` says double stock restoration is impossible.  Two
  overlapping CANCEL requests both read CONFIRMED and both restore
  (`StockHeldOnce`).
* the payment design (`docs/history/phase8_schema_decision.md`, D7) pays only
  CONFIRMED orders.  A CANCEL that overlaps a verification leaves a successful
  payment with a CANCELLED order, or a PAID order whose stock was given back
  (`MoneyMatchesStatus`).
* `catalogai/service.py:208-209` says approval is idempotent.  It commits the
  product and the draft separately and without a lock: a second approval with
  another SKU in its inline edit, overlapping or after a crash between the
  commits, makes a second product of the draft (`OneProductPerDraft`).  The unique
  SKU index stops it only when the SKU is the same.
* `catalogai/models.py:49` says terminal states never change again.  A regeneration
  checks the status, waits for the provider holding nothing, and then writes its own
  status unconditionally: a draft rejected (or approved) meanwhile becomes FAILED or
  GENERATED again (`DecisionsAreFinal`).

## 4. What TLAPS proves

`tlapm X_proofs.tla`.  The theorems hold for every set of products, requests,
orders, payments, years, drafts, rows, tokens and so on.

| Theorem | Statement |
|---|---|
| `Inventory_proofs!LedgerBalanced` | `Spec => []Balanced` of the abstract ledger |
| `Inventory_proofs!TypeCorrect` | `InvSpec => []InvTypeOK` |
| `Inventory_proofs!LocksAreDisciplined` | `InvSpec => []LockDiscipline` |
| `Inventory_proofs!RowMatchesHistory` | `InvSpec => []LastMovementIsQuantity` |
| `Inventory_proofs!LockedCopiesAreCurrent` | without the conversation path, `InvSpec => []LockedCopyIsCurrent` |
| `Inventory_proofs!ImplementsLedger` | without the conversation path, `InvSpec => LedgerSpec` |
| `Inventory_proofs!AdjustStockBalances` | without the conversation path, `InvSpec => []Balanced` |
| `Inventory_proofs!LowStockIsDecidedAtCommit` | without the conversation path, `InvSpec => LowStockDecidedAtCommit` |
| `Payments_proofs!OrderLocksAreDisciplined` | `OrdersSpec => []OrderLockDiscipline` |
| `Payments_proofs!ShopTypeCorrect` | `Spec => []TypeOK` of stock, orders and payments |
| `Payments_proofs!PaymentLocksAreDisciplined` | `Spec => []PaymentLockDiscipline` |
| `Payments_proofs!OrdersArePaidOnce` | `Spec => []OneSuccessPerOrder` |
| `Payments_proofs!RefsBackOnePayment` | `Spec => []RefBacksOnePayment` |
| `Payments_proofs!KeysNameOnePayment` | `Spec => []KeyNamesOnePayment` |
| `Payments_proofs!GoodsFollowMoney` | `Spec => []PaidOrdersHaveMoney` |
| `Payments_proofs!SettledStaysSettled` | `Spec => SettledIsFinal` |
| `Payments_proofs!PaymentsKeepThePromise` | `Spec => PromiseSpec`: payments implement `PaidOrders` |
| `Shop_proofs!OrdersImplementLedger`, `ShopImplementsLedger` | without the conversation path, `OrdersSpec => LedgerSpec` and `Spec => LedgerSpec` |
| `Shop_proofs!OrdersMoveWhole`, `ShopMovesWhole` | `OrdersSpec => WholeOrderMoves` and `Spec => WholeOrderMoves` |
| `Shop_proofs!LoneTransitionsImplementLifecycle` | `Spec /\ []TransitionsAlone => LifecycleSpec` |
| `Shop_proofs!LifecycleCorrect` | `Spec => [](StockHeldOnce /\ PaidMeansMoney)` of the abstract lifecycle |
| `Shop_proofs!LoneTransitionsAreSound` | `Spec /\ []TransitionsAlone => [](StockHeldOnce /\ MoneyMatchesStatus)` |
| `Notifications_proofs!NotificationsTellTruth` | `ShopSpec => []NotificationsAreTrue` |
| `Notifications_proofs!NothingVanishes` | `ShopSpec => NoEventVanishes` |
| `Invoices_proofs!InvoicesTypeCorrect` | `InvoicesSpec => []InvoicesTypeOK` |
| `Invoices_proofs!NumbersAreGapFree` | `InvoicesSpec => []GapFreeNumbers` |
| `Invoices_proofs!InvoicesArePaidFor` | `InvoicesSpec => []InvoicedOrdersArePaid` |
| `Invoices_proofs!ReferencesAreReal` | `InvoicesSpec => []NoFakeReference` |
| `Invoices_proofs!InvoicesKeepTheBooks` | `InvoicesSpec => BookSpec` |
| `CatalogDrafts_proofs!DraftsTypeCorrect` | `DraftsSpec => []DraftsTypeOK` |
| `CatalogDrafts_proofs!ApprovalsHaveProducts` | `DraftsSpec => []ApprovedHasItsProduct` |
| `CatalogDrafts_proofs!KeysNameOneDraft` | `DraftsSpec => []OneDraftPerKey` |
| `CatalogDrafts_proofs!ProductsAreRemembered` | `DraftsSpec => []NoProductIsForgotten` |
| `CatalogDrafts_proofs!SerialCallsKeepDecisions` | `DraftsSpec /\ []OneCallPerDraft => DecisionsAreFinal` |
| `CatalogDrafts_proofs!SerialApprovalsMakeOneProduct` | `DraftsSpec => SerialApprovals`, that is `[]OneCallPerDraft => []OneProductUnlessCrashed` |
| `Directory_proofs!DirectoryTypeCorrect` | `DirSpec => []DirTypeOK` |
| `Directory_proofs!KeysAreUnique` | `DirSpec => []OneLiveRowPerKey` |
| `Directory_proofs!NoDanglingReference` | `DirSpec => []ReferencesResolve` |
| `Directory_proofs!RegistrationIsAtomic` | `DirSpec => []EveryBusinessHasOwner` |
| `Directory_proofs!DeletionIsFinal` | `DirSpec => DeletedStaysDeleted` |
| `BackOffice_proofs!RevocationOutlivesTokens` | `SessSpec => RevokedStaysRefused` |
| `BackOffice_proofs!BackOfficeIsItsParts` | `BackSpec => InvSpec /\ DirSpec /\ SessSpec` |
| `BackOffice_proofs!BackOfficeCorrect` | hence the properties of the three parts, of `BackSpec` |
| `BackOffice_proofs!ResolvedAsByOneLook` | `BackSpec => ResolutionIsAtomic` |

The only assumptions are those the modules declare on their constants
(`InventoryAssumption`, `OrdersAssumption`, `PaymentsAssumption`,
`NotificationsAssumption`, `InvoicesAssumption`, `DraftsAssumption`,
`DirectoryAssumption`, `ConversationAssumption`, `SessionsAssumption`), which TLC
evaluates in the runs of the modules that extend them.  They say that identifiers
of different kinds differ, that no request is of two kinds, that constants have
their types (an order has a line, a query a word, 0 is a quantity), and that an access token
lives shorter than a refresh token.

"Without the conversation path" is the hypothesis `ConversationRequests = {}`: all
adjustments go through `adjust_stock`, which locks before it reads.  It is needed,
as `InventoryLostUpdate` shows, and it is satisfied by every deployment that
serves only the dashboard.  `[]TransitionsAlone` and `[]OneCallPerDraft` are needed
likewise (`OrdersDoubleRestore`, `PaymentsCancelRace`, `CatalogDraftsDecided`,
`CatalogDraftsTwice`).  `AdjustStockBalances`, `LoneTransitionsAreSound`,
`SerialCallsKeepDecisions` and `SerialApprovalsMakeOneProduct` are the counterpart of
those violations: they say that it takes a stock command, or an overlap, or (for
the second product) a crash, to break what is claimed.  They do not say that every
overlap does.

**Inventory.**  `InvTypeOK` and `LockDiscipline` are inductive together: the
second needs the records of `adj` to be what they seem.  The proofs of the lock
are by the three things a step can do to it (`LockUntouched`, `LockTaken`,
`LockReleased`).  `LastMovementIsQuantity` needs `HistoryInv`: a product without a
row has no movements (or the row's opening quantity could be contradicted by an
older history), and a request that holds a lock found its row.
`LockedCopyIsCurrent` is inductive because whoever writes a row either holds its
lock (`ApplyAdjustment`), waits for it (`SetThreshold`) or creates it
(`InsertRow`).  With the copy current, a commit is exactly a `Post` of the ledger
(`OneMovementIsPost`), and the threshold a request compares with is the committed
one (`AdjNextDecides`).

**From orders to the ledger.**  A confirmation stages any number of movements
before its one commit, while other requests run, deadlock and die.  `BooksInv`
adds `StagedChains` to the invariants of stock and orders: what a transaction has
staged for a product continues from the row as it is committed.  It is inductive
because whoever has staged for a product holds its row lock, so nobody else moves
that row (`AdjLeavesTouched`, `OrdersLeaveTouched`); a second line for the same
product continues from the first (`OrderStagesChained`).  `CommitTransition` is
then one `Post` (`CommitIsPost`) and no other step of an order moves a row.

**Whole orders.**  `WholeOrderMoves` speaks of the sum over the lines of an order.
`Units(o, p)` is the sequence of partial sums; that it exists for orders of any
length is an induction (`UnitsExist`), and the fold in the property is its last
element (`UnitsAddUp`).  `SetInduction` is that induction, stated for a *set* of
numbers and derived from `LeastNat`, which in turn rests on inclusion being
well-founded on finite sets.  `StagedAsAsked` is the loop invariant of a transition
over the lines: after `line - 1` lines the staged movements take the row to its
committed quantity plus the effect times that partial sum, and a transition that
touches stock is not committed before its last line.  A line that is refused ends the
request, and the rollback drops what was staged.

**The lifecycle.**  Under `[]TransitionsAlone`, `StatusAtHand` is inductive: the
status a transition has read is still the order's when it writes, since any writer in
between would be a second request about this order; an order that a payment has seen
CONFIRMED is still CONFIRMED or has been paid for by another payment.  When a payment
commits it is the former (`PaysConfirmed`): its flushed success collides with no
committed one, and a PAID order has one.  Commits then map to the atomic
operations of `OrderLifecycle` (`CommitIsMove`, `PayNextIsMove`), creation and
failure to their counterparts, everything else to a stutter.  In the abstract lifecycle
`StockHeldOnce` and `PaidMeansMoney` follow by cases on the rule (`PlainMove`,
`StockMove`).

**Orders and payments.**  `ShopInv` has four parts.  `OrdInv` is what an order
request knows: its types, the order and line at hand while it is inside its
transaction, and that what it has staged it has locked.  `PayInv` adds the same for
payment requests (`PayCallOK`), that they go on only with an order they have seen
CONFIRMED (so `transition(PAY)` finds its rule, `CommitSuccessPays`), and what the unique indexes guarantee while a
success is flushed but not committed: it collides with no committed success, and
no two flushed ones collide (`FlushedApart`).  Without that part
`OneSuccessPerOrder` is not inductive, since the index is consulted at the flush and
the row appears at the commit.  `PaidOrdersHaveMoney` needs
`MoneyBehindTransitions`: a transition in flight towards a paid status has its
money already, because clients cannot send PAY (`ClientEvent`) and every other rule
into a paid status starts from one.  So a status written from a stale read is
never one without money.

**From payments to invoices.**  `PaymentsKeepThePromise` maps every step of
`Payments` to a step of `PaidOrders` or to a stutter: `CommitSuccess` to `Pay`,
creations and transitions to `Write`, whose guard is `MoneyBehindTransitions`
again.  `InvoicesArePaidFor` is proved next to `PaidOrders`, so the two theorems
together say that no real order gets an invoice without money, overlapping requests
included.  What does *not* follow is that an invoiced order is not CANCELLED; see
`MoneyMatchesStatus`.

**Notifications.**  `TruthInv` carries an event from the transaction that causes it to
the listener that writes it down.  `HasHappened(d)` is what a draft claims; it is
stable because movements are only appended (`MovementsStay`), an order never
returns to NONE or CREATED (`OrdersGoOn`) and payments are final (`HappenedStays`).  It becomes
true in the step that makes the draft publishable (`AdjustmentTellsTruth`,
`TransitionTellsTruth`, `CreationTellsTruth`, `SettlementTellsTruth`).  For low stock
that needs `LowsAreStaged`: while a transition is staging, every low-stock event it
has collected belongs to a movement it is going to commit.  `BusInv` keeps
the claim through backlog and notice, where marking as read touches no draft.
`NothingVanishes` follows each event in its own thread: the thread
remembers what it has not published or handled (`ThreadsRemember`), so an event leaves
it only when its key is `Told` or when it is `lost` as an event of this thread
(`DueStays`).

**Invoices.**  `InvoicesInv` is what makes the numbers gap-free: a transaction that
has its number holds the counter row of its year and has `next_seq + 1`
(`RequestOK`), whoever holds a counter row is such a transaction (`LockOK`), and
one transaction at a time is past the insert of an order (`OneInsertPerOrder`).  A
commit is then exactly an `Issue` of the book (`CommitIssues`), and no other step
touches a line (`OthersIssueNothing`).

**Drafts.**  `DraftsInv` says that the copy a waiting call holds was read undecided and
that every product a row or a copy names exists, was made from that draft, and had
its approval ended (`NamesProductOf`).  An UPDATE of the changed columns can then
only name the call's own new product.  Column-wise commits are what this rests
on; with whole-row writes (`WholeRow`) `NoProductIsForgotten` fails.  Under
`[]OneCallPerDraft` more is inductive (`FreshInv`): the copy of a waiting call *is* the
row, so a commit never meets a decided draft, and an approval that has ended without
crashing has left its draft APPROVED, so that nobody may approve it again.

**Master data.**  `DirInv` relates what a request holds to rows that may have changed
since: a creation has no row yet, the copy of a change belongs to a row that is still
there, in the same business (`Inserts`, `Changes`), and a reference it has checked
still leads to a row of that business,
live or deleted, because nothing is ever removed or moved.  Since an UPDATE sends
only what differs from the copy, it cannot bring a deleted row back, and the index
decides with the columns that will be there after the write.

**Tokens.**  A revoked token either has a denylist entry that outlasts it or has
expired: a token's expiry is at most the time of revocation plus `RefreshTTL`,
which is when the entry ends.  `AccessTTL < RefreshTTL` is not needed for this, only
for the fault that shows the property can fail.

**The pool of threads.**  Every step of `BackOffice` is a step of one part and a
stutter of the others (`BackStepIsInventory`, `BackStepIsDirectory`,
`BackStepIsSessions`), so the whole has every property of the parts.  The one
place where it is not immediate is a message that adjusts stock: it enters `Inventory` through
`adjust_stock_by_product`, for a product and with a delta that `Inventory`
accepts, which is what `TalkInv` says of a message.  `ResolutionIsAtomic`
combines two facts: for a query whose words widen, a word that finds one product
or the last word that finds none decides what a single look would find
(`OneLookFinds`), and that look is at the catalog as it is in the same step.  No
induction over the earlier SELECTs is needed, because a wider word finds all that a
narrower one could at that moment.

**Only model-checked:** the liveness properties `Answered`, `OrdersAnswered`,
`PublishersAnswered`, `GenerationsEnd` and `PendingIsAnswered`, which rest on fairness and so on
ENABLED, out of the prover's reach.  Every invariant, action property and
refinement of a passing run is stated by a theorem.  The five violated statements of
section 3 are of course not theorems.  Under the hypotheses named above `Balanced`,
`StockHeldOnce`, `MoneyMatchesStatus` and `DecisionsAreFinal` are, and
`OneProductPerDraft` is for approvals that did not crash.

## 5. Not modelled

* *Analytics and dashboard* are read-only aggregation queries; the *HTTP layer*
  (routing, validation, wiring, settings) decides which requests exist, and the
  ones it lets through are the `Begin` actions; the *migrations* create the
  schema that each component's `models.py` restates.  `compute_order_totals` is
  exact decimal arithmetic, covered by unit tests.  Of storage and messaging only
  failing puts, lost documents and unsent replies matter here.
* Of *auth*, roles, PINs and password hashes are refusals before anything happens, and
  access tokens keep no state.  Deactivating a user has no endpoint.

Behaviour that the models show or name, but that no property excludes because the
code allows it:

* two refreshes that both look before either revokes both pass, and so does a
  request that stalls between decoding its token and looking; a crash
  between revoking and issuing logs the client out; the in-memory denylist is
  empty after a restart;
* the product a message settles on may be deleted before its stock is adjusted,
  and a query whose words do not widen each other may miss a product that is
  renamed meanwhile; a message delivered twice is executed twice;
* a `LOW_STOCK` notification is given once per product and then never again, since
  its key does not change;
* an invoice can exist for a CANCELLED order (the consequence of
  `PaymentsCancelRace` for a generation that reads PAID in between);
* a crash or a lost key race leaves an order at the gateway without a payment row,
  and a crash after a put leaves an image object without its row: nothing refers
  to either.

The planned modules are all written, and what the passing runs check of safety is
proved.  What a next step could add is to the models: the product's deletion
between the two halves of a stock command, and what a `LOW_STOCK` notification
should mean after the stock has recovered.
