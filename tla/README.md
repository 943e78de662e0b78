# A TLA+ model of MoeCraft

MoeCraft is a multi-merchant shop: a NestJS API over MySQL 8 (`apps/api`), an
admin console and a storefront. All state that matters is rows of one database;
several API processes read and write them at once, and each also runs a poller
for durable jobs; browsers keep copies of the rows while requests overtake each
other. This directory holds TLA+ modules of it, TLC configurations that check
them on small instances, and TLAPS proofs about the core. Paths are relative to
`apps/api/src` unless they say otherwise.

## 1. The system

| component | state | operations | talks to |
|---|---|---|---|
| Inventory (`inventory/`) | one `Inventory` row per SKU (onHand, reserved, version), its ledger, its reservations | adjust, set threshold, reserve, commit, release, sweep of expired reservations | products write the same row; orders, payments and jobs write it in their own transactions |
| Orders (`orders/`) | `Order`, `MerchantOrder`, `OrderItem`, `Shipment`, export tasks | create, cancel, ship, confirm receipt, export | quotes, inventory, coupons, payment intents, jobs |
| Payments (`payments/`) | `PaymentIntent`, archived `PaymentEvent`s | start, close, webhook, refund | the payment provider; orders, inventory, cart |
| Jobs (`jobs/`) | `Job` rows, one poller per process | claim, run, complete, fail, replay | closes expired orders, confirms receipt |
| After-sales (`after-sales/`) | `AfterSale`, `RefundRecord` | request, review, return, refund, platform review | payments, orders |
| Promotions (`promotions/`) | `Coupon`, `CouponClaim`, `CouponRedemption` | create, claim, quote, redeem, release | orders, checkout |
| Checkout (`checkout/`) | quotes, consumed once | quote | promotions, cart, orders |
| Cart (`cart/`) | guest and buyer carts | add, update, remove, select, clear, merge | SKUs, inventory |
| Products (`products/`) | product status, texts, review events | save, submit, withdraw, review, publish, archive | inventory, catalog, files |
| Merchants and stores (`merchants/`) | applications, merchant, members and their grants | apply, review; add, change, suspend, remove staff | users, sessions |
| Authentication (`auth/`) | users, sessions, reset tokens | register, login, refresh, logout, reset; guards | every endpoint |
| Addresses, favorites, reviews, reconciliation, catalog, files | small tables with a check before each write | create, change, remove | products, orders |
| Admin console (`apps/admin`), storefront (`apps/storefront`) | what a page shows, requests under way, timers, object URLs | clicks, answers in any order, unmount | the API |

Components interact through the rows they share, in two ways. A *transaction*
gathers statements; most of those that move orders are SERIALIZABLE, those of
the inventory service READ COMMITTED, many run at MySQL's default. Outside
transactions a handler reads, waits (often for the payment provider) and writes
by id, so what it read may be stale. The provider delivers events when and as
often as it likes. A process may die between any two statements.

What is hard, by component:

- **Stock.** A unit is promised to one order at a time; reserved is the number
  of units under active reservations; a reservation finishes once; the ledger
  tells the same story as the row. Many writers under an optimistic check.
- **An order's decision.** Webhook, buyer and expiry job race to pay, cancel or
  close. Children, reservations, stock and coupon must follow the one decision.
- **Payment events.** Duplicated, late, out of order, half processed.
- **Jobs.** One worker for a job, a bounded number of attempts, nobody forgotten.
- **Fulfilment and refunds.** Parcels of several merchants; receipt confirmed by
  buyer and clock; refunds that succeed at the provider only.
- **Terms of an order.** Prices, limits and coupons change between cart, quote
  and order; discounts are rounded.
- **Status workflows.** Products, applications, after-sales, members: a status
  is read, checked, and written by id later.
- **Browsers.** Answers that overtake each other, refreshes of one token by
  several requests, saves of which one half fails.

`PROJECT.json` lists each such hazard at its line, with the properties that
cover it.

## 2. Modules

Core, over shared rows:

| module | models | state and actions |
|---|---|---|
| `StockLedger` | nothing in the code: the abstract promise of a stock | `stock`, `hold`; Take, Sell, Return, Recount |
| `InventoryDomain`, `Inventory` | `inventory/inventory.service.ts` and its domain; the stock writes of `products/product.service.ts` | one row, ledger, reservations, one record per request in flight |
| `OrderDomain`, `Trade` | create and cancel of `orders/order.service.ts`, start, close, webhook of `payments/payment.service.ts`, closeExpiredOrder of `jobs/job.service.ts` | orders, intents, stock per SKU, reservations, redemptions, carts, archived events |
| `Jobs` | `jobs/job.service.ts`, `job.worker.ts` | job rows, workers with what they read, replays in flight |
| `ShipmentDomain`, `Fulfilment` | ship, cancel, confirmReceipt, autoConfirmReceipt; the admin console's ship form as operators | one order from PAID on: merchant orders, parcels, the confirmation's job |
| `AfterSale` | `after-sales/after-sale.service.ts`, handleRefund of payments | EXTENDS `Fulfilment`: cases, refund record, what the provider paid back |
| `PromotionDomain`, `Checkout` | promotions, `checkout/checkout.service.ts`, create of orders as far as quote, key, price and coupon go | claims, redemptions, quotes, orders with their payment and both ends, offers that merchants change |

The shop around it. These share no state; `Shop` puts them side by side, each
request being of one part, and `MCShop` is an instance of it:

| module | models |
|---|---|
| `CartDomain`, `Cart` | `cart/cart.service.ts`: one buyer's and one guest's cart, several tabs |
| `Products` | the review workflow of `products/product.service.ts` and what the public sees |
| `Onboarding` | `merchants/merchant-onboarding.service.ts` |
| `Desk` | reviews, favorites, reconciliation, order exports |
| `Access` | pure operators: who may see and do what, in `auth/authorization.ts`, the access profile, the admin's menu and router, and the scopes of orders, cases and reviews |
| `Team` | EXTENDS `Access`: staff of a merchant, `merchants/store.service.ts`, with login, registration and reset of `auth/auth.service.ts` |
| `Files` | `files/files.service.ts`, `local-object-storage.service.ts` |

Clients and what they talk to. `Clients` chooses one part for each behaviour,
and `MCClients` is an instance of it:

| module | models |
|---|---|
| `Session` | `apps/admin/src/api.ts` (storefront: `useApi.ts`) with the rotation of refresh tokens |
| `AddressBook` | `addresses/address.service.ts` |
| `Catalog` | `catalog/catalog.service.ts`: the taxonomy and its references |
| `FilePreview`, `DraftEditor` | `useFilePreview.ts`, the product draft drawer and the store form |
| `StockForm` | the stock drawer over the versioned writes of inventory |
| `CheckoutPage`, `CartPage`, `PaymentPage` | the storefront's `checkout.vue`, `useCart.ts` with `cart.vue`, `payments/[orderId].vue` |
| `Boards` | the seven pages that list rows and write about one of them in a drawer: order board, after-sale board, product reviews, product drafts, team and reconciliations of the admin console, addresses of the storefront |

Eight modules are proofs: `InventoryProofs`, `TradeProofs`, `JobsProofs`,
`AfterSaleProofs`, `CheckoutProofs`, `ShopProofs`, `ClientsProofs`, and
`UnitCounting` with the lemmas on counting units that four of them share.
`MC...` modules are instances for TLC.

`Boards` is one module because the pages are one shape: ask for a row, show it,
type, send, show or close. Where they differ (which of them are busy while they
wait, which drawer brings its text along, what closing resets, what follows an
answer) the actions say so by the name of the board. A text is the row it was
written about; the list a page shows is taken to be as fresh as the store. The
console sends a string made at the click; the address book hands its reactive
form to the request, and `useApi.ts:4` makes the body of it again when it
repeats a request after a 401 (`SentAgain`), so what is sent may be what was
typed meanwhile. The rest of a 401 is in `Session`.

How code becomes actions:

- A **SERIALIZABLE transaction** is one step: create, cancel, ship, claim of a
  coupon, closeExpiredOrder, autoConfirmReceipt, the part of the webhook that
  applies an event. A conflict or an exception inside it changes nothing, so it
  is the absence of the step, or `Crash` where the request had something to lose.
- The **inventory service** runs at READ COMMITTED: each SELECT is a step and
  the rest of the transaction, from the conditional UPDATE of the inventory row
  to the commit, is one. That is exact because every writer of the ledger and
  of a reservation first takes that row's lock.
- A transaction at **MySQL's default level** reads without locks and shows its
  writes together: its reads are one step (with the checks made on them), its
  writes another. A write by id writes whatever the row has become; a write to a
  row that is gone, or that meets a unique key, fails and takes its transaction
  with it (`Fail`).
- A statement **outside a transaction** is a step.
- In the **clients** the step is what JavaScript runs without waiting: a click
  up to the first await, an answer up to the next. Answers come in any order,
  or fail after they were applied.
- `request`, `tx`, `worker`, `call` hold what a request has read. An entry is
  cleared when the answer is given, and by a crash.
- Time is a set or a choice: what is due, whether a token has expired. Once
  passed it stays passed, unless the code writes a new deadline.
- A *history* variable, said to be one, is read by no guard but those that
  bound it; properties use it to say what must not have happened.
- An operator with the comment *Mutant* is a deliberately wrong variant of the
  definition below it, used to see that a property can fail.

What the modules leave to each other. `Trade` ends where shipping begins and
`Fulfilment` goes on from PAID; `Trade` has stock row by row and one coupon
claim, `Checkout` has claims, prices and keys and takes create and cancel as
the one step they are: a cancellation before the payment gives back units and
claim, one after it neither, because `releaseReservations` finds no reservation
that is ACTIVE (`orders/order.service.ts:313`) and
`shouldReleaseCouponReservation` says no. `Inventory` has the statements of what `Trade` calls
`Adjust`. In `Jobs` a handler is one step that settles the order; the handlers
are in `Trade` and `Fulfilment`. Any due job may be found first, where the code
takes the oldest: the model allows more orders of execution than the code.

## 3. What the runs check

| run | bounds | properties |
|---|---|---|
| `MCInventory` | 2 requests, 2 references, stock 2, 4 writes of the row | `TypeOK`, `ReservedIsHeld`, `NeverOversold`, `LedgerReplays`, `LedgerTellsEachReservation`, `AnswersAreTrue`, `ImplementsStockLedger` |
| `MCTrade` | 1 order of 2 SKUs, 2 requests, 2 events, crashes | `TypeOK`, `ItemsFollowOrder`, `PaidByOneEvent`, `OrderMoves` |
| `MCTradeOrders` | 2 orders, one SKU with room for both or one, one coupon claim, 2 events | `CouponHeldOnce`, `ImplementsStockLedger` |
| `MCJobs` | 2 jobs, 2 processes, 2 operators, 2 attempts, crashes | `OneWorkerPerJob`, `AttemptsCounted`, `CompletedIsSettled`, `FinishedStaysFinished` |
| `MCJobsLive` | 2 jobs, 2 processes, 3 attempts; nobody dies or replays | `NoEarlyRetry`, `SettledOrDead` |
| `MCAfterSale` | an order of 2 merchants (2 units and 1), 2 parcels, one case per item, 2 requests, 2 refunds | `NeverOvershipped`, `OrderTellsParcels`, `StatusTellsRefund` |
| `MCCheckout` | 2 buyers, 2 quotes, 1 key, one unit of x, prices 1 and 3, one coupon with 2 claim ids and a limit of 1 | `CouponKept`, `OrdersAddUp`, `PlacedOnCurrentTerms` |
| `MCShop` | 2 requests in each part; 1 SKU with limit 2 and line limit 3; 2 products with 2 saves; 2 applications; 6 toggles; 1 member; 2 files | `WithinLimits`, `RemovedStaysRemoved`, `HistoryTellsStatus`, `StepsOfTheTable`, `OneApproval`, `TogglesCount`, `OutIsOut`, `NothingAstray` |
| `MCClients` | 2 calls, 2 sign-ins, 5 secrets; 3 addresses or categories or polls; 2 texts and coupons; 2 rows with 3 picks; 3 changes; 4 versions; boards of 2 rows | `KeepsItsSession`, `OneDefault`, `QuoteFitsScreen`, `PreviewsAccountedFor`, `TreeStands`, `PagesAreCurrent`, `SentAsMeant` |
| `MCTradeLateFailure`, `MCAfterSaleTwice`, `MCShopUnreviewed` | as the runs they are named after | one sentence of the documents each, refuted |

`ASSUME`s of the MC modules check pure operators against what they are for:
`SplitIsFair` (a discount's parts make up the whole, and no line is off by as
many cents as there are lines), `TellsWhatIsMissing`, `CartAgreesWithCheckout`,
`CutIsValid`, `MergeKeeps`, `NormalizedKeeps`, `SendsWhatFits`,
`OffersWhatFits`, and `MenuOpens`, `ButtonsOpen`, `ListedOpens`,
`WhoDecidesSees` over every user that can be made: roles, membership, and every
set of granted pages and of the buttons for orders and cases.

Why the bounds are enough to be interesting. Nearly every race here is between
two requests over one row or one order, with a third party (merchant, provider,
clock) free to act at any time; two requests make each of them the early and the
late one. Four writes of an inventory row are two reservations, the finish of
one, and the second finish that must not happen, and leave room for ABA. Two
SKUs make a half-finished order possible, two orders make contention possible,
two merchants an order shipped in part. Two refunds show a refund asked for
again. A price that rises and falls makes a quote stale and current again. Five
secrets are two sign-ins and three rotations; three addresses are a default,
its replacement and one more; three categories the shortest cycle that two
moves make, with a node between; two rows of a board and two requests are the
row a text was written about and the row it could be stored for. In `MCShop` and `MCClients` a behaviour belongs
to one part, chosen at the start, so that the parts' states add up where a
product would multiply them; nothing is lost because the parts share no state.
Deadlock is not checked where the system may come to rest
(`CHECK_DEADLOCK FALSE`): everything decided, delivered, answered, or a bound
used up. Symmetry is used where the identifiers are only compared, and in no
run with a liveness property.

**Qualified properties.** Some properties hold only without a particular
overlap, which is then written into them and told by a history variable:
`OneDefault` (a removal of an address that overlaps with another request may
leave none or two defaults), `TreeStands` (two moves at once may make a cycle),
`QuoteFitsScreen` (the form was changed while the quote was made),
`PagesAreCurrent` (an older answer shown after a newer), `SentAsMeant` (at the
order and the after-sale board a row was asked for while another request was
under way, and the text stays when the row under it changes; in the address book
a new address was begun while the text of one was under way, and was sent in its
place after a 401), `OutIsOut` (a request that had read the account before the
change), `KeepsItsSession` (the network lost the answer to a refresh),
`OneWorkerPerJob`, `AttemptsCounted` and `FinishedStaysFinished` (a replay wrote
over a job that another replay had already started again, `reset`). Each of
these is a real weakness of the code; the property says that it is the only one.
`PagesAreCurrent` speaks of the changes that a page's own requests made: what
another tab, or the payment of an order, changed in the cart since
(`ChangedElsewhere`) is not shown until something is asked. `RemovedStaysRemoved`
lets a line appear again for any request that had looked for its row and found
none, also before there was one.

**Fairness.** Only the liveness properties of `Jobs` need any. `FairSpec` asks
weak fairness of each process's own loop (`job.worker.ts` ticks every 15 s for
as long as the process lives, and one tick works through the due jobs) and of
the clock. It does not ask that a handler succeed, that a lost claim be won, or
that a buyer or an operator act. It is stated for processes that live.
`NoEarlyRetry` is checked without operators: a replay in between may bring a row
back to what a claim had read. Liveness of the rest depends on people: nothing
in the code retries a case, a review or an upload.

## 4. What the code does otherwise than it is said

Three runs refute a sentence of the documents:

- `MCTradeLateFailure`: a late FAILED does take a successful payment back. The
  webhook judges it by an intent read before the success committed and writes
  without looking again. The order stays PAID.
- `MCAfterSaleTwice`: a refund asked for again reaches the provider again, with
  a new idempotency key, when two requests overlap or a process died before the
  record. The records (`StatusTellsRefund`) still name one refund.
- `MCShopUnreviewed`: a save that was checked before the review began writes
  after the approval, and what is sold is not what was approved.

More are stated in the modules and can be seen in the same way: put the property
alone into a copy of the configuration named, without its `SYMMETRY`.

| configuration | property | what happens |
|---|---|---|
| `MCTrade` | `ClosedIsCancelled`, `SucceededIsFinal`, `NoEventWithoutOutcome`, `OrderedLeavesCart` | a `start` in flight sets the intent of a closed order to PROCESSING; cancelling a paid order writes CANCELLED over SUCCEEDED and refunds nothing; a success refused in its transaction leaves an archived event without outcome; lines leave the cart when paid for, not when ordered |
| `MCClients` | `SignedOutStaysOut`, `NoCycle`, `NothingLeftBehind` | the answer to a refresh signs a browser in again; two moves make a cycle of categories (`HARNESS.md:229`); an upload that fails in a closed drawer leaves an object URL |
| `MCJobs`, one job, worker and no operator, 3 attempts, `SPECIFICATION FairSpec` | `LeaseEnds` | a job whose process died stays RUNNING: the lock's time is written and never read |
| `MCJobs` | `OnlyDeadLettersReplay` | two overlapping replays reset a job that runs, or has completed |
| `MCAfterSale` with `Choices <- MCReturns` | `OfferedActionsAreAccepted` | the view of a case offers what its handler refuses (`docs/testing/G27-ACCEPTANCE.md:48`) |
| `MCCheckout` | `SameRequestSameOrder` | of two creates with one key at once, the second may meet the consumed quote before the unique key, and is answered a conflict |
| `MCShop` | `FoldedOnce` | two merges at once fold the guest cart into the buyer's twice |

Others are checked as facts, or noted at their definitions: a merchant's list of
reviews is filtered by the wrong id and always empty though he may reply
(`RepliesUnseen`); the menu shows platform roles three pages whose API refuses
them (`RefusedToPlatform`), and some grants leave staff with a menu and no page
to land on (`SomeStranded`); the after-sale board shows the buttons of a case to
staff whom the API refuses them (`SomeRefused`); the last of three lines may be discounted below
zero (`SplitGoesBelowZero`); `payments.close` cancels an intent that was
refunded. Of the boards: the dialog of a new staff account never closes, because
it asks to be closed while it is busy (`Team` in `Saved`); a note of the order
board that could not be saved is replaced by the old one; a late answer opens a
closed order drawer again. None of them breaks the stock, the decision of an order, or the
limits of a coupon: those hold in the same models, with all of this happening.

## 5. What is proved

`tlapm` checks the proof modules; nothing is assumed beyond the named `ASSUME`s
of the modules: that bounds and quantities are naturals, that an order has
items and takes at least one unit, that sets which are counted are finite, and
that null values are not members of the sets they are added to. Every invariant
that a run checks is the consequence of an inductive one that holds for every
value of the constants; so are the action properties and both refinements.

**`InventoryProofs`** (any requests, references, quantities). The invariant is
in two parts. What is *stored*: counters and reservations agree
(`ReservedIsHeld`), counters are in range. What is *in hand*
(`RequestsAreCurrent`): a row some request has read is the row in the table, or
its version is smaller. The second part is why the first is inductive: a write
happens only if the row still matches, so what was true of the row when it was
read is true when it is written, and since the row is unchanged so are its
reservations. From it: `ReservedCounter`, `NoOverselling`, `NoCollision`,
`TrueAnswers`, `FinishedOnce`, `LedgerReplay`. `LedgerStory` adds the ledger: a
reservation tells how many entries it has and which, because each entry of a
reference is appended by the one write that moves its status, and corrections
of the stock name no reference (`NamesNone`). `Implementation` shows that every
statement is a step of `StockLedger` or a stutter.

**`TradeProofs`** (any orders, SKUs, quantities, requests and events). `IInv`
adds to the properties of the runs that a webhook request owns the event it
archived (no two requests have one event, because `providerEventId` is unique),
that intents exist with their orders, and that exactly the orders that were
paid left the cart. From it: `WholeOrders`, `ChildrenAgree`, `OneCoupon`,
`PaidOnce`, `SuccessMeansPaid`, `ReservedCounter`, `NoOverselling`,
`DecidedForGood`. The counter argument is that of the inventory: reserved units
are counted as elements of a set, and `UnitCounting` has the lemmas for taking
and giving back one order's units. `Implementation`: for each SKU the whole of
`Trade` is a `StockLedger`. Placing an order takes a hold of each item, paying
it sells them, cancelling or closing it returns them, a merchant's correction
recounts; everything else, late webhooks included, is a stutter. So two
different protocols over the same rows, the optimistic one of `Inventory` and
the serializable one of `Trade`, implement one promise.

**`JobsProofs`** (any jobs, processes, attempts; processes may die). `IInv` says
what a worker knows of the job it holds. Replays may overlap: `replay` writes
without a condition, and of a job that one of them `reset` while it ran the
theorems say no more than that its order is settled when it completes
(`CompletedSettled`, for every job). `ReplaysApart` says when there is no such
job: as long as no two replays of a job overlap (`NoOverlap`), each finds the
dead letter that it has read. `RetriesWait` (`NoEarlyRetry`) holds as long as
nobody replays, and needs `FoundIsDue`: the row a process has found is due and
unchanged, or its job has more attempts by now, for only a replay takes attempts
back.

**`AfterSaleProofs`** (any merchants, items, parcels, requests at once). `IInv`
says of parcels that merchant orders tell who has sent everything as long as
something may be sent, and that a device that passed the check of
`confirmReceipt` found everything sent or a refund; of refunds, that a request
between the provider's refund and the end of its case works on the case on
record. The second is what keeps two overlapping reviews from completing two
cases. From it: `NothingOversent`, `OrderIsTold`, `RefundIsTold`.

**`CheckoutProofs`** (any SKUs, carts, offers, buyers, claims, requests). `IInv`
is `CouponKept` and `OrdersAddUp` with what a draft and a request have in hand:
a quote they name exists, and without a coupon nothing is taken off. Both
properties count the orders that are *kept*, those that wait for their payment or
were ever paid; whether a cancellation gives units and claim back is decided by
the status it ends, and the invariant ties that to `paid`. From it:
`CouponIsKept`, `OrdersDoAddUp`, `OrdersArePlacedRightly`.
`PartsMakeUpTheWhole` is about the pure code: for any bill and any coupon the
shares of `Allocation` add up to `Discount`. `Total` is a fold over a finite
set, so what it computes is an induction over data; it is done without an
induction theorem, by a smallest set on which the fold and the number of
elements of a disjoint union of units differ (`Least`, from the well-founded
order of the naturals).

**`ShopProofs`** (any SKUs, products, applications, members, files, requests).
Each of the six parts has an invariant about what a request that has read and
not written may rely on: that the lines it will write fit the limits and that
rows it found are there, or it knows that one is lost (`CartInv`); that the
product or application it works on exists (`ProductsInv`, `OnboardingInv`); that
an account is still as it was read, unless a request was `late` (`TeamInv`);
what each statement of an upload has left on disk and in the table
(`FilesInv`). One theorem for each property of `MCShop`.

**`ClientsProofs`** (any calls, addresses, categories, rows, texts, bounds).
Nine parts. Those that needed most: at most one refresh flies, and the secret
it carries is the stored one until it lands (`SessionInv`); while moves are made
one at a time, the walk that looks for a cycle has followed only links that
still are (`CatalogInv`); every URL made
is shown or revoked whatever the uploads do (`DraftEditorInv`); the text in a
drawer belongs to the row shown, or the answer that will bring its row is under
way, and the form that an address is sent again from is that of the address, or
empty, which the API refuses (`BoardsInv`). One theorem for each property of `MCClients`.

Several theorems are about facts no run names, because the runs check their
consequences. The invariants `IInv` of `Inventory`, `Trade` and `Jobs` can be
given to TLC in `MCInventory`, `MCTrade` and `MCJobs` as they are; those of
`AfterSale` (1 523 872 states) and `Checkout` (1 279 932) were checked by TLC in
the instances of their runs before they were proved.

**Only model-checked.** `SettledOrDead`: liveness under fairness rests on
ENABLED, which is out of the prover's reach. The pure operators of the MC
modules' `ASSUME`s but for `SplitIsFair`, whose first half is
`PartsMakeUpTheWhole`: they are checked over bounded inputs. The three refuted
sentences of section 4, of course.

## 6. Next

- The pure operators: that the menu opens what it shows, that who decides a case
  sees it (`Access`), that a merged cart keeps what fits (`CartDomain`), for any
  input.
- `ItemsFollowOrder` from `Fulfilment`'s side: that its states from PAID on are
  those where `Trade` ends, as a refinement of one abstract order.
- The exact counts of `Cart` as an action property of the shop.

## 7. Not modelled

- Notifications, audit, risk, HTTP, configuration, metrics, OpenAPI: rows
  appended or counted that nothing decides by, and wiring.
- Queries of catalog, search and reports: read only. `withTracking` writes
  DELIVERED on a parcel inside a read; only views read that mark.
- Tags: what joins them to products cascades (`schema.prisma`, an implicit
  many-to-many), so their removal leaves no reference, whatever was counted.
- Whether a taxonomy entry is active, deactivation of coupons, rich text of
  products, profiles of stores and buyers: one column, last writer wins.
- The order export: one status, PROCESSING, then done or failed, not awaited
  and never resumed; `Desk` has its steps, no property beyond that is worth a
  run.
- Pages of the admin console and the storefront that only show: lists, detail
  pages, dashboards; and the forms that keep one text for whatever they show
  (the comment of a merchant application stays when another one is selected,
  the answers to reviews share one text): nothing there can race that `Boards`
  does not have.
- The UI kit, scripts and migrations.
- Discarded detail inside modelled parts: texts, addresses but for identity,
  signatures (a quote is its identity), ledger reasons, order events, limits of
  listings, metrics.

## 8. Running

    tlc -config MCTrade.cfg MCTrade
    tlapm TradeProofs.tla

`MCAfterSale`, `MCCheckout`, `MCShop` and `MCClients` take one to three minutes,
every other run less than one and a half; each proof module up to six minutes
from nothing.
