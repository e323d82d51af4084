# EdiMart API in TLA+

EdiMart API is the back end of a shop: a NestJS application over PostgreSQL
(Prisma) that keeps stock, reservations, sales, returns, cash drawers,
purchasing and customer accounts. Its hard part is that every HTTP request, the
cron jobs and every retry run concurrently, mostly at READ COMMITTED, so the
code's correctness rests on which rows it locks, what it reads before it locks,
what it writes as an absolute value, and which unique indexes stand behind it.
That is what this project models.

## 1. Inventory

| Component (src/src/...) | State | Operations | What is hard | What makes it correct | Module |
|---|---|---|---|---|---|
| Stock ledger (`common/stock.util.ts`, `inventory/inventory.service.ts`, `inventory/reconciliation.ts`) | `InventoryItem.quantityOnHand` per product and location, `StockMovement`, `StockBatch` | receive, adjust, write off, return, quarantine; the stock side of sales, transfers, counts, receipts | absolute writes, two lock orders, deadlocks, a row touched twice, batches under another row's lock | on-hand is the sum of movements; movements form a chain; nothing negative; every transaction ends; no batch unit given out twice | `StockLedger`, `Batches` |
| Reservations (`reservations/reservations.service.ts`) | `Reservation.status/quantity/expiresAt` | create, update, cancel, complete as a sale, sweep every 15 minutes | status read before the lock, time, a reservation sold while swept | holds are backed by stock; sold at most once; overdue ones are swept | `Reservations` |
| Checkout (`sales/sales.service.ts`) | `Sale`, `IdempotencyKey`, `DocumentCounter` | checkout with retries, offline sync | repeated and concurrent calls, unique index clashes, midnight | one request one sale, the answer is its own sale, gapless numbers, every call answered | `Checkout` |
| Returns and voids (`sales/sales.service.ts`) | `CreditNote`, `Sale.status`, `Customer.storeCreditBalance` | void, return, store-credit refund and redemption | the sale is read before the transaction, three kinds of locks, midnight | credited at most once; the status agrees with the notes; store credit explained | `SaleReturns` |
| Approvals (`approvals/approvals.service.ts`) | `User.pinFailedAttempts/pinLockedUntil`, `Approval` | set PIN, approve, consume | parallel guesses, one token used twice, rolled back actions | bounded guesses; single use; a failed action returns the token | `Approvals` |
| Shifts (`shifts/shifts.service.ts`) | `Shift`, `CashMovement`, `ShiftCount` | open, close, cash in and out, no sale, X and Z report | open and close races, expected cash read in four queries before the close | one open shift; the recorded expectation matches the drawer | `Shifts` |
| Transfers, supplier returns, stock counts, sync conflicts (`inventory/transfers.service.ts`, `purchasing/supplier-returns.service.ts`, `inventory/stock-counts.service.ts`, `sync/sync.service.ts`) | a status, lines, the figures counted | create, start, record, send, receive, complete, post, cancel, resolve | the status is read before the transaction; stock moves while it is counted | units move once; a count brings the books in line with the shelf; a final status is final | `Documents` |
| Purchasing (`purchasing/*`) | `PurchaseOrder`, `quantityReceived`, `GoodsReceipt`, `SupplierBill`, `LandedCost` | reorder, draft, update, approve, send, receive, close, cancel, bill, pay, charge | absolute totals and statuses from older reads | received is what receipts delivered; large orders were approved; a bill adds up | `Purchasing` |
| Customers (`customers/customers.service.ts`) | balances, `CustomerLedgerEntry`, loyalty points | repay, adjust store credit, credit limit, and checkout | balances read and written back | balances equal their ledger; the limit holds | `Accounts` |
| Promotions (`promotions/promotions.service.ts`) | `Promotion.usageCount`, `PromotionUsage` | evaluate, update, count a use | selection rule of four keys; limits read without a lock | the rule of the comment; limits hold up to counted races | `Promotions`, `Accounts` |
| Reporting (`reporting/*.service.ts`, `common/business-time.ts`) | `DailySalesSummary`, `DailyProductSales` | rebuild nightly and by hand; some forty reports | rebuild while sales go on; two sources for the same figure | reports agree once the tables are settled; a day that ended is rebuilt | `Reports` |
| Catalogue (`catalog/*`, `inventory/prices.service.ts`, `inventory/labels.service.ts`) | `Product`, `ProductBarcode`, `PriceChange`, `LabelReprintQueue` | create, edit, change price, print labels, import a CSV | checks before writes, opening stock in a second transaction | opening stock received once; history and labels follow the price | `Catalogue` |
| The rest: accounts and sessions, permissions, fiscal documents, notifications and messaging, expenses, settings, locations, storage, setup, audit | records | create, read, update | little shared state | | section 7 |

Interactions: checkout locks inventory rows (stock ledger), completes
reservations, draws a number, locks the customer, may consume an approval
token and is booked to a shift. Voids and returns lock inventory rows, draw a
credit-note number, may lock the customer and consume a token. The sweep and
every other stock operation lock the same inventory rows. All of them meet in
PostgreSQL's row locks, which is therefore modelled as part of each module.

`PROJECT.json` lists, under `hazards`, the places where this can go wrong, each
with the properties that would catch it.

## 2. Modules

| Module | Models | State and actions |
|---|---|---|
| `AtomicStock` | the promise: a document posts to its rows at once and stock equals the ledger | `onHand`, `ledger`; `Post` |
| `StockLedger` | `lockInventoryRows` and the twelve operations that change stock | one action per operation starts a transaction with its document lines; `LockRow` takes row locks one by one in the code's order, `ApplyLine` reads and drafts one line, then `Commit`, `Refuse`, `Rollback` or `DeadlockVictim`. `Atomic` instantiates `AtomicStock` |
| `Batches` | `allocateFromBatches` and everything else that writes `StockBatch`, for one product | `Sell`, `TakeOut`, `ReturnNamed`, `MoveToQuarantine`, `Receive`, `PutBack`, `PostCount`, `Restock` lock the row and plan; `Commit...` writes the planned absolute values. `Allocation` is the first-expired first-out allocation |
| `Reservations` | one product's reservations | `AskCreate`/`AskCheckout`/`AskShelf` lock and read, `ReadForCancel`/`ReadForUpdate` read without a lock as the code does, then `Create`, `Sell`, `Cancel`, `Update`; `SweepPick`, `SweepLock`, `SweepWrite`; `FallDue` is time |
| `Checkout` | `checkout`'s retry loop and the order of its transaction | `Send`, `EnsureSaleCounter`, `LockRows`, `CheckKey`, `CheckClientSaleId`, `Number`, `CommitSale`; `Clash`, `KeyClash`, `DatabaseConflict`, `Refuse`, `Midnight` |
| `SaleReturns` | one sale and its customer: `voidSale`, `returnSale` and a store-credit checkout | the first read (`VoidSale`, `ReturnSale`, `RedeemAtPOS`), `LockRows`, `DrawNumber`, `LockCustomer`, `Recompute`, `Commit...`, `Refuse`, `Rollback`, `Midnight` |
| `Approvals` | `approve`, `setOwnPin`, `consume`, `noSale` | `ReadManager`, `Claim`, `RefuseLocked`, `Wrong`/`Right`, `Reset`, `Grant`; `Act`, `Consume`, `RefuseToken`, `Commit`, `Rollback`, `OpenDrawer`; `LockExpires`, `TokenExpires` |
| `Shifts` | `openShift`, `resolveShiftForCheckout`, `cashIn`/`cashOut`, `closeShift`, the reports, and the cash side of sales, voids and returns | `ReadForOpen`, `CreateShift`; `Resolve`, `CheckShift`, `CommitSale`; `ReadForMove`, `Move`; `ReadForVoid`/`ReadForReturn`, `Refund`; `ReadForClose`, one `Add` per aggregate of `computeExpectedCash`, `CheckStillOpen`, `CommitClose`; the history variable `drawer` is the physical cash |
| `Documents` | transfers, supplier returns, stock counts and sync conflicts: read the status, refuse on it, act in a transaction that does not look again | `ReadDocument`, `Refuse`, then `Send`, `Receive`, `CancelTransfer`, `Complete`, `CancelReturn`, `Start`, `Record`, `Post`, `CloseConflict` or `Fail`; `Sell` is the shop going on. `shelf` is what is really there |
| `Purchasing` | orders from suggestion to last delivery, landed cost, the bill | `ReadOrder`/`ReadBill`/`ReadReceipt`/`ReadSuggestions`, `Refuse`, then `UpdateDraft`, `Approve`, `Send`, `Cancel`, `Close`, `Receive`, `Pay`, `Charge`, `CreateDraftPos` or `Fail`; `AgedPayables`, `OpenOrders` are reports |
| `Promotions` | which promotions apply and which are taken | pure operators: `Discount`, `InWindow`, `Applicable`, `Precedes`, `Chosen` |
| `Accounts` | a checkout's promotions, pay-later balance, store credit and points, against the back office | `Begin`, `Price` (calls `Promotions`), `TakeNumber`, `CountUp`, `Commit`, `Deadlock`, `Fail`; `Repay`, `AdjustStoreCredit`, `SetCreditLimit`, `UpdatePromotion`, `VoidSale` |
| `Reports` | the summary tables, their rebuild, and the reports | `Ring`, `VoidSale`, `ReturnSale`, `NextDay`; `Nightly`, `RebuildRange`, `ReadSales`, `ReadNotes`, `UpsertRow`, `CommitDay`, `FailJob`; the reports are operators over sales or tables |
| `Catalogue` | products, barcodes, prices, labels, CSV import | `BeginCreate`, `CreateRow`, `ReceiveOpening`; `BeginUpdate`, `UpdateRow`, `FindPrimary`, `CommitUpdate`; `BeginPrice`, `CommitPrice`; `ListPending`, `MarkPrinted`; `StartImport`, `CheckRow`, `ImportRow`, `ImportOpening` |
| `SumTheorems` | nothing of the code: what sums over finite sets do, and induction over finite sets and numbers | lemmas |
| `...Proofs` | theorems about two modules each, both extended: `Checkout` and `Accounts` with `Promotions`, `Approvals` and `Purchasing`, `Reservations` and `Reports`, `SaleReturns` and `Batches`, `Shifts` and `Catalogue`; and `StockLedger` and `Documents` alone | section 5 |
| `MC...` | instances for TLC | constants and symmetry only |

Conventions. One step is one statement on the database (or a group that the
locks already held make atomic). A request is identified by a model value and
runs once. `Batches`, `Purchasing`, `Catalogue`, `Accounts` and `Reports` name their
initial predicate, next-state relation, specification and tuple of variables after
themselves (`BatchesSpec`, `batchesVars`, ...), so that a proof module can extend one
of them beside another module and a theorem is about the very definitions TLC ran.
An extended pair shares no variable; each theorem is about one of the two. Row locks
are functions from rows to their holder. What a request computed but has not
committed lives in its own record. An action of a mutant (marked `mutant:`) is never
part of `Next`: it is a plausible bug, kept beside the definition it would replace,
that the named property must catch.

How they compose: a module takes from another what that one has shown.
`StockLedger` has the row by row acquisition, so `Checkout`, `Reservations` and
`Batches` lock a cart's rows in one step and `Documents` runs a transaction in
one step. `Accounts` extends `Promotions` and runs it inside a checkout;
`Reports` takes sales, voids and notes as `SaleReturns` and `Checkout` leave
them: a sale is a basket of lines with their discounts, a discount on the cart and
the payments that add up to what is left (`IsBasket`, `PaidAssumption`), and its
amounts are the sums of its lines (`SubtotalOf`, `DiscountOf`, `GrandOf`, ...).

Some properties hold only as long as no known race has happened. They are
stated with history variables that record the cause (`cause` in `Reservations`
and `Shifts`, `changes`/`stale` in `SaleReturns`, `overlap` in `Documents`,
`raced` in `Purchasing`, `Accounts` and `Catalogue`, `reached`/`strained` in
`Batches`, `dirty`/`late`/`skipped` in `Reports`): the property says that nothing
*else* breaks the rule. A cause is recorded at the step that acts on a stale
read, never by looking at the rule it breaks.

## 3. Runs

| Run | Question | Bounds |
|---|---|---|
| `stock` | Are on-hand, ledger, chain and quarantine right in every interleaving of two operations, do carts never deadlock, does locking implement `AtomicStock`, does every transaction end? | 2 requests of any of 12 kinds, 2 products, 2 locations, documents of up to 2 lines (a product can repeat), opening stock 1, quantity 1: refusals, both lock orders and every pair of row conflicts occur |
| `reservations` | Holds backed, sold once, swept | 2 reservations, 2 requests of any kind and the sweep; opening stock 2, so two holds of 1 or one of 2 exhaust it |
| `checkout` | own answer, one sale, gapless numbers, every call answered | 2 calls (a call and its repeat, or a competitor), 2 keys, 3 payloads (a cart, an offline sale of a register, another cart under that sale's id), all 3 attempts, a midnight, one number issued before counters existed |
| `returns` | crediting, status, store credit, lock order | 2 requests of any kind, 2 lines of 1 and 2 units, a line named up to twice, a midnight, opening store credit 1 |
| `approvals` | bounded guesses, single use | 3 tries against a limit of 2 (5 in the code), 2 actions, 2 purposes |
| `shifts` | one open shift, figures that stand, expected cash | 4 requests of any kind, one shift already open and room for a second, 1 register, 2 cashiers, amounts 1 and 2 (4 requests are a sale, its void or return, a close and one competitor) |
| `documents` | units move once, counts are right, final is final | one document of each of the 4 kinds, 5 calls (a count takes start, two recordings and two posts), 2 products, lines of 0 or 1 unit, one unit sold per product, a unit missing on the shelf or not |
| `batches` | no unit twice, batches within stock | 4 requests of any kind, 2 locations, 3 opening batches (good, expired, without a location) and one to come, quantities 1 and 3 so that an allocation spans batches |
| `purchasing` | delivered, approved, adding up | 4 calls, 1 order of 2 products with up to 2 units each against a threshold of 2, a bill of 2, payments and charges of 1 and 2 |
| `accounts` | balances, limits, selection | 3 checkouts of 4 kinds of cart, 3 promotions in 3 sets (stacking, with a coupon, limited per customer, exclusive, limited overall), 3 changes by the office, 2 attempts (3 in the code) |
| `reports` | agreement, one rebuild, every day settles | 2 sales of 3 lines of 2 products with each kind of VAT, discounts on a line and on a cart and two payments, 2 days in weeks of 2, one rebuild by hand of one day beside the nightly job |
| `catalogue` | opened once, price history and labels | 2 requests, a file of two rows (one name in two spellings) committed twice, 2 price changes |

Deadlock checking is off where each request runs once, so that a finished
instance stops. That requests do not get stuck is checked by `EveryRequestEnds`,
`EveryCallAnswered`, `CartsNeverDeadlock`, `NoWaitCycle`, `OverdueIsSwept` and
`EveryDaySettles`. `catalogue` checks for deadlock.

Why the bounds are enough: the races in this code are between two writers of
the same row, or a writer and a reader of what it writes; every operation takes
locks on at most a handful of rows in a fixed pattern, so two rows give every
lock order, and two units of stock give "enough for one of them". Where a third
party is needed to see the damage (a shift's close, a count's post, a promotion
counted by two sales) the run has it. What the proofs cover holds without bounds.

Symmetry is used in runs without liveness only.

Fairness. `FairSpec` of `StockLedger`, `Reservations` and `Checkout` assumes a
request that holds or awaits nothing goes on (weak fairness: the server runs its
promises), that PostgreSQL grants a lock that is free again and again to its
waiter (strong fairness: its lock queues are first come first served), that the
deadlock detector fires, and that the cron job runs again and does not fail for
ever. `Reports` assumes that the cron job after midnight starts and that a
rebuild that has started goes on. Nothing is assumed of clients, crashes,
failures, time or midnight.

## 4. What the properties say

* `NoDrift`, `ChainIntact`: the two invariants `npm run reconcile` looks for
  after the fact. Absolute writes (`quantityOnHand: nextQty`) make them depend on
  the row lock taken first. `ImplementsAtomicStock` says the same as a refinement.
* `CartsNeverDeadlock`: the promise of the comment at `stock.util.ts:66`, for the
  operations that lock through one sorted call. `EveryRequestEnds`: also for
  operations that lock in document order.
* `QuarantineConserves`: a committed quarantine move changes no product's total.
* `BatchesAddUp`: no unit of a batch is given out twice, though every taker
  stores an absolute value; `BatchesWithinStock`: the batches of a location never
  claim more than its on-hand. Both name the batches written under another row's
  lock, which the code does for legacy and named batches.
* `HoldsBackedUnlessCaused`, `FulfilledOnce`, `OverdueIsSwept`: reservations.
* `AnswersOwnCart`, `SameRequestSameSale`: idempotency across concurrent calls,
  retries and a key reused for another cart; an identical resend never gets the
  unique-index error that `isRetryable` does not retry, because the row locks
  serialise it. `EveryCallAnswered`: bounded retries end in an answer.
* `NumbersGapless`: numbers 1..n per scope and day, through rollbacks.
* `CreditedOnceUnlessStale`, `StatusTellsReturns`, `StoreCreditExplained`,
  `NoWaitCycle`: returns. Status and notes agree because the day's credit-number
  counter row, not any lock on the sale, orders two returns; across midnight
  they use different rows, and the property says exactly that.
* `NoExtraGuesses`, `TokenUsedOnce`, `FailedActionKeepsToken`: approvals.
* `OneOpenUnlessOverlap`, `ClosedFiguresStand`, `ExpectedIsDrawerUnlessCaused`:
  shifts. Nothing locks a shift, so each names the overlap that breaks it; the
  last compares the four aggregates, read one after the other while bookings go
  on, with the cash that moved.
* `StockFollowsStatus`, `FinalStays`: a document moves its units once and ends
  once, unless a call acted on a status that had changed since it read it.
  `CountSetsTheShelf`: what a posted count leaves on hand, whether the books match
  the shelf, and when its variance is what was missing.
* `ReceivedAsDelivered`, `LargeOrdersApproved`, `TotalsAddUp`: purchasing.
* `BalancesExplained`, `CreditWithinLimit`, `PromotionLimits`: a customer's
  balances equal their ledger whatever overlaps; a sale on account leaves the
  customer within the limit of that moment; `usageCount` exceeds `maxUses` by no
  more than the sales that took the promotion on a count others were changing.
* `SelectionSound`: the selection against the comment at
  `promotions.service.ts:438`.
* `ReportsAgree`: reports from the tables and from the sales agree on every range
  that is settled; `TablesAgree`: both tables come from one rebuild, always;
  `EveryDaySettles`: the day that ended is rebuilt.
* `OpenedOnce`, `PricesExplained`: catalogue.

## 5. Proofs

Checked by TLAPS for every value of the constants that satisfies the named
assumptions of the module, which TLC evaluates in that module's run.

Every invariant and every action property of the runs is a theorem, and so is the
refinement; what is left to TLC is liveness. Where a property is not inductive the
strengthening is named below.

**Sums.** Many properties say that a stored figure is a sum. The library's
induction theorems take an operator as a parameter, which the provers cannot
instantiate, so `SumTheorems` states induction with a set in its place: a set of
subsets of `S` that has `{}` and is closed under adding one element has `S`
(`FiniteInduction`), and likewise for numbers (`NumberInduction`). From there it
proves that the function `SumFunctionOnSet` chooses exists (`SumsExist`), and what
follows: taking one summand out, changing one, adding two sums, a part, a
multiple, renaming, adding up group by group (`SumByGroup`, `CountByGroup`) and by
rows or by columns (`SumSwap`).

**Stock ledger** (`StockLedgerProofs`). `TypeCorrect` (no negative stock),
`LedgerExplainsStock` (`NoDrift`), `MovementsFormAChain` (`ChainIntact`),
`NoStaleDraft` (what a transaction is about to write was computed from the value
the row still has), `LockingImplementsAtomicStock` (`StockLedger` refines
`AtomicStock`, step by step). `IInv` adds: a transaction has drafted only
rows it has locked (`WritesLocked`), an operation that locks its rows first holds
them until its lines are worked off (`LinesLocked`), and each draft starts from
the committed value of its row and moves it by the drafted amount
(`DraftsFresh`). A lock is exclusive, so a commit of another transaction leaves a
locked row and its draft alone; that is the one step where the lock matters, and
where the mutant `LockRowUnguarded` fails. `CartsCannotDeadlock`
(`CartsNeverDeadlock`) adds `CartOrder`: a cart holds only products smaller than
those it still wants. In a circle of waiting carts each would want a greater
product than the one before, which the cart that wants the greatest cannot; it
uses that the catalogue is finite (`ProductsAssumption`). It says
nothing of the operations that lock in another order, which do deadlock with
carts and are rolled back. `QuarantineKeepsTotals` (`QuarantineConserves`) adds
`MoveInv`: a move has drafted nothing, the units it takes off, or both halves, so
what it commits takes from one location what it adds to quarantine.

**Batches** (`SaleReturnsProofs`). `EachUnitOnce` (`BatchesAddUp`) and
`BatchesAreBacked` (`BatchesWithinStock`) from `BatchInv`. The values a request
is going to write are those it planned from what it read, so the proof has to show
that they still fit when they are written: every batch in a plan is under a lock
its request holds or is on record in `reached` (`WritesUnder`, `OthersFit`). That
an allocation covers the quantity, or takes all the location's good batches have,
is `GreedyTakes`, by induction over the batches in the order of expiry. The proof
met an error of the model: the arms of `Allocation` overlapped for a batch that is
not eligible, which left its value open; it is written out now.

**Checkout** (`CheckoutProofs`). `NumbersAreGapless` (`NumbersGapless`) from
`NumberInv`: whoever has drawn a number holds its counter's row and the number is
the next one, and a counter that a first sale creates has no older numbers behind
it. `AnswersAreOwn` (`AnswersOwnCart`) and `OneSalePerRequest`
(`SameRequestSameSale`) from `AnswerInv`: a key is bound to one sale, a
`clientSaleId` to one sale, and a call inside its transaction holds the rows of
its cart, so two calls with the same cart are never both past the check of the
`clientSaleId`. The last part needs a cart with at least one item, which the code
demands (sales.service.ts:441) and `CartsAssumption` states; without rows to lock
nothing would order the two calls. `TypeCorrect` (`TypeOK`) goes with them.

**Customers and promotions** (`CheckoutProofs`). `AccountsInv` says what a checkout
under way may rely on: it holds its customer's row and the row is still as it read
it; once priced, the credit it takes, the points and the debt fit that row, and
each promotion taken was below `maxUses` on the count it saw and is still below
this customer's limit. `BalancesAreExplained` (`BalancesExplained`),
`CreditStaysWithinLimit` (`CreditWithinLimit`) and `PromotionsWithinLimits`
(`PromotionLimits`) follow; the row lock is what keeps the reads true while
repayments, adjustments and new limits wait. `SelectionIsSound`
(`SelectionSound`) is about the algorithm: `Precedes` is a strict order that
compares any two promotions (`PrecedesOrders`), so a finite set has a sequence in
that order (`CanBeOrdered`); the fold over it is the last of a list of steps
(`ChosenInSteps`); and after each step the promotions taken combine, cost what
has gone from the cart, and each one left out has its reason (`Selected`). The
order is the operator `Ordered` here: the sequence is chosen by what the code's
sort guarantees, because a definition by TLC's sorting operator has nothing a proof
could use; the order is strict, so it is the same sequence.

**Approvals** (`ApprovalsProofs`). `LockAdmitsNoExtraGuess` (`NoExtraGuesses`) from
`PinInv`, which counts the tries that were claimed but not yet compared together
with the wrong ones: a claim is counted in the row before the comparison, so their
sum cannot pass the limit. `OneActionPerToken` (`TokenUsedOnce`) and
`RollbackReturnsToken` (`FailedActionKeepsToken`) from `TokenInv`: a token an
action holds locked is still unused, and a used one names the action that
committed it.

**Catalogue** (`ShiftsProofs`). `OpeningStockOnce` (`OpenedOnce`) and
`RecordedPrices` (`PricesExplained`) from `CatInv`: what is left to receive was
not received before (`StockFits`); a code and a primary barcode belong to one
product (`CodesFit`); the history ends in the price unless an edit set it, leads to
it step by step unless two changes overlapped, and a product whose label is out of
date is queued or on the list being printed (`PricesFit`); and what each request has
read still allows its write (`CatReqsFit`).

**Documents** (`DocumentsProofs`). `UnitsMoveOnce` (`StockFollowsStatus`) and
`EndedDocumentsStay` (`FinalStays`) from `DocInv`: what a call may still do follows
from the status it read, and unless two calls have overlapped that is the
document's status, from which on-hand at both ends is determined.
`CountsSetTheShelf` (`CountSetsTheShelf`) from `CountInv`: what was recorded, sold
and posted so far determines on-hand and variance of a count.

**Purchasing** (`ApprovalsProofs`). `OrdersTellDeliveries` (`ReceivedAsDelivered`),
`LargeOrdersAreApproved` (`LargeOrdersApproved`) and `BillsAndChargesAddUp`
(`TotalsAddUp`) from `PurInv`: what a call acts on was allowed by what it read
(`CallsFit`); an order no two calls overlapped on says of each product what was
delivered, as its status does, and went out approved if it is large (`OrdersFit`);
a bill and a landed cost no two calls overlapped on are the sums of payments and
charges (`BillFits`).

**Reservations** (`ReservationsProofs`). `SoldOnce` (`FulfilledOnce`) from
`SaleInv`: whoever decides under the row lock still has it when it writes, and what
a checkout has loaded stays unsold as long as that checkout has the lock.
`HoldsAreBacked` (`HoldsBackedUnlessCaused`) from `ResInv`: the sum of the active
holds is within on-hand unless a cause is on record, and the same sum without a
cart's own reservations plus what the cart takes is, as long as it has the lock.

**Returns and voids** (`SaleReturnsProofs`). `LocksAreOrdered` (`LockOrder`) and
from it `NoCircularWait` (`NoWaitCycle`): voids, returns and redemptions lock stock
rows first, then the counter of the credit notes, then the customer, so the waiting
request that is furthest on in that order waits for nobody in the circle.
`CoursesHold` is what each request has read and holds at its step; on it rest
`StoreCreditIsExplained` (the balance a request read under the customer's lock is
still the balance, `KnowsCredit`), `StatusIsTold` (the notes a return counted under
its day's counter are still all of that day's, `KnowsStatus`) and
`NothingCreditedTwice` (a return that has seen every change has read the credited
quantities as they are, `KnowsLines`), for the properties
`StoreCreditExplained`, `StatusTellsReturns` and `CreditedOnceUnlessStale`.

**Shifts** (`ShiftsProofs`). `OneOpenShift` (`OneOpenUnlessOverlap`) and
`ClosedStaysClosed` (`ClosedFiguresStand`) from `ShiftInv`: the shifts an opening
saw when it found none open stay closed, so an open one it did not see was inserted
since; and a close writes either on the shift it checked, still open, or on one that
was closed more often than it saw. `ExpectedCashIsDrawer`
(`ExpectedIsDrawerUnlessCaused`) from `BooksInv` and `CashInv`: the drawer is the
opening float plus four sums over bookings, and each sum a close has read so far is
that sum still, or a booking since is on record as a cause.

**Reports** (`ReservationsProofs`). `TablesComeFromOneRebuild` (`TablesAgree`) from
`RebuildInv`: the row and the product rows a rebuild carries were computed from one
read, and totals by sale and by product are both the total of the lines
(`TotalBySale`, `TotalByProduct`). `SettledTablesAreCurrent` says that the rows of a
day that is settled are what a rebuild would compute now (`CurrentInv`: a job that
has not missed a change carries the day's current figures). `ReportsSayTheSame`
(`ReportsAgree`) adds `ShopInv` (no sale is of a day to come, and the notes are
finitely many): `AgreeInv` is both. The rest is about
one state. A settled range's totals are sums over its days of sums over the day's
sales, so sums over its sales; these are regrouped by hour, cashier, customer and
method (`TablesFollow`), where methods need that payments add up to the sale.
Product rows regroup the lines by category and product; the subtotal splits into the
kinds of VAT because only standard lines have tax. The dashboard's two halves read
the same days (`DashboardHalves`). Dead stock, overstock, days of inventory, the
classes and the heatmap follow the product rows (`StockReports`); for the classes a
ranking in falling order has running sums that grow, so those within the share of
class A are a beginning of it (`ClassAFirst`), and the factor 8001 is the rounding
of a share to hundredths of a per cent.

Model-checked only: the liveness properties `EveryRequestEnds`, `OverdueIsSwept`,
`EveryCallAnswered` and `EveryDaySettles`. The prover has neither fairness nor
`ENABLED`.

The assumptions the proofs added to the modules are what the code or its schema
guarantees: finite sets of rows and requests, quantities and amounts that are
positive where a DTO demands it (`@Min(1)` on the limits of a promotion), a cart's
discount within its subtotal, lines of products the shop has, payments that sum to
the grand total (sales.service.ts:1042 refuses others), no tax on a line that is not
of the standard rate (`taxPortion`, sales.service.ts:408).

## 6. Where code and documentation part

Met while modelling; the properties above name them as causes or leave them out
of their premises. Paths are under `src/src` unless given in full.

* An overdue reservation that the sweep has not reached still sells, so the sale
  can take stock held by a newer reservation (`sales/sales.service.ts:749`), while
  `test/reservations.e2e-spec.ts:103` says it can no longer be completed. `cause`
  in `HoldsBackedUnlessCaused`.
* A return takes the remaining quantity of a line from a read before its
  transaction and does not add up the lines of its own request
  (`sales/sales.service.ts:1776`): a line can be returned for more than was sold.
  `stale` and `Repeated` in `CreditedOnceUnlessStale`.
* `computeExpectedCash` leaves a voided cash sale out of the sales and subtracts
  its credit note as well (`shifts/shifts.service.ts:643`, `:659`): the
  expectation is too low by the sale. A cause in `ExpectedIsDrawerUnlessCaused`.
* `noSale` uses up its approval before the drawer movement is written
  (`shifts/shifts.service.ts:323`).
* Batches can exceed on-hand after a count or over expired stock
  (`strained`), which `inventory/reconciliation.ts:31` reports as drift.
* A call that overlaps another on the same order, bill, document or
  shift acts on the older status or total: `overlap`, `raced`.
* Voiding a sale leaves the customer's balances and points as they were
  (`sales/sales.service.ts:1574`).
* The weekday heatmap takes the UTC weekday of local midnight and is one day off
  (`reporting/reporting.service.ts:703`); a rebuild that read earlier may overwrite
  a later one; a void or return of an older day reaches the tables only by a
  rebuild by hand; a missed night is not caught up; the return count of a day
  counts a return on the day of the note and of the sale; a dead-stock report
  without a number of days compares with `NaN` (`:1410`); a customer's profile
  counts returns but not exchanges.
* A promotion whose hours span midnight never applies (`InWindow`).

## 7. Not modelled, and why

* Average and landed cost per unit, VAT arithmetic, rounding, receipts and
  formatting: arithmetic within one request, without a state to race on.
* Line pricing, payments by several methods, parked carts, cart discounts beyond
  an amount: a refusal at any step of `Checkout`.
* Permissions: every route's check is a precondition; a caller in a model has it.
* Accounts and sessions, fiscal documents, expenses, settings, locations,
  uploads, setup and seed, audit log: independent records, or calls to an external
  provider, that no other part waits for.
* Notifications and messages are sent after the commit; their failure is logged.
* A product that changes its category or its kind of VAT: `Reports` reads both from
  a constant, so a report by today's category of older sales is not in it.
* Of the reports: valuation, shrinkage, profit and loss, stock snapshots and the
  exports.
* Average-cost writes and low-stock notices within stock operations.

Database statements are atomic and READ COMMITTED; timeouts are rollbacks at any
step.

## 8. Plan

1. Parked carts and payments as a part of `Checkout`; average cost as a part of
   `StockLedger`.
2. Sessions and two-factor login, as a component of its own.
