# TechBari in TLA+

TechBari is a Django shop: a storefront, a point of sale and a dashboard in
front of one MySQL database. What is hard in it is not the pages but the
services behind them, which keep several tables in agreement while other
requests run: stock balances against a movement ledger, orders against stock,
payments against orders, returns against payments, journals against documents.
This directory models those services in TLA+, checks the models with TLC and
proves the properties that matter most with TLAPS.

All paths below are relative to `src/`.

## 1. What is in the code

| Component | State it keeps | Operations | Talks to |
|---|---|---|---|
| **Inventory** `inventory/services.py`, `compat.py`, `signals.py` | `InventoryBalance` (on_hand, reserved_quantity per warehouse and variant), the append-only `StockMovement`, the cached `ProductVariant.stock_quantity` | reserve, release, issue, receive, remove, adjust, transfer, reconcile after a catalog save | called by sales, purchasing, returns, serial tracking and the catalog |
| **Sales orders** `sales/services.py`, `pos_services.py` | `SalesOrder` (status, warehouse, amounts), `SalesOrderItem` (quantity, reserved, issued) | save, transition, cancel, delete a draft, POS sale | inventory, payments (through a receiver), shipping, checkout |
| **Point of sale** `static/admin/js/pos-v170.js`, `backoffice/pos_views.py` | the page's cart and the id of the held order it resumed | hold, resume, complete, discard | sales orders; an answer may be lost |
| **Catalog pages** `backoffice/variant_*_views.py`, `catalog/variant_services.py`, `backoffice/inventory_views.py` | variants of a product, attribute values, warehouses | generate, edit, delete, list variants; delete a warehouse | inventory, as a side effect of `save()` |
| **Payments** `payments/services.py`, `signals.py` | `PaymentTransaction` (status, direction, amount), the order's `amount_paid` and `payment_status` as a mirror of it | capture, pending, fail, complete, refund, reverse, reconcile | the order; a `post_save` receiver turns a written `amount_paid` into payments and refunds |
| **Returns** `returns/services.py` | `SalesReturn`, `ReturnItem`, the credit on the order | open, approve, receive, inspect, reject, cancel, complete (restock, credit, refund) | orders, inventory, payments |
| **Shipping, COD** `shipping/services.py` | `Shipment` with its events, COD collected and settled | create, change status, collect, settle COD | orders (the hand-over completes them), payments (a settlement captures) |
| **Courier webhooks** `integrations/views.py` | webhook receipts | apply a message once | shipping |
| **Outbox** `integrations/*.py` | `OutboundMessage` | enqueue on commit, deliver with retries, retry by hand | every service that notifies |
| **Serial numbers, warranty** `serial_tracking/services.py` | `SerializedUnit` with its status, `WarrantyClaim` | register, change status or warehouse, claim, replace, close | inventory (units are also counted in the balance) |
| **Purchasing** `purchasing/services.py` | purchase orders, receipts, returns, supplier payments | save, order, receive, return, pay, cancel, delete | inventory, units, accounts payable |
| **Accounting** `accounting/services.py`, `signals.py` | journals with a source key, periods | post, reverse, close and reopen a period, weighted cost | every business event, through receivers |
| **Expenses, cashbook** `expenses/services.py`, `accounting/expense_posting.py` | expenses with approval, cashbook entries and settlements | submit, approve, pay, void, register, settle | accounting |
| **Checkout, promotions** `storefront/checkout_services.py`, `promotions/services.py` | checkout token, coupons and redemptions | place an order, redeem | sales orders, customers |
| **Customers and accounts** `customers/`, `customer_accounts/` | CRM customer, login, saved addresses | register, claim, edit, CRM form, delete; guest and signed-in checkout | checkout |
| **Staff access** `staff_access/` | groups as roles, authenticator devices, sessions | make, edit, assign roles; sign in, enrol, recover, reset | every page |
| **Reports, dashboard** `reports/*.py`, `backoffice/payment_views.py` | none | read | reads all of the above |
| catalog content, CMS, settings, templates, commands | single rows, files | forms, queries, pure I/O | - |

### What makes it hard

* **Transactions interleave.** The database is MySQL/InnoDB at READ COMMITTED
  (`techbari/settings.py:79-95`) without `ATOMIC_REQUESTS`: a service decorated
  with `transaction.atomic` is one transaction, a view is not. A service locks
  the rows it writes with `select_for_update`, so its read-test-write is one
  step; what a view reads before it calls a service, and an instance that lives
  across statements, may be stale.
* **Receivers write behind the caller's back.** Saving a variant posts stock
  movements; saving an order captures or refunds payments and posts journals;
  completing a return runs the order's receiver in the middle of its own loop.
* **Several rows, one promise.** An order of several items reserves and issues
  row by row; a transfer writes two rows per variant; a refund is allocated over
  several payments; a void reverses several journals.
* **The same fact is stored twice**: the balance and the ledger, the available
  stock and `stock_quantity`, units and balances, payments and `amount_paid`, the
  status and what the items hold, documents and journals, the usage count of a
  coupon and its redemptions.
* **Long protocols**: draft, pending, confirmed, processing, completed,
  cancelled; with edits that change items and warehouse in between; approvals;
  claims; enrolments.
* **Outside partners** (couriers, message providers, the browser at the till)
  answer late, twice or never.

`PROJECT.json` lists each hazard at its line with the properties that would
notice it going wrong.

### What makes each component correct

| Component | Promise |
|---|---|
| Inventory | never more reserved than on hand; the movements add up to the rows; the published figure and the reports are what is available |
| Sales orders | the status says what the items hold; every reserved unit belongs to one order; a confirmed order can be completed; stock leaves by completion only |
| Point of sale | a held cart is sold once, however often it is posted |
| Catalog pages | one active default variant, distinct combinations, none recombined once it has history; a stale page takes no promise |
| Payments | no payment goes back more than once over; `amount_paid` and `payment_status` say what the ledger says |
| Returns | no unit and no credit claimed twice; order, shelf and reports agree on what came back |
| Shipping, COD | no parcel of an unsold order leaves; settled <= collected <= expected, and settled is backed by payments; a dispute stays visible |
| Webhooks | a message takes effect once, however often it comes |
| Outbox | a message is delivered once unless a fault explains more, and is settled in the end |
| Serial numbers | every change of a unit moves the stock by the same number |
| Purchasing | stock follows the items; what the page says is outstanding is what the accounts say |
| Accounting, expenses | every document and its journals say the same; a closed month takes nothing more; statements and reports agree |
| Checkout, promotions | one order per token; the usage count is the number of redemptions, within the limit |
| Customer accounts | an identity finds one account, that of its owner; one default address |
| Staff access | a save that completes alone leaves one role; no code is taken twice |

## 2. The modules

```
StockPromise  <==  Inventory                 (refined by)
  StockReports                               EXTENDS Inventory
  CatalogEdits                               EXTENDS Inventory
  SalesOrders   <-  Checkout                 EXTENDS Inventory, OrderStatus / SalesOrders
                <-  PosTerminal              EXTENDS SalesOrders
  SerialUnits   <-  Purchasing               EXTENDS Inventory / SerialUnits
VariantBuilder
Totals
  Payments                                   EXTENDS OrderStatus, Totals
    ReturnRefunds  <-  OrderForms            EXTENDS Payments / ReturnRefunds
                   <-  Returns  <-  PaymentReports
    Shipping       <-  CourierWebhook        EXTENDS Payments / Shipping
  ExpenseLedger                              EXTENDS Ledger, Totals
Ledger
  Costing  <-  SalesLedger                   EXTENDS Ledger / Costing
  Books  <-  Statements  <-  SalesReport     EXTENDS ExpenseLedger, SalesLedger
Outbox     CustomerAccounts     StaffRoles     StaffSignIn
```

Modules named `MC...` give the constants small values, and the `.cfg` files name
what is checked. Three of them put components side by side that share no row
(`MCCatalog`: the stock engine or the variant pages; `MCOutbox`: messages, roles
or sign-in; `MCCheckout`: the checkout or the accounts): only one side moves in a
behaviour, since interleaving them would add states and no new question. Modules
named `...Proofs` hold the theorems.

One convention runs through the modules: an operator whose comment begins with
*Slip:* is **not** part of the specification. It is the operator after it as a
plausible bug would have it (a dropped guard, a swapped order, a missing reset),
kept so that one can see that each property is able to fail: put the slip in the
place of the operator, and the run reports the property violated.
`PROJECT.json` (`mutants`) pairs slips with properties.

### Inventory, StockPromise, StockReports

`bal[<<w, v>>]` is the `InventoryBalance` row, `ledger[<<w, v>>]` what the
`StockMovement` rows of that key say together (the sum of their deltas and the
snapshot on the newest one), `cache[v]` the variant's `stock_quantity`. Every
service ends in `Commit`: rows saved, `_create_movement`, `_sync_variant_cache`.

* `PostMovement` is `post_movement` (inventory/services.py:130); `Reserve`,
  `Release`, `Issue`, `Receive`, `Remove` are its wrappers. `RowAllowed` is its
  validation together with the CHECK constraints of the table.
* `AdjustStock`, `TransferStock` write rows themselves. A transfer moves several
  variants in one transaction.
* `ReconcileCatalogStock` is what the `post_save` receiver of `ProductVariant`
  does: a difference between the saved figure and the available stock becomes
  adjustments, positive in the default warehouse, negative row after row.

One step per service is what the locks give: each service locks the rows it
writes, joined with the variant's row, before it reads them, so the figure it
sums over other warehouses (`VariantAvailable`) is protected by the variant's
row as well.

`StockPromise` is the engine seen by somebody who knows no warehouses: units are
promised, shipped against a promise, received or written off, never more
promised than there are. `ImplementsPromise` says that the engine implements it,
with the sums over the warehouses as refinement mapping. `StockReports` computes
the stock, valuation, low stock and movement reports the way they do, from
snapshots and deltas and not from balances (as of today, without unit costs). A
movement carries the SKU its variant has by then, and the stock reports list a
position once for each SKU it has movements under (reports/stock_purchase.py:122):
`skuOf[v]` is the SKU, `shown[<<w, v>>]` the newest snapshot under each one, and
`SaveVariantForm` is the form that changes it, together with the receiver.

### SalesOrders, PosTerminal, Checkout

`orders[o]` is the `SalesOrder` row with its items as functions on `Variants`
(quantity, reserved, issued). `SaveSalesOrder`, `MoveToReserving`,
`CompleteOrder`, `CancelOrder`, `DeleteDraftOrder` and `CompletePosSale` each
compute the rows as the code does, stage after stage (release in the old
warehouse, replace the items, reserve in the new one, issue); each stage must be
allowed, or the whole service is rolled back, i.e. disabled. The stock
operations of `Inventory` that other components use run beside the orders.

`PosTerminal` is the page in front of the POS services. `unanswered` is the held
order whose sale went through without the page learning of it; `timesSold[o]`, a
history variable, counts the sales of the cart that order `o` holds, to whichever
order they were written. Cart and channel
are chosen when posted, since the page can make any; customer, discount, tender
and prices are left out. The page's own test for a draft precedes the lock, so
the test under the lock counts.

`Checkout` adds requests with a signed token: `request[r]` is how far a request
got, from the lookup of an earlier order (without a lock) to the placing under
the lock of the coupon, or a refusal. The coupon page loads and saves a whole
row (`form`); prices and shipping charges are left out.

### CatalogEdits, VariantBuilder

`CatalogEdits` are the requests that read and write in different transactions:
`LoadVariant` and `SaveVariant` are the two ends of a dashboard request that
holds a `ProductVariant` instance.

`VariantBuilder` has the variants of one product (`rows[r]`: its combination of
values, display name and flags; `uses[r]`: stock or business history) and the
library of values. `Generate` is `generate_product_variants`: combinations that
exist are skipped, for each of the others an unused row is reused or a new one
created, one after the other, and the first row written becomes the default of a
product without an active one. `EditVariant` is the form, whose only test that can
refuse a used variant is that of its values: a valid `ModelForm` has already
written the new name, SKU and active flag into the instance that the other tests
compare them with (backoffice/variant_views.py:96, 101, 224).
The delete button asks (`AskDelete`: is it the last active one, is it used) and
deletes (`DeleteVariant`) in two steps, since nothing is locked in between; `asked`
is what it found. A form or table, which loads what it saves in the same request,
is one step (see section 5). The generator and the deletion end with the choice of
a new default; that is part of their step.

### Payments, ReturnRefunds, OrderForms, Returns, PaymentReports

The ledger of one order. `txn[p]` is the sale payment in row `p`, the rows
numbered in ledger order; refunds and reversals of a payment are kept with it,
as `refunded`. `order` has the status, the total, the credit of returns, the
cached `amount_paid` and the payment status. `Synced` is `_sync_sales_order`;
`Mirror` is the receiver that makes the ledger follow an `amount_paid` that was
written directly; `EditOrder` and `UpdateOrderPayment` are the sales services
that write it. Two rules derive the payment status, as in the code:
`DerivedStatus` (sales) from the cached amount, `LedgerStatus` (payments) from
the ledger. A sum over payments is written as the number of units they stand for
(`Total` in `Totals`): an ordinary definition about which the prover can be
asked. Amounts that may be negative are added row after row (`Sum`).

`ReturnRefunds` is the money of `complete_sales_return`. Its loop refunds the
oldest payment first, and after each refund the order is synchronized, whose
`save` runs the receiver, which refunds in turn, newest first. `Allocation` is the
loop of the return, `Receiver` that of the receiver, both as functions of where the
loop is; a `Round` of either synchronizes the order, which starts a `Receiver`
(`Sync`). `OrderForms` is the edit page with an
`amount_paid` field that may be older than the ledger. `Returns` adds the life of
the returns of one order: lines that claim units and credit, approval, receipt,
rejection, completion with the units that go back to the shelf.
`PaymentReports` has the figures of the payments page and of the payment,
returns and customer due reports, each from the rows the code reads.

### Shipping, CourierWebhook

One shipment of the order, beside *all* payment services of that order.
`ChangeShipmentStatus` includes `_complete_sales_fulfillment`: the order is
completed when the parcel is handed over. `SettleCOD` is the part of a
settlement that concerns this shipment: it captures a reconciled payment.
`CourierWebhook` adds the messages. Since the network may repeat or reorder
them, what may arrive at any time is any message the courier can write; the
receipt and the status change commit together.

### SerialUnits, Purchasing

`unit[u]` is a `SerializedUnit` with its status and warehouse, `claim[c]` a
warranty claim with the statuses it will restore. A service collects what it adds
to each row (`posted`) and commits it through the stock engine. RETURNED units
count as available and DAMAGED ones as scrapped, as their movements do.

`Purchasing` has orders (`po[p]`: status, ordered, received and returned
quantities, charge, what was paid) and `payable[p]`, what the journals add to
the payable account for the order; `byHand[p]` the amount of the journal that the
journal page has reversed (any journal of the order, one at a time) and `origin[u]`
the purchase a unit came with. Receipts come with or without serial numbers, and
only those with serial numbers compare the units registered with the stock
(serial_tracking/services.py:275); a supplier return takes units first, then
quantity. Line discounts of
purchases are no longer stored (purchasing/models.py:161, 199).

### Ledger, ExpenseLedger, Costing, SalesLedger, Books

A business event posts its journal under a source key; `book[s]` is the chain of
journals of a key, of which only the last is POSTED: the amount and the month of
each. `closed` are the closed periods, `late` those a transaction that is still
running tested while they were open (the test takes no lock). New periods start
open.

`ExpenseLedger` is the approval workflow of expenses and the cashbook, whose
income and expense differ only in the account of the due. `Costing` is the
weighted cost computed from the receipts and supplier returns dated up to a day;
it does not test the stock of a supplier return, `Purchasing` does.
`SalesLedger` is `post_sales_order` and `post_payment_transaction` with the
receivers that call them on *every* save, and the journals of returns; payments
use the cash account and pay the whole order. `Books` puts the documents
beside each other over common periods and a journal page that reverses any of
the journals.

### Statements, SalesReport

`Statements` gives the journals their accounts and computes the trial balance,
the overview, the balance sheet, profit and loss and the cash flow the way
reports/financial.py and accounting/services.py do. `SalesReport` is the sales
and profit report, computed from orders and returns, beside the figures the
ledger gives for the same orders. Accounts can be added with any type and normal
balance, never edited; those of `SystemAccounts` are always there, since the
services name them.

### Outbox

`callbacks` (business transaction committed, `on_commit` not run yet), `rows`
(`OutboundMessage`), `runs` (what each overlapping `process_outbound` listed and
holds), `pages` (the retry button, which loads a row without a lock). A worker
lists without a lock, takes a row with one, talks to the provider while it holds
the row, and records the answer; it may be killed at any point, which rolls the
row back but not what the provider has accepted. `delivered`, `faults` and
`requeued` are history variables: no action reads them except for the bound on
faults.

### StaffRoles, StaffSignIn, CustomerAccounts

A role is a Django group; what counts as a staff role is computed from names and
permissions at each use. The dashboard runs after the migration that makes the
system roles (`Migrated`). Saving a user is what staff_access/services.py:50-56
does without a transaction and without a lock: `form[f]` has read the roles, then
takes them off, then gives the new one, each in a step of its own, between which
another save of the user may run, and may break off at any of them. The history
variables `alone` and `sound` tell which saves ran by themselves to their end.

`StaffSignIn` has the password, the device with its last accepted period, recovery
codes, challenges and sessions of each browser; time is the authenticator period.

`CustomerAccounts` has the CRM row, the login and the saved addresses of each
customer. Phones and e-mails are identities; `NumberIn[i]` is the mobile number
the digits of `i` make, which is how `find_customer_account` reads what is typed
in. The shop's own forms store a number as `normalize_bd_phone` writes it
(`Numbers`), the CRM form stores what was typed (customers/forms.py:43), so a
customer may have a number that no service looks up. Saving and deleting an
address lock nothing, so each is two steps: `saving[t]` is what a request has
read and is going to write, `mixed` the requests that overlap another of the
account, `kept[c]` whether the default was kept, given up by its owner, or lost
between overlapping requests.

## 3. What is checked

| Run | Configuration | States | What it shows |
|---|---|---|---|
| `inventory` | 2 warehouses, 2 variants, rows of at most 2 units, 1 editor, 3 SKUs; 3 variant rows, 2 colours and a length | 47 403 | promises, ledger, published figure and stock reports agree, the reports as long as no position has two SKUs; `StockPromise` is implemented; stale pages take no promise; one active default but for two named cases, distinct combinations, used variants keep their combination |
| `sales_orders` | 2 warehouses, 2 variants, 2 orders of at most 2 units, a till | 61 074 up to symmetry | status and items agree, no reservation leaks, a confirmed order can always be completed, only completion ships, a held cart is sold once at most and by its own order |
| `checkout` | 3 requests (two share a token), 1 coupon of 1 or 2 uses, 2 orders; 2 customers, 2 numbers, one of them in 2 spellings, 2 e-mails; 3 addresses, 2 requests | 404 128 | one order per token, the usage count is the redemptions; an identity finds one account, its owner's; one default address, but for two named cases |
| `payments` | 2 payments, amounts to 3, a stale form, a return | 142 020 | ledger and order are one truth, no payment is given back twice, a refund from one payment is exact |
| `returns` | 2 returns of an item of 2 units sold for 3, 1 payment | 112 918 | no unit or credit is claimed twice; order, shelf and reports agree |
| `shipping` | 1 shipment, 2 payments, amounts to 2, courier reports *failed* and *delivered* | 253 998 | nothing unsold is shipped, COD money is explained, disputes stay visible, a message takes effect once |
| `purchasing` | 1 order, 2 units, 1 claim, 2 warehouses, a line charge of -1 | 138 708 | stock follows orders and units; the order page and the accounts agree on what is outstanding, up to a journal reversed by hand |
| `ledger` | 2 months, 2 lots, 2 orders, 2 receipts, 1 return, an expense, a cashbook entry, a manual journal; 5 journals | 24 057 | documents and journals agree whatever is reversed by hand; a closed month settles; statements and the profit report agree |
| `outbox` | 1 message, 3 workers, 1 retry page, 3 attempts, 2 faults; 3 groups, 1 staff user, 2 saves of him; 2 browsers, 1 recovery code | 287 207 | second deliveries explained, every message settled; one role, but where saves overlap or break off; no code taken twice |

Three runs end in a counterexample; they are disagreements between the code and
what its documents say.

| Run | What the code does | What is said of it |
|---|---|---|
| `over_refund` | a return of an order paid in two payments refunds more than became overpaid: the receiver refunds the rest, and then the loop does | "Only the overpaid portion ... becomes an actual Payment refund" (RETURNS_REFUNDS_PHASE.md:116) |
| `payment_report` | a payment taken and reversed leaves the report's Net Cash Flow at minus its amount, while the payments page says zero | operational reporting "remains reconcilable with the Accounting General Ledger" (REPORTS_PHASE.md:3) |
| `restored_cost` | a return restores the cost as the receipts of today give it, not the cost its sale recognized | "Sellable inventory returned to stock also restores recognized cost" (ACCOUNTING_SYSTEM_PHASE.md:127) |

### The bounds and why they are enough

* *Two warehouses*, the default being the one with the larger key, so that
  "default first" and "by key" differ. A third one repeats the role of the
  second.
* *Two variants*: the second lets one item succeed and the next fail, and two
  rows of one transfer interfere. `MaxQty = 2` allows partial reservations, a
  row with one unit free and one promised, and reductions over two rows.
* *Two orders*: one takes what the other was promised. `MaxUnits = 2` bounds the
  units an order lists, not what two orders and the stock operations do
  together. Orders and variants are exchanged by symmetry; all properties of the
  run are safety properties.
* *Two payments, amounts up to 3*: a refund that needs two sources, and a credit
  smaller than one payment. In `shipping` amounts go to 2: short, full and
  repeated collection are distinct.
* *One item sold for an odd total* makes the share of a unit fractional, which
  is where the rounded caps of two returns could exceed the total. With one
  payment the refund of the return is the exact one of `SingleSourceExact`.
* *Two serialized units of one variant* (exchanged by symmetry): one replaces the
  other, and a receipt brings one as a unit and one as quantity. `MaxLoad` bounds
  the units on the way, `MaxCost` and the one charge the money.
* *Two months*, one of which can be closed while the other is open; five journals
  are a chain of three reversals beside another document, and `restored_cost`
  needs six. `MaxDocuments = 1` bounds the kinds of documents in use at a time,
  not the journals of one. The second order of that run has a discount above its
  subtotal, which cannot be completed (section 5).
* *Three SKUs*: one variant takes a second one that is free and not the one of the
  other variant, which then has no stock, and no instance is loaded meanwhile; the first
  warehouse then has a unit at most. Deletions overlap where there are two rows.
* *Three checkout requests* are a repeated token and a rival for the last use of
  the coupon. *Two customers with two numbers and two addresses* can each hold
  what the other gives up; `NumberIn` makes one address look like a number, and
  one number has a second spelling with a country code. *Three addresses of one
  account, two requests*: a default, one that takes over and one that does not;
  accounts share no address, so the first one alone has any.
* *Three workers* overlap on one message; messages share nothing but the runs,
  and a run holds one row at a time. Three attempts, two of them possibly faulty,
  one retry page. `MaxFaults` bounds crashes and lost answers. A refusal by the
  provider is not a fault, and is bounded by the attempts only.
* *Three groups*: a system role, another role and one in the making; *one user
  and two saves of him*, since users share nothing but the roles; *two
  browsers* of one person for codes taken at the same time; three periods are the
  width of the window in which a code is accepted.

Deadlock is checked except where the configuration says `CHECK_DEADLOCK FALSE`:
in the payments family a cancelled order without payments is really finished,
and in `inventory` a product that has been deleted is.

### Fairness

Only `Outbox` states any. `WF(Enqueue(k))`: Django runs `on_commit` callbacks
right after the commit. `WF(BecomeDue(k))`: time passes. `WF(Work(w))`: cron
starts a run every few minutes, and a run goes on, since a call to a provider ends
by its timeout (`EMAIL_TIMEOUT` in techbari/settings.py:165, 12 seconds for HTTP).
Nothing is assumed of the business transactions, the retry pages, or of the
provider's answers: it may refuse for ever. Crashes are bounded, which
`MessagesSettle` needs: a worker that is killed each time settles nothing. The
roles and the sign-in beside it are not affected, as none of these actions is
enabled before an event. Everything else is a safety property and needs no
fairness.

## 4. What is proved

TLC checks the small instances above; the theorems hold for every value of the
constants that satisfies the modules' assumptions. Each follows the same
argument: an inductive invariant, checked by TLC first, holds initially and is
kept by every step, and it implies the property. What makes the invariant
stronger than the property is named in the table.

| Module | Theorems | The argument |
|---|---|---|
| `TotalsProofs` | laws of the two sums of `Totals` | The library's induction theorems take an operator, so induction is done here on sets of numbers (`LeastNumber`, `Counting`) and on finite sets (`SetCounting`). A sum by counting is the cardinality of a set of units; of `Sum`, `SumAdds`, `SumScales`, `SumJoins`, `SumSkips` and `SumSwaps` (rows before columns or columns before rows) |
| `InventoryProofs` | `InventoryTypeOK`, `InventoryNeverOversells`, `LedgerDeterminesStock`, `CacheNeverStale`, `SnapshotsAreCurrent`, `StockReportIsTrue`, `KeepsPromise`, `StaleSavesSparePromises` | Each row equals what its movements add up to and has reserved <= on hand; every service is a `Commit` of allowed moves, and one lemma keeps the invariant through any `Commit`. For the reports: the newest movement of a position is under its variant's SKU of that time, so a position listed once shows the row, and one listed more often no less. `KeepsPromise` is the refinement `InvSpec => StockPromise`, by sums over the warehouses |
| `SalesOrdersProofs` | `SalesStatusMatchesStock`, `SalesKeepInventory`, `SalesSoldStaysSold`, `SalesReservationsBacked`, `SalesCompletionNeverBlocked`, `SalesOnlyCompletionShips`, `CheckoutImplementsSales`, `TokensPlaceOnce`, `CouponsWithinLimit`, `TillImplementsSales`, `HeldCartsSellOnce` | The status says which of reserved and issued are zero or full; for each key, reservations of other parties Checkout and till implement the sales orders step by step; the request's stage, the coupon's count, the unanswered sale and the number of sales of each cart are invariants beside that |
| `PaymentsProofs` | `PayTypes`, `RefundsBounded`, `LedgerAndOrderAgree`, `NetAlwaysRefundable`, `StatusTellsWhatIsPaid`, `NothingShippedUnsold`, `CODMoneyExplained`, `CODStatusIsHonest`, `LedgerSurvivesSettlements`, `MessagesApplyOnce`, `ReturnsInvariant`, `ReturnsFitTheSale`, `ReturnsReportIsTrue`, `FormsInvariant`, `FormsKeepLedger`, `FormsKeepStatus`, `FormsKeepRefundable`, `ReturnsRefundOverpayment`, `DuesReportIsTrue` | Every payment gave back at most its amount and only if it counts, and the cached amount is the net one. The sums by counting are compared through subsets and one-row changes. For returns: what open and completed returns claim together fits the sale, so every open return can still be credited (`OpenBesideCompleted`, `CapWithinCreditable`, `CreditFits`). The refund loops go on from a set of payments to the set without its first: `LoopsExist` says that this defines them, `SetCounting` carries facts over the sets. `MirrorsSettle`: the receiver always brings the net amount down to the target; `AllocatesFromOne`: with a single source the loop of the return stops exactly there, so no receiver refunds beside it |
| `OutboxProofs` | `AttemptsBounded`, `DeliveriesAreExplained` | The lock of a row is held by at most one run (`LockHeldOnce`), attempts stay within the limit, and each accepted delivery is a SENT row, a call in progress, a fault or a requeued message |
| `PageProofs` | `EveryoneHasOneRole`, `NoCodeTwice`, `IdentitiesAreOwned`, `OneDefaultAddress`, `OneVariantIsDefault`, `VariantsStayDistinct`, `HistoryKeepsIdentity` | One invariant per page family. For roles and addresses it describes what a request under way has read, which still holds for a request that nothing has overlapped. The builder's loop over the combinations is a recursive function; `CombineKeeps` carries the invariant through one round, counting carries it through all |
| `LedgerProofs` | `ClosedMonthsStay`, `BooksAgree`, `ProfitReportIsTrue`, `StatementsAreTrue` | Chains alternate between posted and reversed; each document agrees with its chains as long as nothing was reversed by hand (`DocumentInv`); amounts are what cost and return gave when they were posted (`AmountInv`). For the statements: every journal is even (`LinesAreEven`), so swapping the sums makes the columns of the accounts even, too; the balance sheet and the profits are that sum, sorted by type and normal balance |
| `PurchasingProofs` | `PurchasingInvariant`, `PurchasePagesAgree`, `PurchasesMoveTheirStock`, `UnitsMoveTheirStock`, `PurchaseStatusIsTrue` | `payable` with the journal reversed by hand is the value received and the charge, less what was paid and sent back; received lies within ordered and returned within received; the status fits them; `PostKeeps` says that collected moves reach the rows one by one |

Assumptions. The constants are sets of keys; that the tables are finite, that
"none" is no key, that recovery codes are not periods and numbers are not
addresses, is what the database gives. Documents have source keys of their own,
apart from those of the journals posted by hand (`accounting_source_key` has the
number of the document). The accounts the services post to exist, and cost of
goods sold is an expense account (the seed of the chart). Months are positive
numbers. Bounds such as `MaxQty` are arbitrary natural numbers in the theorems.

What only TLC checks: `MessagesSettle`, which is liveness under fairness.

## 5. What is not modelled, and known disagreements

Not modelled:

* **Row locks.** A service is one step, which the locks it takes justify; lock
  cycles (inventory/services.py:61) end in a rollback by the database.
* **Staff**: throttling, audit log, the table from routes to permissions, password
  rules, superusers, `is_active` and the extra permissions of a user, which no role
  touches. A role page and `sync_system_roles` create a group and set its
  permissions in two autocommit statements; each is one step here.
* **Accounting**: backfill (run by migrations), overhead of purchases, deductions
  of couriers, opening balances.
* **Customers**: draft orders and the deletion of orders, wishlist, pages that only
  read. A service is a single step although e-mail uniqueness is tested without a
  lock or a constraint: two overlapping requests could store one address twice.
* **Variants**: forms and tables of one product that overlap each other; each is a
  step.
* **Payments**: the configuration of methods; supplier payments, which only mirror
  those of `Purchasing`.
* **Reports**: breakdowns by product, channel and date, the warranty and serial
  lists, dashboard figures, exports.
* Texts, files, pages, prices, images, presets, commands; SKUs except in the stock
  reports.

The type invariants (`TypeOK`, `SalesTypeOK`, `PayTypeOK`, `UnitTypeOK`) and
`StatusTellsReceipts` are proved, so no run repeats them.

Disagreements that were met while modelling, beside the three runs of section 3:

* *Sign-in*: `find_customer_account` takes an e-mail whose digits make an 11-digit
  mobile number for that number (customer_accounts/services.py:93-97), while
  CUSTOMER_ACCOUNT_PHASE.md:13 says "Customer login accepts the linked phone
  number or email."
* *Customers*: CUSTOMER_ACCOUNT_PHASE.md says that records with opening balances
  cannot be claimed without proof; registration only asks for an earlier order
  where there is one. A change of the CRM phone leaves the login under the old
  number, and a later registration with that number is refused. A signed-in
  checkout reactivates a customer made inactive since the account was read.
  Deleting a customer who has an account and no orders raises ProtectedError.
  The CRM form only strips a number (customers/forms.py:43-52). A customer stored
  with "+880..." never signs in by number, is refused at a signed-in checkout, and
  gets a second CRM row when he registers or orders as a guest, while
  CUSTOMER_ACCOUNT_PHASE.md:12 says that "Customer registration never creates a
  second CRM Customer when the mobile number already belongs to an existing buyer."
  `IdentityFindsOwner` promises such a number nothing.
* *Saved addresses*: "Exactly one default saved address when addresses exist"
  (CUSTOMER_ACCOUNT_PHASE.md:37). Making the default an ordinary address leaves
  none; two requests that save or delete at once can leave two or none, as
  customer_accounts/services.py:120-140 takes no lock. `DefaultAddressKept` states
  both cases and that there is no third.
* *Roles*: "Assign exactly one TechBari staff role" (staff_access/services.py:49).
  Two overlapping saves of a user leave him both roles, a request that breaks off
  between removing and adding none; `OneRoleEach` says that nothing else does, and
  that the next save that runs alone mends it.
* *Stock reports*: they "use immutable Stock Movement snapshots"
  (REPORTS_PHASE.md:35) by SKU. After the SKU of a variant with stock was changed,
  the position is listed under both and its stock is counted twice; the product form
  refuses the change, the test in the variant form never fires.
* *Checkout*: CHECKOUT_BACKEND_PHASE.md:17 says that the latest name, e-mail and
  address are synchronized to the CRM; a guest's checkout keeps the CRM record.
* *Cash flow*: the reversal of a reversal lands in another section than the journal
  it restores (reports/financial.py:247; REPORTS_PHASE.md:132). The total still
  reconciles, which is what `StatementsAgree` says.
* *Balance sheet*: an asset with a credit balance, which the account form allows
  (accounting/forms.py:16), is added where it should be taken off
  (reports/financial.py:190), so the equation of REPORTS_PHASE.md:105 is off by
  twice its balance. `StatementsAgree` states that difference; the equation
  itself is `EquationHolds`, which no run checks.
* *Stale pages*: saving a variant reverts the stock movements since it was loaded
  (backoffice/variant_builder_views.py:115, inventory/signals.py:12); deleting a
  warehouse drops stock received between the test and the deletion
  (backoffice/inventory_views.py:85); an order form refunds a payment captured
  since it was opened (sales/services.py:246, payments/signals.py:49); a retry
  page loaded before the message was sent sends it again
  (backoffice/integration_views.py:117, `requeued`).
* *Outbox*: an exhausted message that is retried by hand stays PENDING
  (integrations/delivery.py:151).
* *Orders*: an order whose discount exceeds its subtotal, with a shipping charge,
  can never be completed: its journal would have a negative revenue line
  (accounting/services.py:284-304, sales/services.py:104-112). A payment in an open
  month is refused when the order's date is in a closed one
  (accounting/services.py:99; ACCOUNTING_SYSTEM_PHASE.md:182). A pending payment
  of a cancelled order can be completed (payments/services.py:164). A return
  whose refund needs two payments may not be completable (returns/services.py:525).
* *Catalog*: "Its variant identity cannot be renamed" (backoffice/variant_views.py:99)
  and the same for the SKU, but both tests compare the instance with itself, so a
  used variant can get another name and SKU; only its values are protected, and
  `UsedKeepIdentity` speaks of these. "A product must keep at least one active
  variant/SKU." (backoffice/variant_views.py:41, 225): the form can switch the only
  active variant off for the same reason, and two overlapping deletions, or one that
  comes after trade, leave no active variant or lose its stock (:178); these are the
  cases `OneActiveDefault` and `UsedKeepIdentity` name. The product form may make an
  inactive row the default (catalog/forms.py:259), and the generator then makes a
  second one. Deleting a product that has stock and no history loses the stock
  (backoffice/catalog_views.py:95).
* *Purchases*: the journal page reverses a receipt or payment journal of a purchase
  without touching the order (backoffice/accounting_views.py:219);
  `OutstandingIsPayable` says that page and account then differ by that journal.
* *Suppliers*: the due of a supplier nets overpaid orders, the purchase report
  counts each of them as zero.
* *Point of sale*: a new cart whose completion went unanswered and is posted again
  becomes a second sale (static/admin/js/pos-v170.js:252); a resumed hold is filled
  from the page's old copy (pos-v170.js:208). `OneSalePerHold` is about held carts.

## 6. Plan

Done: every component that keeps two stored facts in agreement has a module, each
safety property of a passing run has a theorem.

Next:

1. a `StockTxn` module with row locks and stale reads, refining the one-step
   services of `Inventory`;
2. the journals left out (overhead, courier deductions, opening balances);
3. the throttle of the sign-in, the breakdowns of the reports.
