# A TLA+ model of the ctphone shop backend

The program is a NestJS server (one Node.js process) over MongoDB, with Redis
as a cache and VNPay as the payment gateway. Its state is in documents that
many requests read and write, and MongoDB makes one command on one document
atomic, no more: a request handler is a sequence of awaited commands, and any
other handler may run between two of them. Nothing is locked, no command has a
version check, and the one transaction of the code (creating a warehouse
receipt) passes its session to neither of its writes. What can go wrong is
therefore in the order of commands of several requests, in restarts between two
of them, and in calls that come late, twice or never. The modules here model the
handlers command by command and say what the documents promise each other all
the same, and under which circumstances they do not.

Source paths below are relative to `src/src/`.

## 1. Inventory

| Component | State | Operations that change it | Modules |
|---|---|---|---|
| Order life cycle (`modules/order`) | orders: status, paymentStatus, total; product quantity; Redis key `order-<id>` | checkout, confirm (with rollback), cancel | `OrderDocuments`, `OrderLifecycle`, `OrderHistory`, `OrderBook`, `OrderProofs`, `Shop` |
| Payment (`modules/payment`) | the same orders; what VNPay knows and was told to collect | create_payment, the IPN call | `OrderLifecycle`, `OrderHistory`, `OrderBook`, `Shop` |
| Caching (`libs/caching`) | Redis keys with a time to live | set, get | in `OrderLifecycle`, as the confirm uses it |
| Cart (`modules/order`) | orders in status CART, order details | update (ADD, MINUS), delete a line, create on first use | `OrderDocuments`, `Cart`, `CartHistory`, `CartProofs`, `SumLemmas`, `Shop`, `ShopProofs` |
| Order reports (`order.service.ts`) | none | none | the revenue query, in `Shop` |
| Warehouse receipts (`modules/warehouse_receipt`) | receipts, their details, product quantity | create, edit, status | `WarehouseReceipt`, `ReceiptHistory`, `ReceiptProofs`, `SumLemmas` |
| Category tree (`modules/category`) | categories as a nested set | create; findChildren reads | `Category`, `CategoryHistory`, `Catalogue`, `CatalogueHistory`, `CatalogueProofs` |
| Product catalogue (`modules/product`) | products | create; paged listings read | `Catalogue`, `CatalogueHistory`, `CatalogueProofs` |
| Accounts (`modules/auth`, `customer`, `staff`) | customers, staff, roles, accounts, account roles | two registrations, creation of staff and of roles, login | `Accounts`, `Registered`, `RegisteredHistory`, `RegisteredProofs` |
| Token sessions (`modules/auth`, `shared/modules/redis-cache`) | refresh tokens in MongoDB, logged out access tokens in Redis | login, gen-access, logout | `Sessions`, `SessionHistory`, `SessionProofs` |
| Delivery addresses (`modules/delivery_address`) | addresses with a default flag | create, update, delete | `DeliveryAddress`, `Registered`, `RegisteredHistory`, `RegisteredProofs` |
| Notifications, events, upload, shared code | notifications, media | one insert each | - |

How they interact:

- Orders and receipts share `product.quantity`: a confirm to PREPARES_PACKAGE
  subtracts, a completed receipt adds, and the cart compares with it.
- Cart and order handlers share the order documents and their details: the cart
  adds up the total line by line, create_payment hands that total to VNPay, the
  IPN compares it with what VNPay collected, and a confirm reads the details to
  know what to take from the stock.
- A confirm keeps the order it read in Redis for 15 minutes. A rollback, a
  confirm one step back, writes that copy over the order.
- create_payment and the IPN write status and paymentStatus of the orders that
  confirm, checkout and cancel write.
- findChildren reads the categories twice, and the product listing categories
  twice and products twice.
- A token carries the roles the account had at login, and the guards of every
  route look at the token alone.
- Checkout and the IPN copy the default delivery address into the order.

What is hard, per component, and what makes it correct:

- **Orders and payment.** Handlers read an order, await up to a handful of other
  commands, and write by `_id` alone; rollbacks restore old copies; VNPay repeats
  a call until it is answered. Correct: what is delivered is paid, stays
  delivered unless an admin or the staff undoes it, was delivered by an admin, and
  was in stock when first packed; a settled payment is acknowledged in the end,
  if its amount is the order's; and an order changes as if each handler did its
  work in one step.
- **Cart.** The upsert of a line has no unique index behind it, quantities are
  compared with the stock before the increment, and line and total are two
  writes. Correct: the total is the amount of the lines, one line for a product,
  with units, within the stock, and one cart for a customer.
- **Shop**, the two together. A line may be deleted, a total written or an order
  put back to CART while it is being paid and packed. Correct: what is billed,
  taken from the stock and reported as revenue is what the cart added up.
- **Receipts.** Details are written by a `bulkWrite` nobody awaits; the status
  guard and the status write are two commands; an edit writes the status of its
  body over any status. Correct: a receipt is credited once, and the stock
  credited is what completed receipts list.
- **Categories and catalogue.** A create renumbers the tree with two `updateMany`
  calls, each of which writes one document after the other, and numbers it read
  before; whoever asks for a subtree reads two numbers first and looks between
  them later. Correct: findChildren finds the descendants and nothing else; a
  listing shows what belongs to the category asked for, and leaves nothing out.
- **Accounts and addresses.** A registration writes three documents, the last
  one unawaited, after checks, with unique indexes behind some of them.
  Correct: people, accounts, roles and addresses point to each other as they
  should, also after a crash.
- **Sessions.** A token is determined by its payload and the second it is signed
  in; refresh tokens are stored by a write nobody awaits. Correct: a client that
  did not log out can go on, and an access token that was logged out is not
  accepted again. (The refresh token of the pair survives the logout and, as the
  JWT strategy does not tell the two kinds apart, still opens the routes.)

## 2. Plan

Modules in the order they were written, all with their runs and their theorems:

1. `OrderDocuments`, `OrderLifecycle`, `OrderHistory`: orders, payment, stock;
   `OrderProofs`. `OrderBook` is the abstract order, implemented.
2. `WarehouseReceipt`, `ReceiptHistory`, `ReceiptProofs`.
3. `Cart`, `CartHistory`, `CartProofs`.
4. `Category`, `CategoryHistory`; `Catalogue`, `CatalogueHistory`, which compose
   the tree with products and with what is asked of both; `CatalogueProofs`.
5. `Accounts` and `DeliveryAddress`, composed by `Registered`;
   `RegisteredHistory`, `RegisteredProofs`.
6. `Sessions`, `SessionHistory`, `SessionProofs`.
7. `Shop` and `ShopProofs`: carts and orders over the same documents.
8. `SumLemmas`: sums over finite sets, for the theorems of 2, 3 and 7 about totals.

Left:

- Abstract specifications: a receipt as "pending, credited or void"; the set
  `session` of `Accounts` as the abstraction of what `Sessions` keeps.
- Compositions: receipts with `Shop` (there a receipt is the step `Restock`), and
  the default address copied into an order at checkout.
- A refinement of the tree: categories do not appear at once to those who ask
  for subtrees, so an abstract tree would have to say what a query in the middle
  of a create may miss.

## 3. How the models correspond to the code

Conventions of all modules:

- **Requests.** A request in progress is a slot of `req` (a constant set
  `Handlers` of them): a record whose `pc` names the command it sends next and
  whose other fields are what it read or is about to write. Every await of the
  handler is one action; everything the handler does between two awaits is in the
  action before or after. An early return or an exception is a guard, or the
  end of the request (`Finish`) where commands came before it.
- **Commands.** `findOneAndUpdate`, `insert` and the like, on one document, are
  one step each. `updateMany` commits document by document: in `Category` each is
  a step, in any order, and other requests run in between; the reset of
  `DeliveryAddress` is one step, for an account has one default address at most
  where its property says anything. `deleteMany` of a receipt's details is one step
  too, an abstraction: a completion that reads part of them is not modelled. A
  `bulkWrite` is one step for each of its updates, in any order. A query for
  several documents reads them at one instant, which MongoDB does not promise
  while they are written: the second abstraction of this kind, and it matters to
  the subtree query alone. A create that overlaps the `updateMany` of another may
  be missed by it or not; the model has it selected, and no property says
  anything of overlapping creates but `Levels`, the depths, which no `updateMany`
  touches.
- **Unawaited writes** keep the slot busy until they are done, after the answer.
  Redis commands of one connection are executed in the order they are sent, and
  the SET of a confirm is sent before its `bulkWrite`, so it is one step and
  comes first.
- **Crash.** Docker restarts the process (`restart: always`): all slots become
  idle, MongoDB and Redis keep their data. A restart of Redis is not modelled.
- **Ids** are model values, and a pool of them bounds how many documents are
  created; ids are never used again.
- **Bodies** are taken to have the fields their DTO asks for.
- **History variables** are in modules of their own (`...History`, `Shop`), each a
  function of the steps taken, never read by a handler. A property
  that excepts a case names a history variable (`raced`, `cut`, `stale` ...), and
  the case is as narrow as the runs allow: without the exception the property
  fails, and the exception is what the reader should know of the code.
- **Variants** (`...Kept`, `...Later`, `...Above`) are definitions nothing uses:
  each is the definition after it with a plausible mistake, and shows, put in its
  place, that a property is sensitive to it.

Component by component:

- **OrderLifecycle.** `doc` is status, paymentStatus and total of each order,
  `line` the order details, `cache` the Redis key `order-<id>`, `gateway` and
  `bill` what VNPay knows. Confirm
  (`order.controller.ts:212-326`): `ConfirmRead` (guards and the update to write),
  `ReadLines` (the details as they are then), `CheckLine`/`RejectLine` (the loop
  over them), `FetchPrevious` (the cached
  copy of a rollback; a miss makes the update `{}`), `UpdateOrder`, `Remember`
  (the unawaited SET), `DeductLine`. A confirm writes no total, a rollback writes
  the total of the copy. A rollback of the rollback finds the copy the first one
  cached. Cancel, checkout and create_payment are
  read and write; create_payment stores paymentStatus SUCCESS before the customer
  has paid, as the code does, and bills the total it read before. The IPN is
  `IpnRead` or `IpnAlready` (reply 02), `IpnWrite`, and the answer, which may be
  lost. IPN calls that fail the checksum or name no order return before any write.
  So does one about another amount than the order's total (`AmountMatches`): the
  answer 04 is no step, and VNPay calls again. The total changes under a
  bill by a request on the cart that is still running, or by one that finds the
  order in CART again (`Recount`, with the totals in `Totals`; `Shop` puts the cart
  handlers in its place), and by a rollback, which writes the total of the copy.
  Address, merchandiser and note are left out, since no guard reads them. One
  amount stands for the three totals of the schema. `Visitors` are the slots that
  serve customers and admins; the others serve VNPay only.
- **OrderBook** is what the handlers promise to those who look at an order: it is
  placed, confirmed, cancelled, settled or put back, each in one step and from
  the state it is in, and what is put back was kept of it. `OrderHistory`
  instantiates it with `doc`, with the copies of an order that Redis and requests
  keep (`Copies`), and with `raced`, the orders without the promise.
  That a cart request adds up (`Recount`) is a move of its own, allowed to `Recount`
  of `OrderLifecycle` and to the cart handlers of `Shop` alone.
- **WarehouseReceipt.** `details[r]` is the quantity of each product over the
  details of r; the credits of several details of one product are one step.
  `Edit` writes the status its body names. The validation pipe of `app.module.ts`
  does not transform bodies, so the default of
  `dto/update-warehouse_receipt.dto.ts:8` is never applied: a body without a
  status leaves the stored one, which is among the statuses `Edit` may write.
  `completions` counts the writes of SUCCESS, `credits` those that went on with
  details to credit; a completion of a receipt without details credits nothing.
- **Cart.** `owner` and `doc` are the order documents; `Request` keeps the
  quantity read and the change asked for. A MINUS on a product the cart does not
  have throws (`MinusMissing`). The price of a product is constant, for no route
  changes one. `Place`, `Confirm` and `Rollback` stand for the handlers of orders
  where the cart is alone, each in one step: a confirm keeps the document it read
  in `cache`, and a rollback writes that copy over the order, the total of then
  included, and keeps what was there in its place. A copy restores no line, so an
  order that gets another total from it is one of the exceptions (`stale`) of
  TotalsMatch, as is one that lost a line when it was no cart any more.
- **Shop** runs `OrderStep` and `CartStep` over the same `doc`, `line` and
  `stock`; the history of `CartHistory` goes by `overlapped`, `doubled`, `stale` and
  `torn` there. `offtrack` are the orders that left the sequence of statuses, `changed`
  those with a detail or total written when no cart, and with the races and
  restarts they make `Irregular`, the exception of its properties. `Revisited`
  bounds which of these are served further (`LeftAlone`). `drained` counts, for a
  confirm that holds the lines it read, the units other requests took from the
  stock since. `Revenue` is the report of `order.service.ts:320-336`.
- **Category.** `cat` holds parentId, left, right and dept. A create without a
  parent throws on `parent.dept` (`category.service.ts:35`), so the first category
  is there from the start. Each `updateMany` is the steps `MoveRight` or
  `MoveLeft`, one for each document it selects, and `RightsMoved` or `LeftsMoved`
  when none is left; `moved` are those it is done with. `Subtree` is the query by
  two numbers, whatever was read for them when.
- **Catalogue.** findChildren and the product listing both read the category
  (`FindById`) and then search between the numbers they read: `FindChildren`
  answers what is no deeper than asked, `FindSubtree` goes on to the count (`Count`)
  and the page (`TakePage`). A listing without a category counts at once
  (`FindAll`). `CatalogueHistory` records what a request met: `torn` are those whose
  first read came when right numbers had been moved and the category's not yet, or
  whose second came among the moves of left numbers; `lefts` counts the creates that
  moved left numbers between the two reads. What is on a
  page depends on the order asked for and is nondeterministic; how much is not.
- **Accounts, DeliveryAddress, Registered.** `PhoneFree`, `CheckUsername`,
  `StoreCustomer`, `StoreAccount`, `StoreRole` are the five commands of a
  customer's registration; a staff registration enters by the pipe
  (`UserChecked`). Staff and role documents may be created before or after.
  Unique indexes refuse a second document where the schema has
  them. `session` says which accounts have a token in use, with the role or
  without; `Registered` lets an account with the role in to the address
  routes. A PATCH or DELETE goes by the id of the address alone: the model lets
  any account name any address, and the reset of a PATCH with isDefault takes
  the default of whoever asks. `contested` are the accounts whose own default
  requests overlapped or for which another account made an address the
  default, `missed` those whose request ended, with no default of theirs, because the
  address was gone or another's, or at a restart. Which of the roles an account has
  is left out, as all of them open the address routes; passwords are taken as right.
- **Sessions.** A pair of tokens is an account and a second. Access and
  refresh token of a pair are signed within the same second. `logout` calls
  `this.deleteRefreshToken(...)` without await; Mongoose runs a query only on
  await, `then` or `exec`, so the token stays, and `Logout` leaves `stored` alone.
  Clients send the access token as their bearer; that the strategy would take the
  refresh token too is no step of the model.
  `WantsLogin` is a choice of the client: it logs in when it is not let in.

## 4. Runs

| Run | Module, cfg | What it asks | Result |
|---|---|---|---|
| order_race | MCOrder, MCOrder_race | types, PaidWhenDelivered, DeliveredStands, DeliveredByAdmin and the refinement MovesAtOnce, with two requests on one order | hold |
| order_ack | MCOrderLive | PaymentAcknowledged, a liveness property, and MovesAtOnce again, while cart requests change the total | hold |
| order_oversold | MCOrder, MCOrder_oversold | StockNeverNegative | **violated** |
| order_ipn | MCOrder, MCOrder_ipn | AlreadyUpdatedIsTrue | **violated** |
| order_rollback | MCOrder, MCOrder_rollback | RollbackGoesBack | **violated** |
| receipt_race | MCReceipt, MCReceipt_race | types, CreditedOnce, AuditAgrees, TotalsAreSums | hold |
| receipt_reopen | MCReceipt, MCReceipt_reopen | NeverCreditedTwice | **violated** |
| cart_race | MCCart, MCCart_race | types, TotalsMatch, LinesWithinStock, OneLinePerProduct, LinesHaveUnits | hold |
| shop | MCShop | types, GoodsTaken, RevenueIsWorth, PaidForGoods, OneCart and PackingCovered, from the cart to the revenue report | hold |
| catalogue | MCCatalogue | types, NumbersUsedOnce, ChildrenAreDescendants, ListedWithin, NoneLeftOut, PagesFilled | hold |
| registered | MCRegistered | types, OneAccountPerStaff, OneOwnAccount, CustomersHaveAccounts, AccountsHaveRoles, OwnersHaveRoles, DefaultsAsChosen | hold |
| sessions | MCSessions | types, HoldersCanRefresh, HoldersAreAccepted, LoggedOutStaysOut | hold |

The four violated properties state what a line of the source says and the code
does not keep:

- *order_oversold* (`order.controller.ts:255`): a rollback from PREPARES_PACKAGE
  whose cached copy has expired writes `{}`, gets the order back as it was, and
  subtracts its lines a second time without a check.
- *order_ipn* (`payment.service.ts:96`): VNPay is told that the order has been
  updated, whatever it reports, because create_payment has marked the order paid
  already.
- *order_rollback* (`order.controller.ts:285`): a rollback caches what it read
  too, so the second of two rollbacks finds there the later status the first one
  left, and goes forward to it. The property speaks of the copy the rollback
  fetches to write; that the run has one request at a time makes it the copy
  written.
- *receipt_reopen* (`warehouse_receipt.controller.ts:72`): an edit sets a
  completed receipt back to PENDING, and its details are credited again
  (`credits`: one with an empty list of products credits nothing).

Met while modelling and not the subject of a run: `logout` never deletes the
refresh token (`auth.service.ts:212`), and the JWT strategy takes it for an access
token, so one that logged out may go on with it; a PATCH or DELETE of a delivery
address asks for no owner (`delivery_address.controller.ts:51-79`); a
create of a category hides descendants from those who ask for a subtree in
the middle of it; `GET category/:id` reads a parameter the
route does not have (`category.controller.ts`, `findOne`); the global
validation pipe is registered after the server listens (`main.ts`).

### Bounds and why they are enough

- **Two handlers** in the races: the exceptions that are about overlap are about two
  overlapping requests, and with two slots each can be at any step while the
  other runs whole requests. `shop` and the violated runs have one. The
  violations need no overlap. `shop` has one because two orders from cart to
  report with two handlers are beyond TLC: it shows the properties along whole
  lives of orders, with restarts, receipts and VNPay in between, but neither
  overlap nor rollbacks (its `Targets` and `Revisited` leave none). The theorems of
  `ShopProofs` have no such bound, and overlap is where some of them say
  more than the run: the check of the stock and its update are
  apart, two confirms can both pass the check, and PackingCovered bounds what is
  missing by what others took in between (`drained`, always zero in the run). It
  excepts `offtrack` orders because a rollback may find PREPARES_PACKAGE in
  the cache, and takes the lines from the stock without having checked them, and
  `overlapped` ones, which may have two lines for a product, each within the stock
  and together not.
- **Orders.** `order_race` has one order: the properties are about one order and
  requests meet on one order only. It has no products (stock is not its subject);
  confirms to SUCCESS, and to IN_TRANSPORT, which skips steps on the way up and is
  a rollback on the way down (`ShortCut`), and which may reopen the payment
  (`PayArgs`). `OnlineOrders` are those paid by VNPay, `Expiring` those whose
  cached copy may expire. `MaxStock` ends restocking, `StockFloor` keeps admins
  from confirming for ever into negative stock.
- **order_ack** has one order, no lines, confirms between CART and PENDING that
  set the payment back to PENDING, which is what makes an IPN meet another branch
  at its retry, and two totals, so the bill may be made out for one and be met
  by the other (`TwoTotals`). One slot serves anybody and one VNPay alone
  (`Visitors`): the process takes a call at any time, it has no slots to run out of,
  and with a slot for VNPay nobody can keep its calls out by asking for
  something all the time.
- **Shop.** One customer with two orders, two details and one product with one
  unit of stock and at most one more by a receipt: the orders compete for the
  unit, and the loser of it is refused or packed later. `MaxTotal` is one unit of
  price 2, so amounts and quantities cannot be confused. One order can be paid
  online. `Revisited` is empty: an order that became an exception gets no further
  requests and no further word from VNPay, and a behaviour ends when both are
  exceptions, as no property says anything of them.
- **Receipts.** One receipt of two products with three contents (none, one
  product, both). Two products show partly credited and partly inserted
  receipts; `MaxStock` ends the crediting of reopened receipts.
- **Cart.** One order, two products of prices 2 and 1 with a stock of two each,
  and two line ids: a duplicate line fits, and so do lines of two products whose
  amounts differ. `MaxTotal` bounds the total and the units of a line of an order
  that requests start on. `Revisited` is empty here too: an order on which
  requests overlapped is exempt from all properties and is served no further.
- **Categories.** `MaxRight = 8` lets four creates run, five categories with the
  root: the least in which two creates to the left of a category meet between the
  two reads of a request, the exception of ListedWithin. `MaxDepth = 2` is the
  depth subtrees are asked for at most: a depth beyond the categories found and
  depths that cut. `Limit = 1`, `MaxPage = 2` and two products give full, last and
  missing pages, and a product created between count and page. The CONSTRAINT
  `UnspoiltAndUnanswered` stops after creates that spoilt the tree (no property
  but the types and PagesFilled says anything then, and both are proved) and after
  an answer (a request from there is the same as one from an idle slot).
- **Registered.** One customer, one staff member, one role, all still to be
  stored; two user names, two addresses: a person with two accounts, two people
  after one name, two defaults, an address that is another account's.
  `Revisited` is empty: accounts that are `contested` or `missed` ask for no more, and
  nothing is asked about their addresses, as DefaultsAsChosen says little of
  them; what was under way still ends.
- **Sessions.** Two clients of one account, three seconds, tokens that live two:
  tokens signed in one second, refreshed in another and expired in the third.
  `MaxTime` stops the clock and `MaxCopies` bounds the documents with one token.
- **Symmetry** is used for handlers, ids of lines, categories, products,
  addresses, user names and clients, none of which a property or an action
  distinguishes, and in no run with a liveness property.
- Deadlock is not checked but in `registered`: the pools of ids and the
  bounds end the behaviours, and an order that is SUCCESS or a shop nobody visits
  has nothing to do.

### Fairness

Only `order_ack` needs it (`Fairness` in `OrderLifecycle`). A handler that has
started goes on, as the event loop and MongoDB serve every pending command: weak
fairness of each handler's next step. VNPay repeats a call until it is
answered, and neither crashes nor losses hit it every time: strong fairness of
reading, writing and answering a call. Nobody has to start a request, to pay, to
restart the process, to change a total or to let a cache entry expire. A call
about another amount than the order's total is answered 04 for as long as it
is another one, and nothing in the code makes it the same again: so
PaymentAcknowledged assumes of the order that its total is the amount billed
again and again (`[]<>AmountMatches`), and without that it is false.

## 5. Proofs

All proofs are for any values of the constants that satisfy the assumptions of the
modules, the bounds of section 4 being arbitrary numbers in them: any
number of orders, products, receipts, categories, accounts and handlers. The
assumptions say that `None` is none of the values, that stocks and prices are
natural numbers, and that sets are finite where a property counts or adds up
over them: the clients and handlers of `Sessions`, the products of `Catalogue`, the
details and handlers of `Cart`, the receipts, products and handlers of
`WarehouseReceipt`, the orders, products, details and handlers of `Shop`
(`SessionsAssumption` and so on). MongoDB holds finitely many documents and a
process serves finitely many requests; no number is given to either.
`CartConstants` is the assumption of `Cart` as a definition, so that `ShopProofs`
can show that the instance it uses satisfies it, from `OrderAssumption` and
`ShopAssumption`. They are checked by TLAPS with Z3, Zenon and, for the temporal
steps, LS4.

- **SumLemmas**: what `SumFunctionOnSet` of the community modules returns: zero on the
  empty set and on zeros, an integer, the term of any element plus the rest, the
  sum with one term added or changed, equal sums of equal terms. A fold is defined by a `CHOOSE` of a
  recursive function on the finite subsets, and the lemmas are proved from that
  definition by the argument of the smallest set: were there finite sets
  without the property, one of them would have the least cardinality.
- **OrderProofs**: `TypeCorrect`; `DeliveredUnracedIsPaid`;
  `DeliveredUnracedStands`; `DeliveredOnRequest`; `HandlersMoveAtOnce`.
  PaidWhenDelivered is not inductive: a confirm carries what it read and what it
  will write through several steps, and a rollback writes what Redis kept.
  `UnracedOrders` adds that, for an order no request overtook, every copy (in
  Redis, in `seen`, in `data`) is paid if it is delivered, and that every open
  request still stands on what it read. Each lemma `Unraced...` is for the actions of
  one handler. DeliveredByAdmin holds of raced orders as well; its
  invariant `AskedOrders` says the same of all copies of an order.
  `HandlersMoveAtOnce` maps every step to a move of `OrderBook` or to none: beside
  `UnracedOrders` it needs `Intents`, that a confirm about to write has an update
  that was asked for or is a rollback of an order that was placed, and
  `CopiesNext`, that copies are made only of the document and of copies. What
  cart requests do to a total is a move of the book only where such a request
  ends; a total that changes inside the read and write of a handler races the order.
- **ReceiptProofs**: `TypeCorrect`; `ReceiptCreditedOnce`, by `OpenUntilCredited`:
  a receipt that is pending has not been credited, and a request past the guard
  still finds it pending. `raced` and `edited` are just what breaks that.
  `StockAgreesWithReceipts` and `ReceiptTotalsAreSums` are about sums: the
  stock and what requests past the status write have still to credit are what
  completed receipts list (`StockAccounted`), and the total of a receipt is that
  of its details once those its one writer has still to store are there
  (`WritesAccounted`).
- **CartProofs**: `TypeCorrect`; `StockCoversLines`, `UnitsOnLines`,
  `LinePerProduct`, all by `LinesKept`: every line is within the stock, has units
  and is the only one for its product, and every request that relies on what it
  read of a line (the stock compared with, the absence of a line, the units a
  MINUS leaves) still can. Its parameter says whether the stock stands still: in
  `Shop` it does not, and what remains of the invariant is what `ShopProofs`
  needs. `TotalsFollowLines` rests on a balance kept by every step of every
  request, that the total and what requests have still to add to it are the
  amounts of the lines (`Balanced`), and on `LinesKept`, by which a write finds the line as it was read.
  A rollback that puts another total back ends the balance, and makes the order
  `stale`; one whose copy has the total there is keeps it.
- **ShopProofs**: what holds of the parts holds of the composition, by
  refinement arguments that reuse the lemmas of `OrderProofs` and `CartProofs`
  for the steps of their own handlers and add what the other side's steps do:
  `ShopTypeCorrect` (`ShopTyped`: requests are about orders that exist),
  `ShopDeliversOnRequest`, `ShopDeliversPaid`, `ShopDeliveryStands`,
  `ShopKeepsLines` and, for regular orders, `ShopTotalsFollowLines`. LinesWithinStock
  is not among them, for a packing takes the stock a line was compared with. Of
  both sides together:
  - `CustomerHasOneCart`, by `CartsApart`: a request about to create a cart is
    alone and its customer has none.
  - `PackedGoodsAreTaken`, `RevenueIsTaken` and `PaidIsTaken`, by `GoodsFollow`. The
    three properties speak of orders at rest; what makes them true happens
    while they are not. The invariant says of every regular order where it stands
    between the cart and the shelf: that the lines a confirm has read are worth the
    order's total, unless a cart has still to add to that (`RightlyRead`); that
    what is taken for the order and what its one packing has still to take is the
    total (`RightlyPacked`); that the bill, once there, is the total and the order
    no cart any more (`RightlyBilled`); and the balance of its cart. Each step of
    each handler, those of carts included, has a lemma for the order it serves and
    one for the others.
  - `PackingIsCovered`, by `StockChecked`: a confirm that checked its lines, and is
    on its way to take them, finds in stock what it checked less what others took
    since it read them (`drained`), for any number of confirms at once. For the lines
    it has checked that is a comparison of the quantity with what is left; a
    second line for the product is excluded by `LinesKept`, but for `overlapped`.
  - `OrdersMoveAmongCarts`, the refinement: `UnracedOrders` and `Intents` are not
    disturbed by requests on carts, which change an order by its total alone; a
    total that changes under a confirm makes the order a raced one. That a new
    cart is no change to the book is part of `GoodsFollow`: an order nobody has
    owned is as it will be created.
- **CatalogueProofs**, of `Category`: `TypeCorrect`; `NumbersOnce` (by
  `NumbersDense`): numbers are used up without gaps; `DepthsAreLevels` (by `Counted`):
  the depth of a category is the number of those above it, overlapping creates
  and crashes included, for what a create read of its parent's depth stays
  true. Of both:
  `CatalogueTypeCorrect`; `ChildrenFound`, `ListedInCategory` and `DescendantsListed`;
  `PagesAreFilled`, by the number of products counted, which only grows.
  - The tree itself is subject to `NestedSets`. In the middle of a create the stored
    numbers say nothing in particular: some documents have been moved and others
    not, in any order, and a crash may leave it so. The invariant is about the numbers
    as they will be once the create has moved all it is to move
    (`LeftAfter`, `RightAfter`), which no move changes: those intervals are laminar
    and nested as the parents say (`Nested`), and around the two numbers
    kept free for the new category lie its parent and the parent's ancestors
    and nobody else (`Room`). `Open` are the creates it is about: the one under way, or
    the one a crash cut off (`halved`), for which the invariant stays what
    it was. Creates that overlap, or follow a halved one, are `spoilt` and excepted.
  - What is found between two numbers is the subject of `ListingInvariant`.
    `Snapshot` compares the stored numbers of a moment with those to come: a
    query finds no other than descendants, and misses one only for the kind of
    number that is torn. From the first read on, each kind of step has a lemma of what
    a search by the numbers read would find: right numbers that move take
    away and never add, so they only matter to `torn`; left numbers may add, but the
    numbers of one create are two at most, too few for a category that is not
    a descendant, so only a second create that moves them (`lefts`) can let
    one in.
- **RegisteredProofs**: `TypeCorrect`; `RolesFollow`; `OwnersAllowed` (by
  `RolesFirst`); `CustomersAccounted` (by `Accounted`); `CustomersRegisterOnce`
  (by `OwnOnce`: of the registrations of a customer one is past the unique index);
  `StaffHaveOneAccount` (by `StaffOnce`); `DefaultAddressChosen` (by
  `DefaultsSettled`: an account with a default request under way has no
  default, and one that is at rest has the default it chose or lost).
  Whose address a request names is not assumed: each write of an address has a lemma
  for the account that asked and one for the account that owns it.
- **SessionProofs**: `TypeCorrect`, with `NoneEarly`: a token of the future is not
  only held by nobody but neither stored nor logged out nor in a request;
  `LoggedOut` (by `BlockedLong`: an entry of
  Redis outlives its token); `LetIn` (by `Placed`: who may have a pair, and that
  only twins share one); `CanRefresh` (by `Afforded`, which counts holders against
  stored tokens and requests about to store one).

Model-checked only is PaymentAcknowledged: liveness is out of the prover's reach.
Every other property of a passing run is stated by a theorem. Proved only, and in
no run, are MovesAmongCarts and the theorems about orders alone that `ShopProofs`
carries over to the composition (what TLC can show of them there, with one
handler and no rollback, is less than what `order_race` and `cart_race` show), and
`Levels`.

## 6. Not modelled

- Reports but the revenue, cost reports, purchase history: aggregations that only
  read.
- Notifications (one insert, the rest stubs), the event listener (it does nothing
  with what it finds), upload and media (single inserts nothing depends on).
- Editing staff (personal data nothing else reads); product update (a stub), the
  enable flag and the media of products (no query of the program looks at them by
  itself).
- The signature of IPN calls, the return page, VNPay's URL format.
- That a refresh token outlives the logout (`auth.service.ts:212`) is in the model
  and no property: nothing in the source promises the opposite.
- Answers, translation, configuration, validation of bodies.
