# TLA+ verification of StuStaPay

StuStaPay is the cashless payment system of a festival. Customers carry an NFC
wristband whose account lives in one PostgreSQL database; cashiers sell, top up
and pay out with an Android app on terminals; a Python core (`stustapay/core`)
does every booking; background processes ask the payment provider SumUp about
card payments and have every order signed by a fiscal security device (TSE). After
the event what is left goes back to the customers by bank transfer. They use a
portal in the browser for that and for top-ups; the organisers use a second site,
the administration.

This directory models the parts of it where several actors meet on shared state:
card top-ups, sales and pay-outs at the tills, the cash drawers, the signing of
orders and the payout runs in the core; and on the side of the browsers the page
for top-ups, the sessions of the portal, and the pages of the administration with
the caches they read from. TLC checks the models on small instances, TLAPS proves
the main invariants for all of them. Line references are to the repository;
`PROJECT.json` maps each definition to the lines it stands for.

- [The system](#the-system)
- [Modules](#modules)
- [Runs](#runs)
- [Fairness](#fairness)
- [Proofs](#proofs)
- [Where code and documentation disagree](#where-code-and-documentation-disagree)
- [Not modelled](#not-modelled)
- [Plan](#plan)

## The system

Every service method runs in one serializable database transaction
(`with_db_transaction`, of the external library sftkit, retries or rolls back the
whole of it). So a service call is one atomic step, and what races is the
*sequence* of calls: the app announces, pays and books; the worker reads rows and
processes them afterwards; the signature processor talks to a device between two
transactions. Only code that runs outside such a transaction is split into several
steps here: the two background processes, the app, and the pages in the browsers,
for which a call is sent, carried out and answered in three steps, the last of
which may not come.

| Component | State | Operations | Hard behaviour | Correct when |
|---|---|---|---|---|
| **Ledger** (`core/service/transaction.py`, `book_transaction` in `0004-functions.sql`) | `account.balance`, `account.vouchers`, `transaction` | book a transaction | signs, booking an amount twice | balances sum to zero; the orders explain every balance |
| **Card top-ups** (`core/service/order/sumup.py`, `pending_order.py`, `order.py`, the app's `TopUpViewModel.kt`) | `pending_sumup_order`, `ordr`, the app's request, the payment at SumUp | announce, pay, book, cancel, poll, the worker's rounds, expiry | lost answers, stale reads of the worker, timeouts against late payments, an error in a batch | an order is credited once and only if paid; every paid order is credited; no row is polled for ever |
| **Tills, terminals, cash registers** (`till/till.py`, `till/register.py`, `terminal.py`, `cashier.py`, `0002-triggers.sql`) | `till.terminal_id`, `till.active_cash_register_id`, `terminal.active_user_id`, `usr.cash_register_id`, shifts, register balances | log in and out, move terminals, stock up, transfer, transport, cash orders, close out | long sequences of legal calls by several people, a trigger that books behind them | a drawer is only in use where its cashier is; books and cash agree |
| **Order signing** (`tse/signature_processor.py`, `tse/wrapper.py`) | `tse_signature`, `tse.status`, `till.tse_id`, each wrapper's connection and request | request by trigger, assign a TSE, grab, sign, fail, reconnect, restart | crash between signature and row, timeouts, several wrappers, updates by ids read earlier | an order is signed at most once, by the TSE of its till, and its outcome is final |
| **Sales, cancellations, pay-outs** (`order.py`, `voucher.py`) | orders, line items, balances, vouchers | check, book, edit, cancel, pay out | retries with the same uuid, vouchers and balances as of the check | a sale is paid once, its cancellation undoes it, no customer owes money |
| **Ticket sales** (`order.py`, `pending_order.py`, `ticket_shop/`) | tags, ticket vouchers, pending ticket orders | scan, check, book, import from pretix, webhook | a tag or ticket taken between announcement and booking | a wristband is activated once, a ticket is used once |
| **Payouts to customers** (`customer/payout.py`, `customer/customer.py`, views `payout_view`, `customers_without_payout_run`) | `payout_run`, `payout`, `customer_info` | leave bank data, create a run, make the SEPA file, set it done, revoke | customers who spend, top up, change their data or lose their wristband between two steps of a run | a balance is paid out once; file, row and booking agree |
| **Customer portal** (`web/apps/customerportal`) | the token and the RTK Query cache of a tab, the form for the bank data, the top-up page | log in and out, open a page, save, pay by card | answers that come late or never, a tab that changes hands | nobody sees or saves what is another's; success is shown of credit only |
| **Administration site** (`web/apps/administration`, `core/service/*` behind it) | collections of rows per node, the RTK Query cache, forms | list, open, create, edit, delete rows of sixteen kinds; 48 pages with operations of their own | optimistic updates from stale copies, refusals nobody looks at, two caches of the same rows | what is entered is stored; what is offered is served; what was changed is shown |
| **User tags and accounts** (`user_tag.py`, `account.py`) | tag, account, history | move an account to another tag, disable | swap against open orders | one account per tag; history is complete |
| **Users and privileges** (`user.py`, `common/decorators.py`) | users, roles, sessions | log in, assign roles | roles that change during a session | nobody acts without the privilege |
| **Receipts and mail** (`bon/`, `mail.py`) | `bon`, `mails` | enqueue, render, send, retry | crash between sending and marking | everything enqueued gets sent |
| **Configuration** (tree, products, layouts, tax rates, TSE data), **device management**, **exports** | their rows | create, read, update, delete, export | inheritance along the tree of nodes | as for the administration site |

How they interact:

    app ----- HTTP -----> order service --+-- book_order, book_transaction --> ledger
     |                        ^           +-- insert into ordr --- trigger --> tse_signature, bon
     | SumUp activity         | process_pending_order              |
     v                        |                                    | notify
    SumUp <--- polls --- SumUp worker                       signature processor --> TSE devices
     ^
     |  checkout        login, stock up, ... --> tills, registers -- trigger --> money transfer
    customer portal                                                             order and booking
     |
     +--- bank data, donation --> customer_info --> payout run --> SEPA file, bookings
                                                       ^
    administration ---- rows, runs, logins, ... -------+--> core services, by privilege and node

A sale, a cancellation, a pay-out and a change of wristband meet on the rows of
one account. The drawers meet the ledger (a cash order books on the till's active register)
and the signing (an order needs the TSE of its till) through rows only. `SumupTopUp`,
`Sales` and `Payout` share `Ledger`; the signing needs nothing of an order but its
till, so it is a module of its own. `TopUpPage` is composed with `SumupTopUp`: its
requests are the actions of the server there, and payments, worker and SumUp go on
without it. The payouts meet the ledger through balances only, which anybody may
change between two steps of a run.

## Modules

| Module | Models |
|---|---|
| `Ledger` | transactions, posting, sums over accounts |
| `TopUpPromise` | abstract: an order is paid, and then credited once, in full |
| `SumupTopUp` | card top-ups: app, portal, worker, SumUp. Implements `TopUpPromise` |
| `SalePromise` | abstract: an order counts once, for one customer, is undone at most once and as a whole, and nobody owes anything |
| `Sales` | sales, cancellations, edits, cash top-ups, pay-outs, vouchers and wristbands. Implements `SalePromise` |
| `TillRegister` | tills, terminals, cashiers, registers, and the trigger on `till` |
| `SigningPromise` | abstract: an order is put through a device at most once and gets one outcome |
| `TseSigning` | hook, wrappers, devices, restarts. Implements `SigningPromise` |
| `PayoutPromise` | abstract: what is due to a customer is fixed, and then moves once and as a whole |
| `Payout` | bank data, payout runs, SEPA files, bookings. Implements `PayoutPromise` |
| `TopUpPage` | the portal's page for a top-up, composed with `SumupTopUp` |
| `PortalSession` | the sessions that follow one another in a tab, and its cache |
| `AdminTables` | what form, page, collection, schema and service know of each kind of row |
| `AdminPages` | an administrator's lists, detail pages and forms over `AdminTables` |
| `WebPages` | the other pages of the administration: what they read and offer |
| `WebApi` | the endpoints with their tags, the collections with their keys |
| `WebService` | whom the service serves, for which rows, and what that changes |
| `WebViews` | one of these pages in a browser, over the three before |
| `MC*` | values of the functions among the constants, for TLC |
| `Ledger_proofs` | sums over finite sets, and what `book_transaction` does to them |
| `TopUp_proofs` | theorems about `SumupTopUp` and `TopUpPage` |
| `WebCaches_proofs` | theorems about `PortalSession` and `WebViews` |
| the other `*_proofs` | theorems about the module they are named after |

Each specification has a section of *mutated forms*: plausible bugs, none of them
part of the specification, against which the properties are tried: with one in
place of the definition it is named after, TLC finds the property violated.

### SumupTopUp

| Here | There |
|---|---|
| `pending` | status of the row in `pending_sumup_order`; `"none"`: no row |
| `ordr`, `balance` | tables `ordr` and `account` |
| `expired` | `created_at` is older than `sumup_payment_timeout` |
| `sumup` | the payment at SumUp. `accepted`: the card was charged, SumUp does not say so yet |
| `client` | where `TopUpViewModel` (or the portal) is with the order |
| `batch` | the rows in the worker's local variable |
| `Announce`, `BookTopup` | `book_topup` with and without `pending` |
| `CheckPending` | `check_pending_topup`, `check_online_topup_checkout` |
| `WorkerFetch`, `WorkerProcess`, `WorkerRaise` | the loop in `run_sumup_pending_order_processing` |
| `GiveUp` | the app crashes, or the user dismisses a request it keeps retrying |

The check interval of a row (it grows from 5 to 15 seconds) is abstracted: a
round may take any sequence of distinct pending rows. An order's amount,
customer and entry account are constants: no operation changes them.
`fetch_maybe_pending_order` only returns rows that are pending, so the branch of
`cancel_pending_order` for booked rows never runs; `CancelPendingOrder` leaves
such rows alone.

### Sales

| Here | There |
|---|---|
| `ordr` | tables `ordr` and `line_item`, by uuid: type, till, method, customer, price, deposit, vouchers |
| `ordr[o].tag` | ghost: the wristband that was scanned. No column has it |
| `cancelled` | the orders `ordr.cancels_order` refers to |
| `balance`, `vouchers` | the two columns of `account` |
| `tagOf`, `tagHistory` | `account.user_tag_id`, `account_tag_association_history` |
| `BookSale`, `BookAnonymousSale` | `book_sale` with a wristband, in cash or by card |
| `CancelSale`, `EditSale` | `cancel_sale`, `cancel_sale_admin`; `edit_sale_products` |
| `BookTopup`, `BookPayOut` | `book_topup` in cash, `book_pay_out` |
| `CheckAccountBalance` | the constraint trigger at the end of a transaction |

A *cart* stands for the line items: the price of the goods, the deposit on cups
(negative when more come back), how many vouchers the goods take, what one is
worth. So what `compute_optimal_voucher_usage` returns is `Redeemed`, exact for goods
whose vouchers are worth the same; which of several prices is redeemed first is
not modelled. The row of a `cancel_sale` order gets a fresh uuid and has no effect
beyond `cancelled` and its bookings, which are those of the order it cancels in
reverse. `check_sale`, `check_pay_out` and `check_topup` only read; booking calls
the same checks again, so they are the guards of the actions. A till in
`CashTills` has a register throughout (which may come and go in `TillRegister`), and the
account of its drawer has the till's name. The permissions of till profiles are
assumed given. An account exists once it has or had a wristband (`Registered`);
`disable_account` takes the wristband away for good. An administrator sets the vouchers of
an account to any number (`UpdateAccountVouchers`, `Overrides`), a negative one too, as
nothing checks it: a customer can owe vouchers, but not because of an order. The limit of a sale
(`Limits`) is what the app asks for, or all there is; of a customer who owes some, neither takes any.

### TillRegister

Rows are known by integer ids, as in the tables, because one operation mixes up
the ids of two tables (`register.py:93`): abstract names would have hidden it.
`openShifts` holds each shift that has a start order and no end order. `booked`
is the sum of the cash orders booked at a till, including those the trigger
`handle_till_cash_register_change` inserts, which stand for the state
of the drawer that the fiscal export is computed from. `WithinBound` is not in
the code: it keeps the balances in a finite range. Where the code relies on a
constraint of the database to refuse a call, the constraint is a guard
(`ConstraintsHold`, `Assignable`), as its transaction is rolled back.

Bookings at the virtual till of the event are left out: those of a close-out
cancel out. Sales, top-ups and pay-outs in cash are one action `CashOrder`: the
drawer sees their amount and its sign.

### TseSigning

| Here | There |
|---|---|
| `status`, `signer` | `tse_signature.signature_status`, `.tse_id` |
| `late` | booked more than ten seconds ago |
| `notified`, `feral` | a notification that waits, the tills the hook has fetched and not yet handled |
| `wrapper`, `request`, `overdue` | the local state of a `TSEWrapper` task |
| `signatures` | ghost: how many signatures the devices made for the order |
| `Restart` | process exit at any point, and `run()` with its clean-up |

`FailRequest` covers the timeout of `_sign`, after which nobody knows whether the
device signed: both may have happened. `Interrupting` says which orders may end in
an exception other than that timeout, which leaves the row pending.

### Payout

| Here | There |
|---|---|
| `balance`, `tagged` | `account.balance`, and whether `account.user_tag_id` is set |
| `info` | `customer_info`. With `donateAll` the column `donation` is null |
| `run`, `payout` | the tables `payout_run` (with its `set_done_at`, `revoked`) and `payout` |
| `sepa` | `payout_run.sepa_xml`, as the set of its transfers |
| `transactions` | what `set_payout_run_as_done` has booked on the two exit accounts |
| `PayoutView`, `Pending` | the views `payout_view`, `customers_without_payout_run` |
| `Scheduled` | the `insert into payout ... select` of `create_payout_run`, with its window function and what `sum` does with null |

Whatever changes a balance elsewhere is `Spend` or `TopUp`; whatever gives or takes a
wristband is `RedeemTicket` or `DisableAccount`. That `payout_view` joins the
wristband is part of the model, as it decides who is in the file and who is
booked. Amounts are whole cents; the rules on IBANs, mails and the CSV file are
left out.

### TopUpPage

`state` is that of the page's reducer, `widget` the mount point of SumUp's card widget,
`creating` and `checks` the requests under way. An answer is handled by the callback
made with the request: it knows that order and finds the page wherever it is by then.
`Submit` and `ServerChecks` are the page's requests together with what the server does
(`CreateOnlineCheckout`, `CheckPending` of `SumupTopUp`); `ElsewhereStep` is everything
else there. Several checks may be under way, as the widget may report twice. The server answers only
while the order is pending (`AnswerFor`): for one that the worker has settled it raises, and the page
shows a toast and stays where it is.

### PortalSession

| Here | There |
|---|---|
| `sessions` | table `customer_session`: one row per login |
| `token`, `page`, `next` | the token in the local storage, the route, the query parameter `next` |
| `cache` | RTK Query's entries: data, error and the request under way, each of some session |
| `form` | the `initialValues` of the form on `PayoutInfo`, set once |
| `saving`, `leaving` | the two mutations |
| `found` | history: what a login found in the tab, to tell the cases apart |

Queries and data are identified by the session whose token the request carried. A
login is one step (its request is sent from a page without a session, and nothing
else is under way but what earlier sessions left behind, which can be answered
before or after). In the model the event is open, payouts are enabled and no
customer is in a payout run.

### AdminTables, AdminPages

A field of a form passes five hands on its way to the database: the form shows it, the
page takes it into the row, the collection puts it in the body, the schema of the
payload has it, and the service stores it. `AdminTables` has these five sets of
fields for each of the sixteen kinds of row, and the node each link leads to and
each service accepts. `AdminPages` is the machine that runs them, for one field of one
row: a page reads from the copy of its node (a TanStack collection), changes it at
once, sends it, and fetches the copy again when it has an answer. Other
administrators write and delete meanwhile. Values are named by who entered them, so
that a property can say whose value is stored.

Left out: what an administrator may not do (`WebViews` has that), nodes that forbid a kind
of object, the temporary row an insert shows, the copies a product makes of itself, the
dialog that adds users to roles, and the creation of events. Sending an
unchanged row is left out by the code and possible here.

### WebPages, WebApi, WebService, WebViews

| Here | There |
|---|---|
| `router` | the pages in `Router.tsx` that do more than edit a row: guard, queries, buttons with their conditions, handlers |
| `Endpoints`, `Invalidates` | `providesTags` and `invalidatesTags` of the generated API |
| `collections`, `ReadAgain` | `db/collections`, `refetchNodeCollection` |
| `service` | the decorators (`requires_node`, `requires_user`), the early returns, the keys of the database, and which facts a call reads or changes |
| `Verdicts` | `InvalidArgument` and the like (`refused`), any other exception (`broken`) |
| `visit` | the page, the user's privileges, what the node forbids, which other query is looked at |
| `caches`, `delayed` | the two caches, and RTK Query's delayed invalidation |
| `call`, `told` | the user's call, and the toast that follows |

A *mark* is a fact about the row a page shows that decides about a button or about the
service (a run is `settled`, a till has a `terminal`). *Facts* are what a query shows
and a call changes, so that one can say whether what is shown is older than the
user's own change.

A call fails for the row if the service checks that itself (`bars`: a run is settled, the roles
may not be assigned, the chosen till has a terminal) or if a foreign or unique key of the
database forbids it (`keys`: a user, till or register with orders is deleted, the chosen terminal is at
another till). The middleware for errors shows what the service says in its own words. What the HTTP
library (`sftkit`, not part of the repository) makes of an error of the database is not known, so
`Told` allows that it is shown and that it is not. Calls that depend on what was typed, on the
settings of the event or on another server may succeed or fail (`unseen`).

## Runs

| Run | Instance | Shows |
|---|---|---|
| `topup_safety` | a terminal and a portal order of one customer, with fairness; 21 575 states | under every interleaving of app, portal, worker and SumUp an order is credited only if paid (`CreditOnlyIfPaid`), in full and once (`LedgerMatchesOrders`, `ImplementsPromise`), and only a stale batch of the worker reopens a settled row (`SettledUnlessStale`); the worker settles every row (`PendingRowsSettle`) and books a paid one unless the terminal cancels it (`PaidPendingIsBooked`) |
| `topup_page_safety` | the page over two portal orders, two checks under way; 248 985 states | the page shows success only if something was credited (`SuccessMeansCredit`), and card data is never asked for the checkout of an order that was given up (`WidgetIsForThisOrder`) |
| `sales_safety` | 3 orders, 2 customers, 2 wristbands, 2 tills of which one has a drawer, a beer with deposit and returned cups, top-ups of 3, pay-outs of 1 or all, limit 5, at most 2 vouchers more granted than taken away, customers who are set to owe one; 461 575 states up to symmetry | whatever is bought, cancelled, edited and paid out in whichever order: nobody owes money (`NoDebt`), the standing orders explain every balance (`LedgerMatchesOrders`), credit made from cash has its cash (`CashBacksCredit`), an order's wristband leads to its customer (`TagsAreTraceable`), and all of it as `SalePromise`, which also says that no order takes vouchers its customer does not have |
| `register_safety` | 2 tills, 2 terminals, 2 cashiers, 2 registers, amount 1, balances within -1..1; 34 849 states | however people log in, move terminals and hand over drawers: a till has only its cashier's drawer (`DrawerWithItsCashier`), what is handed out is empty (`UnheldIsEmpty`), cash is neither made nor lost although close-out overwrites the balance (`CashIsConserved`), shifts follow the register (`ShiftFollowsRegister`), and the signed orders of a till add up to its drawer (`BooksMatchDrawer`) |
| `signing_safety` | 2 TSEs, 2 tills, 3 orders (two of one till, which may be interrupted), 1 restart, with fairness; 524 784 states | at most one signature (`NeverSignedTwice`), one order per till at a time (`OneAtATime`), done means signed by the till's TSE (`SignedByItsTse`), outcomes are final (`FinalStays`), all of it together as `SigningPromise`, and the orders of a till with a TSE get an outcome (`OutcomeComes`) |
| `payout_safety` | 2 customers, one of them with a ticket bought online, 1 bank account, 2 runs, limits 1 and 2 for the sum and 1 and 2 for the number, balances up to 2; 1 082 268 states | nobody is in two payouts (`OnePayoutPerCustomer`), the SEPA file says what the run has (`FileFollowsRun`), what is booked is what was scheduled, once (`BookedAsScheduled`), a row only goes with its whole run (`FrozenOnceScheduled`), payout and donation make the balance (`WholeBalanceIsScheduled`), and all of it as `PayoutPromise` |
| `portal_session` | 2 customers, symmetric, and 2 logins; 1 594 790 states | two customers of one tab are kept apart if the second finds the cache empty (`KeptApart`), otherwise what the first left is replaced unless a request of theirs is still under way (`OthersDataIsReplaced`), and nobody is logged out by what another session left behind (`StaysLoggedIn`) |
| `admin_pages` | an event and a stand below it, each of sixteen kinds of row and each of its fields; 1 549 697 states | what is entered is what is stored, and no form empties a field it does not have (`SavedAsEntered`); a form is opened where the service takes the edit (`EditsReachTheRow`); both with named exceptions, [see below](#where-code-and-documentation-disagree) |
| `web_views` | each of the other pages, an administrator, a manager of customers and payouts and a user without either, every kind of object a node may forbid; 751 194 states | a page shows its user's own changes when it has come to rest (`OwnWritesShown`), offers only what the service does (`RefusalsForeseen`), tells of what is refused (`RefusalsAreTold`), and what it offers of a row that has changed is refused or harmless (`StaleOffersRefused`); with named exceptions |
| `topup_callback_lost`, `register_stock_up`, `signing_no_tse` | as the runs above | violations, [see below](#where-code-and-documentation-disagree) |

`WebViewsTypes.cfg` checks the type invariant of `WebViews` and passes. Nine more
configurations are not runs of the project: they show the violations 4 to 8 below.

Why these bounds are enough to meet the interesting cases:

- *Top-ups*: two orders are needed for a batch with something behind the first
  row, for the balance limit (3 and 4 of at most 5, so each fits and the two do
  not), and for a terminal and a portal order. Everything else is per order.
- *Sales*: three orders are a top-up or a return of cups, a sale, and what a sale is
  edited to or a pay-out that spends what a cancellation would take back. With two
  customers one could get the other's money; two wristbands are enough to change
  one and then lose it, so that an account has two former ones, and to pass one on
  as a free ticket. Of two vouchers a beer takes one, so that both the limit and the cart can be
  what binds. A till without a drawer sells by wristband and card only.
- *Registers*: two of everything is what it takes to swap: two cashiers who pass a
  register on, two terminals that change places, two tills one of which keeps
  what the other should have lost. Till ids start at 1000 and register ids at 1, as
  in the database. One unit of money in each direction tells a drawer with too
  much from one with too little.
- *Signing*: two orders of one till compete for it, the third is of another till,
  two TSEs share the tills. A second restart finds nothing that the first does
  not: what a restart leaves is bounded by what is pending. Only the orders of the
  first till may be interrupted, so that the third shows whether another till suffers.
- *Payouts*: two customers are the least for a running total, for one to be passed over
  and for a run with one row too few. With two runs the second finds what the first has
  scheduled, paid, or given back by being revoked. A balance of 2 can be split
  between a payout and a donation, and change in between. The second customer has no
  wristband at first, and both can lose theirs.
- *The top-up page*: two orders are what it takes for an answer to be about an
  earlier one. More checks at a time only repeat what two can do to each other.
- *The portal*: everything that can go wrong needs a second session in the same tab; a
  third would find what the second left, which is of the same kind. With two
  customers the second session is the first one's again or another's.
- *The administration*: one row and one field at a time lose nothing, as fields do not
  depend on each other and rows of one kind only meet in their order. A node and
  one below it make the three cases of a row that is here, above or below; a tree of
  three nodes takes too long for a run, but `EditsReach` is proved for every tree.
- *The other pages*: a page waits for at most one query; of the others any one is looked
  at, so that they meet it pairwise. One kind of object that is forbidden, and one change
  by somebody else, are each combined with the waited query only. The three users
  have the sets of privileges between which the guards and the decorators differ.

`CHECK_DEADLOCK FALSE` is set where the system may stop: the top-ups, their page, the
sales and the payouts (once all orders are settled and expired, or all uuids,
vouchers, wristbands and runs used, nothing is left to happen), the portal, and the
pages of the administration (the page was left, the row deleted). Deadlock is
checked for the registers and the signing.

## Fairness

- *Top-ups.* `FairSpec` lets the worker always go on (`WF` of `WorkerAdvance`): it
  is an endless loop with a sleep, and every round ends. A row is not left out of
  the rounds for ever (`SF` of a fetch with it), as its check interval has an upper
  bound. Processing an order that is tried again and again succeeds in the end
  (`SF` of `WorkerProcess`) unless the order is in `Poison`: network errors pass,
  a missing till does not. Time passes, and SumUp reports an accepted payment. No
  app, portal or customer has to do anything.
- *Signing.* The hook handles its notifications, a connected wrapper works on what
  it grabbed (`sign` has a timeout), an unconnected one keeps trying or failing.
  That a device is reachable, ever, is not assumed.
- *Sales, registers, payouts and pages.* Nothing is forced to happen and no liveness
  is stated: people act, or do not, and any answer may be lost for good.

## Proofs

TLAPS proves the following for every number of orders, tills, registers and so
on, from the named `ASSUME`s on the constants in the specifications (which TLC
evaluates in every run). Every invariant that a run checks is proved, and every action
property but the three of `WebViews` that are about its tables.

**`Ledger_proofs`**: what the sums of the ledger do. A fold over a set is a function that is
chosen by its equation. The provers cannot instantiate the library's rules of induction,
whose parameter is an operator, so induction is stated here over a set: what has the
property is a subset `Q` of the subsets of a finite set, and if not all of them were in `Q` there
would be a smallest one that is not (`SetInduction`). From it follow that there is one such function
(`AddsExists`, `AddsUnique`), that any element may be taken first (`SumOverTakes`), and what an
element more, one less or one changed does to a sum (`SumOverInsert`, `SumOverRemove`,
`SumOverUpdate`, `SumOverGroup`). `BookTransactionConserves`: a transaction between two accounts
leaves the sum of all balances as it is, whatever the sign of its amount.

**`TopUp_proofs`**, about the top-ups: `TypeCorrect`, `NoCreditWithoutPayment`,
`BookedRowsHaveOrders`, `LedgerFollowsOrders`, `OnlyStaleReadsUnsettle`, `Refinement`. The
inductive invariant adds two facts. *An app that heard of success has a paid order*: `BookTopup`
believes the app, so that `CreditOnlyIfPaid` depends on what the app may claim. *A payment that has
not been started is unknown to SumUp*: otherwise starting it could lose a paid one. With them every
booking happens after the payment, and the refinement follows step by step: SumUp's step from open
to accepted is `Pay`, a first booking is `Credit`, everything else stutters, in particular a second
booking of the same uuid. For the ledger (`LedgerInv`) it is enough that every step either leaves
orders and balances alone or makes one booking (`BookingSteps`), which adds one amount to one sum on each
side, and that finitely many orders are booked at a time. That only stale reads reopen a settled row needs
that rows are made before anything happens to them and that the worker holds rows that were made
(`RowsAreMade`): an order without a row could not be told from one that was reopened.

The same module, about their page: `PageTypeCorrect`, `SuccessIsBacked`, `WidgetFollowsPage`,
`PageKeepsCreditPaid`, `PageKeepsServerSpec`. Every step of the page is a step of `SumupTopUp` or none, so the
composition is a behaviour of `SumupTopUp` (`PageKeepsServerSpec`) and inherits what was proved of it. For the page
the inductive invariant adds that an answer PAID that is still under way is about a booked
order (`PaidAnswerIsBooked`, stable as orders are never deleted) and that the page
and its requests only know orders of the portal (`KnowsItsOrders`).

**`Sales_proofs`**: `TypeCorrect`, `NobodyOwes`, `OrdersMakeNoVoucherDebt`, `CreditIsBacked`,
`WristbandsLeadToCustomers`, `LedgerFollowsOrders`, `Refinement`. The first part shows that the six order
actions, however different their checks and bookings, do one of three things:
they insert an order and book its effect on one customer, cancel one and take its
effect back, or replace one by another (`Books`, `Cancels`, `Replaces`). The invariant and the
refinement are shown for these three. The inductive invariant adds that orders
are consistent (only a sale to a customer takes vouchers, only an order without a
customer has none: otherwise a cancellation would not give back what was taken)
and that who ordered did so with a wristband, so that the account is registered:
otherwise a free ticket could give a first wristband to a customer whose orders
have another one. `NobodyOwes` rests on the database's trigger, which knows
of money only: that an order takes no vouchers beyond what there is (`OrdersMakeNoVoucherDebt`, and the
steps of `SalePromise`) follows from the check in the same transaction. `LedgerInv` states each balance as a sum over all standing
orders in which those that do not concern the account count as nothing (`Shares`): so an
order more or less changes every sum by one summand, and a cancellation takes exactly that
summand back.

**`TseSigning_proofs`**: `TypeCorrect`, `SignedAtMostOnce`, `TillSignsInSequence`,
`DoneIsSigned`, `OutcomeIsFinal`, `Refinement`. The heart is `OverdueIsNew` and
`RequestsArePending`: a wrapper updates rows by ids it read some time ago. What it
read to fail is still new, because only the TSE of the order's till could have
grabbed it, that TSE is this wrapper's, and this wrapper is busy failing them; what it
is signing is still pending, because nobody else touches pending rows. This rests
on a till never losing its TSE (`FeralHasNone`: the hook only handles tills
without one), which is true of the code only because the switchover tool does
not work (see below): it would have to stop the wrappers first.

**`TillRegister_proofs`**: `TypeCorrect`, `ShiftsArePaired`, `NoCashIsMade`, and of the
drawers of tills `DrawerStaysWithCashier` (with `DrawerAtOneTill`), `RegistersAreHandedOutEmpty`,
`BooksFollowDrawer`. The theorems about drawers assume `DisjointIds`: no till shares its id with a
register. Because of the swapped arguments in `register.py:93`, stocking up would
otherwise put the id of the wrong table into an unrelated till. The database
starts till ids at 1000 and register ids at 1, so it holds until the thousandth
register. Their inductive invariant adds that a terminal is at one till and that a
register is held by one user, the two unique constraints. The first three need neither:
that shifts follow the registers and that no cash is made or lost is an invariant of its own
(`CashInv`), which even the wrong update keeps. `NoCashIsMade` needs that there are finitely many
registers (`RegistersAssumption`); its close-out books the counted cash to the vault and then the
difference to the imbalance account, after which setting the drawer to zero changes nothing.

**`Payout_proofs`**: `TypeCorrect`, `OnePayout`, `IbanIsThere`, `FilesFollowRuns`,
`BookingsFollowRuns`, `Frozen`, `WholeBalance`, `Refinement`. The inductive invariant adds
that rows of `payout` belong to runs that are open or done, and files to runs that
exist (`RowsBelongToRuns`), and that who has entered something and does not donate
everything has a bank account (`BankDataIsComplete`): that is why
`dump_payout_run_as_sepa_xml`, which asserts an IBAN for every transfer, does not fail,
although donating everything can be chosen before any bank data is left. Done runs keep
their rows, so a booking always finds the row it was made from; and because a row holds
its own copy of amount and IBAN, nothing a customer does later can part file, row
and booking.

**`AdminPages_proofs`**: `TypeCorrect`, `EditsReach`, `EntriesAreSaved`. For every tree of nodes. The invariant
of `EditsReach` (`ReachInv`) says that a copy has its row only if that is listed at its node (`CopyInv`),
that a form shows only such a row (`FormInv`), and that a page whose links lead to the
row's own node is there (`Reached`); the rest is that for each kind of row links and
service fit together, which the prover goes through kind by kind (`AllDirected`).
`EntriesAreSaved` follows an entry from the form to the row: a form is one of those the
tables describe (`Faithful`), what is submitted as typed is what was typed (`TypedIsSent`), and nowhere
does a field hold what belongs to another one (`NothingCrossed`). That forms, schemas and service pass
on every field that is not in `Lost` is again shown kind by kind (`AllNewCarried`,
`AllChangeCarried`).

**`WebCaches_proofs`**, about the portal: `TypeCorrect`, `CustomersKeptApart`, `DataIsReplaced`,
`SessionsLast`. For any number of customers and logins. The invariant of the second
(`Apart`) says: if nothing but calls was left behind so far, then
what is cached, and every request under way, is of the customer who is logged in, and
a call that saves carries its own customer's form. A call left behind is harmless as
the service goes by the session in the request, and as its answer only moves the page.
`DataIsReplaced` needs that, unless a request was left behind, the cache waits for the present session only
(`RequestsAreOwn`): then what it has of another customer is being asked for again, or the
failure to read it is shown. For `SessionsLast` also every call must be of the present session
(`CallsAreOwn`), and a refusal must be for good (`RefusalsAreFinal`): a session is left
because of a refusal that was on its way, and by then the session must still be over.

The same module, about the pages of the administration: `ViewTypeCorrect`, `OwnChangesAreShown`. For users
with any privileges. The invariant (`ViewInv`) says of every query what it is owed to if it shows, or
is about to show, what was read before a call of the user: it waits to be read again, or the
call that concerns it has not been answered yet, or its last reading failed, or the page forgets it. That
a handler or the tags name every query that a call concerns is a fact about the finite tables
(`ChangesAreReread`), which TLC evaluates; the proof is about what lost answers,
readings that overtake each other, and invalidations that RTK Query puts off make of it.

Only model-checked, not proved:

- everything under fairness (`PendingRowsSettle`, `PaidPendingIsBooked`,
  `OutcomeComes`): liveness is beyond the prover here;
- `RefusalsForeseen`, `RefusalsAreTold` and `StaleOffersRefused` (`WebViews`): each says of single steps
  what the finite tables of pages and service say of them, for one set of privileges after the other.
  TLC goes through the tables completely; there is no argument beyond that to prove.

Type invariants are proved and, but for that of `PortalSession`, not repeated in the runs;
so are `BookedHasOrder`, `DrawerAtOneTill` and `TransfersHaveIban`.

## Where code and documentation disagree

The first three are runs that expect a violation.

1. **A cancelled payment is never booked** (`topup_callback_lost`).
   `TopUpViewModel.kt:185-187` announces the top-up so that the backend books it
   when "the callback to the POS terminal got missing". But a terminal that hears of
   no success cancels it, and `cancel_pending_order` (`order.py:580`) compares
   a boolean with `None`, so it cancels payments that SumUp knows.
2. **Stocking up does not fill the drawer** (`register_stock_up`). The arguments
   of the update in `register.py:93` are swapped.
3. **Orders of a till without TSE neither fail nor get one** (`signing_no_tse`).
   `_handle_feral_tses` skips the till (`signature_processor.py:116`), its handler
   for that case cannot be reached, and a TSE that becomes active later does not
   call the hook. The next order of any till does.

TLC also finds these violated, with the configuration that is named:

4. **One failing order stops all others** (`SumupTopUpPoison.cfg`, module
   `MCSumupTopUp`). The `try` in `sumup.py:315` is around the loop over the pending
   orders. `TopUpViewModel.kt:224-225` relies on the backend to book on its own.
5. **The balance limit is not enforced** (`SumupTopUpLimit.cfg`, `MCSumupTopUp`). The
   constraint trigger (`0002-triggers.sql:215`) reads a configuration key that migration
   `0012-tree.sql:138` deleted. Two top-ups within the limit exceed it together.
6. **Payout runs** (module `Payout`).
   `PayoutMaxSum.cfg`: a run may pay out more than the "max amount" of its form
   (`translations.ts:858`), as a customer who has spent some of the donation counts with
   less than nothing.
   `PayoutEmpty.cfg`: `create_payout_run` (`payout.py:388`) means to refuse a run
   without payouts, but asks before it applies the limit on their number.
   `PayoutPassedOver.cfg`: a run is to have "all customers that have no payout assigned yet"
   (`payout.py:435`); the first ones are left out if they donate everything, as the sum of
   nothing but nulls is null.
   `PayoutDone.cfg`: "account balances will be updated with the payout amounts"
   (`translations.ts:869`), but not those of customers without a wristband, of whom the
   bank may have been told.
7. **The top-up page** (module `MCTopUpPage`).
   `TopUpPageWrongOrder.cfg`: success is shown for one order when another was booked, which
   the page had given up. `TopUpPageError.cfg`: "failed" is shown of an order
   that is pending and will be booked. `TopUpPageRaised.cfg`: `check_online_topup_checkout` has a
   branch that answers PAID for a booked order (`sumup.py:232`), but `fetch_pending_order`
   finds pending rows only. A customer whose payment the worker books first never sees the success.
8. **Bank data of the last customer** (`PortalSessionHandover.cfg`, `MCPortalSession`). The
   cache is not emptied at a logout, the form starts from what is cached and keeps it,
   and a customer who submits it as it is saves the data of the one before.

The properties of the administration's pages name what they except, so that the exceptions
can be read there and nothing may be added to them:

- `Lost` (`AdminPages`): a new user's wristband is overwritten with null
  (`UserCreate.tsx:39`); `user_tag_pin` only serves to look a wristband up; nothing writes
  `pretix_topup_ids`; `payout_registered_message` gets the subject
  (`tree/service.py:236-240`).
- `Misdirected` (`AdminPages`): the lists of registers, layouts and terminals link a row of
  a node above to a form at the present node, whose save the service does not find.
- `payoutRun` in `AdminTables`: the collection's schema drops the two limits of a new run, so
  that the service refuses it, and the page shows a success.
- `Forgotten` (`WebViews`): two pages do not read the list of users again after they have logged
  one out, and a terminal's page not the tills after the terminal was logged out.
- `Unforeseen` (`WebViews`): pages without a guard for the privilege the service asks
  for (`Unguarded`); pages for administrators that need the privileges of payouts or customers as
  well (`ForManagers`); operations whose service asks for a kind of object the page does not
  (`AnyKind`: a user at a terminal is logged out with the privilege for tills); rows for
  which a button should not be there (`AnyRow`): users, tills and registers with orders are to be
  deleted, any role can be chosen also if one may not assign it. `switchTill` and `switchTerminal` are
  not among them, as their selects offer only what the list says is free (`TillSwitchTerminal.tsx:28`): they are
  refused when the list is out of date, which `StaleOffersRefused` is about. What may fail for a
  reason that no page shows is not the page's to foresee.
- `Unnoticed` (`RefusalsAreTold`): the deletes of a user, a till, a register and a terminal, and the change of
  a user's roles. The generated client does not throw, and nobody looks at its answer. Calls that go through RTK
  Query and do not look at their answer themselves may also be silent if the database fails.
- A node can never be deleted: `delete_node` (`tree/service.py:684-692`) writes the audit log of the delete
  for the node that is gone, which `audit_log.node_id` (`0029-audit-logs.sql:9`) refuses. `NodeSettings` offers it
  (`AnyRow`); no test calls it.
- `StaleOffersRefused` excepts a SEPA file of a settled run, which can be made, and the logout of
  a terminal that is no longer registered, which still takes its till away.

Met while reading, and part of the models where they matter:

- A write through a collection that is refused or lost ends like one that was done
  (`client.gen.ts:207`), and a list that cannot be read is an empty list.
- A form sends the whole row as it was when the form was opened, so a save resets what others have
  changed; for a till that includes the terminal it was moved to. A product's form that was opened
  before the product was locked unlocks it.
- `requires_user` accepts ANY of the privileges, its docstring says ALL (`decorators.py:115`).
- The middleware for errors shows no toast when a request is lost; a customer's page leaves
  when a reading in the background fails; logging out of the portal drops the token even if the call failed.
- `disable_account` and `update_account_vouchers` write in transactions that are marked as read-only,
  and `update_account_balance` always raises.

## Not modelled

- *SumUp's checkouts without a row*: `create_online_topup_checkout` opens a checkout
  and then inserts the row (`sumup.py:280`). If the transaction is rolled back or
  retried, a checkout stays behind that nothing in the code knows.
- *Ticket sales and ticket vouchers*: pending ticket sales (`pending_order.py:89` reserves
  neither tags nor vouchers), the import from pretix and its webhook. Free
  tickets are in `Sales`.
- *Tills, terminals and registers coming and going*, receipt numbers (`z_nr`, also where
  `switch_terminal` keeps a user logged in, `till.py:197`), the registration of terminals.
- *`tse_switchover`* reads `till.active_user_id`, which migration
  `0024-move-user-logins-to-terminals.sql` dropped. It stops with an error before its
  first update, so a model of it would have no step.
- *The TSE protocol*, registration of clients at a device, disabling a TSE.
- *Receipts and mail*: the workers that render and send, and what they retry.
- *The client of the device manager* with its cache; only who may use its pages is modelled.
- *Floating point*: the ledger books integers. *Which vouchers pay for what*, when
  goods have vouchers of different worth.
- *Privileges in the core*: the modelled services are called by users who have them. `WebService`
  has which ones each call asks for; how roles along the tree add up to the privileges of a
  user is not modelled.
- *Payouts*: the rules on IBANs and names, mails, the CSV file, rounding of fractions of a cent.
- *The portal*: logging in with a link, donating everything, read-only events, the list of orders,
  static pages. A payout run is not modelled together with the sessions.
- *The administration*: its login, the tree editor, constraints between rows of different kinds in `AdminPages`
  (`WebService` has the keys that forbid the deletes and moves of its pages), rows that are inherited in `WebViews`,
  the copy a product makes of itself. Its cache is not emptied at a logout either.
- *The terminal app's user interface, exports' queries, statistics, rendering, translations, generated types
  and validators*: no state of their own that another part depends on. Of the generated clients the
  endpoints with their tags are in `WebApi`; the types and schemas are in `AdminTables` as far
  as they decide which fields pass.

## Plan

Done: `Ledger`, `TopUpPromise`, `SumupTopUp`; `TillRegister`; `SigningPromise`, `TseSigning`; `SalePromise`,
`Sales`; `PayoutPromise`, `Payout`; `TopUpPage` over `SumupTopUp`; `AdminTables`, `AdminPages`;
`PortalSession`; `WebPages`, `WebApi`, `WebService`, `WebViews`; and proofs of the invariants of all of them.

Open, in this order:

1. `TicketSales`: pending ticket orders against tags and ticket vouchers taken
   meanwhile, with the import from pretix and its webhook. Two tags, two tickets. It
   shares the worker with `SumupTopUp`, so the worker's actions become a module
   that both extend.
2. `PortalSession` with a payout run under way, which closes the form while it is open.
3. `VoucherUsage`: `compute_optimal_voucher_usage` against a reference definition
   over small inputs.
4. `Workers`: receipts and mail, retries after a crash.
5. Tills that come and go, `z_nr`, TSEs that are disabled, in the existing modules.
