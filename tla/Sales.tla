------------------------------- MODULE Sales ---------------------------------
(***************************************************************************)
(* Orders at the tills: sales paid with the wristband, in cash or by card, *)
(* with vouchers and deposit; their cancellation and editing; cash top-ups *)
(* and pay-outs; vouchers; and customers who get another wristband.        *)
(*                                                                         *)
(* Every call is one database transaction and one action. The app checks   *)
(* an order before it books it, but booking checks it again, so a check    *)
(* changes nothing and is no action. A call that is refused, or repeated   *)
(* after its answer got lost, changes nothing either.                      *)
(*                                                                         *)
(* A cart is what the voucher algorithm and the bookings tell apart: the   *)
(* price of its goods, the deposit on its cups (negative when more are     *)
(* returned than handed out), how many vouchers its goods take and what    *)
(* one of them is worth.                                                   *)
(***************************************************************************)
EXTENDS Ledger

CONSTANTS
    Orders,        \* uuids of orders
    Customers,     \* customer accounts
    Tags,          \* wristbands
    Tills,
    CashTills,     \* the tills with a cash register; also their drawers' accounts
    Carts,         \* records [goods, deposit, takes, worth]
    TopUps,        \* amounts of top-ups
    PayOuts,       \* amounts of pay-outs, besides the whole balance
    MaxBalance,    \* event.max_account_balance
    Overrides,     \* numbers of vouchers that an administrator sets
    MaxGranted     \* bound of the model: the vouchers that are granted

Nobody == "nobody"
NoTag == "no tag"

SystemAccounts == {"sale_exit", "deposit", "cash_entry", "cash_exit",
                   "cash_topup_source", "sumup_entry"}
Accounts == Customers \union CashTills \union SystemAccounts
VoucherAccounts == Customers \union {"sale_exit", "voucher_create"}

ASSUME AccountsAssumption ==
    /\ CashTills \subseteq Tills
    /\ Customers \intersect CashTills = {}
    /\ (Customers \union CashTills) \intersect
          (SystemAccounts \union {Nobody, "voucher_create"}) = {}
    /\ NoTag \notin Tags

\* Vouchers pay for goods, never for more than these cost.
ASSUME CartsAssumption ==
    \A cart \in Carts :
        /\ cart.goods \in Nat /\ cart.deposit \in Int
        /\ cart.takes \in Nat /\ cart.worth \in Nat
        /\ cart.takes * cart.worth <= cart.goods

ASSUME AmountsAssumption ==
    /\ TopUps \subseteq Nat \ {0} /\ PayOuts \subseteq Nat
    /\ MaxBalance \in Nat /\ MaxGranted \in Nat /\ Overrides \subseteq Int

VARIABLES
    tagOf,        \* account.user_tag_id
    tagHistory,   \* account_tag_association_history: customers and their former tags
    ordr,         \* table ordr with its line items, by uuid; tag: the wristband
                  \* that was scanned, which no column keeps
    cancelled,    \* the orders that a cancel_sale order refers to
    balance,      \* account.balance
    vouchers      \* account.vouchers

vars == <<tagOf, tagHistory, ordr, cancelled, balance, vouchers>>

Init ==
    /\ tagOf = [c \in Customers |-> NoTag]
    /\ tagHistory = {}
    /\ ordr = [o \in {} |-> {}]
    /\ cancelled = {}
    /\ balance = [a \in Accounts |-> 0]
    /\ vouchers = [a \in VoucherAccounts |-> 0]

-----------------------------------------------------------------------------
(* Mutated forms of definitions below, each a bug that is easy to write. They  *)
(* are not part of the specification; the properties have to tell them apart.  *)

\* More vouchers are taken than the goods are worth.
Redeemed_All(cart, limit) == IF cart.takes = 0 \/ limit < 0 THEN 0 ELSE limit

\* The deposit is refunded from where the price of the goods went.
Refunded_Together(bal, row) ==
    BookTransaction(bal, "sale_exit", row.customer, row.price + row.deposit)

\* Whether the uuid is known is not asked.
Unknown_Unasked(o) == TRUE

\* A pay-out is booked on the account of the customer only.
PaidOut_NoDrawer(bal, row) ==
    BookTransaction(bal, row.customer, "cash_topup_source", row.price)

\* Nothing refuses a debt at the end of a transaction.
CheckAccountBalance_Not == TRUE

\* Only the latest former wristband is remembered.
Remembered_Latest(c) ==
    {h \in tagHistory : h[1] # c} \union {<<c, tagOf[c]>>}

-----------------------------------------------------------------------------
(* Looking things up. *)

Booked == DOMAIN ordr
Unknown(o) == o \notin Booked
TagsInUse == {tagOf[c] : c \in Customers}
FormerTags == {h[2] : h \in tagHistory}

\* An account has had a wristband from the start, or had one once.
Registered(c) == tagOf[c] # NoTag \/ \E h \in tagHistory : h[1] = c

\* The customers a tag stands for: one at most, as account.user_tag_id is unique.
Holder(tag) == {c \in Customers : tagOf[c] = tag}

-----------------------------------------------------------------------------
(* Orders and their bookings. *)

\* The limits on the vouchers of a sale to a customer who has n: used_vouchers, as the app
\* asks, or else all there are, which may be less than none.
Limits(n) == 0..MaxGranted \union {n}

\* How many vouchers a cart is paid with, if at most limit may be used.
Redeemed(cart, limit) ==
    IF limit < 0 THEN 0 ELSE IF limit < cart.takes THEN limit ELSE cart.takes

\* The order of a sale. Its price is what the vouchers leave of the goods'.
Sale(t, method, c, tag, cart, limit) ==
    [type |-> "sale", till |-> t, method |-> method, customer |-> c, tag |-> tag,
     price |-> cart.goods - Redeemed(cart, limit) * cart.worth,
     deposit |-> cart.deposit,
     vouchers |-> Redeemed(cart, limit)]

\* The order of a top-up or pay-out.
CashOrder(type, t, c, tag, amount) ==
    [type |-> type, till |-> t, method |-> "cash", customer |-> c, tag |-> tag,
     price |-> amount, deposit |-> 0, vouchers |-> 0]

Total(row) == row.price + row.deposit

\* Who a sale takes the money from.
Source(row) ==
    CASE row.method = "tag"   -> row.customer
      [] row.method = "cash"  -> "cash_topup_source"
      [] row.method = "sumup" -> "sumup_entry"

\* A sale: from its source to the accounts of the products, and cash to the drawer.
Sold(bal, row) ==
    LET paid == BookTransaction(
                    BookTransaction(bal, Source(row), "sale_exit", row.price),
                    Source(row), "deposit", row.deposit)
    IN  IF row.method = "cash"
        THEN BookTransaction(paid, "cash_entry", row.till, Total(row))
        ELSE paid

\* Every transaction of a sale by wristband, the other way round.
Refunded(bal, row) ==
    BookTransaction(BookTransaction(bal, "sale_exit", row.customer, row.price),
                    "deposit", row.customer, row.deposit)

ToppedUp(bal, row) ==
    BookTransaction(BookTransaction(bal, "cash_topup_source", row.customer, row.price),
                    "cash_entry", row.till, row.price)

PaidOut(bal, row) ==
    BookTransaction(BookTransaction(bal, row.customer, "cash_topup_source", row.price),
                    row.till, "cash_exit", row.price)

\* Vouchers are booked on the same order, apart from the money.
Used(v, row) ==
    IF row.vouchers > 0
    THEN BookTransaction(v, row.customer, "sale_exit", row.vouchers)
    ELSE v
Returned(v, row) ==
    IF row.vouchers > 0
    THEN BookTransaction(v, "sale_exit", row.customer, row.vouchers)
    ELSE v

\* book_order: an order that is known already is returned, and books nothing.
BookOrder(o, row, bookings, bal) ==
    /\ ordr' = IF o \in Booked THEN ordr ELSE [x \in Booked \union {o} |->
                                                IF x = o THEN row ELSE ordr[x]]
    /\ balance' = IF o \in Booked THEN bal ELSE bookings

\* The checks of a sale by wristband, on the balances bal and vouchers v.
CheckSale(o, row, limit, bal, v) ==
    /\ Unknown(o)
    /\ limit <= v[row.customer]
    /\ ~IsBalanceNegative(bal[row.customer] - Total(row))
    /\ bal[row.customer] - Total(row) <= MaxBalance

\* The checks of a cancellation.
Cancellable(o, t) ==
    /\ o \in Booked \ cancelled
    /\ ordr[o].type = "sale" /\ ordr[o].method = "tag" /\ ordr[o].till = t

\* check_account_balance, a trigger at the end of every transaction. Its limit from
\* above is read from a setting that no longer exists, and refuses nothing.
CheckAccountBalance == \A c \in Customers : ~IsBalanceNegative(balance'[c])

-----------------------------------------------------------------------------
(* Orders at the tills. *)

\* book_sale, paid with a wristband and, up to limit, with vouchers.
BookSale(o, t, tag, cart) == \E c \in Holder(tag) : \E limit \in Limits(vouchers[c]) :
    LET row == Sale(t, "tag", c, tag, cart, limit) IN
    /\ CheckSale(o, row, limit, balance, vouchers)
    /\ BookOrder(o, row, Sold(balance, row), balance)
    /\ vouchers' = Used(vouchers, row)
    /\ CheckAccountBalance
    /\ UNCHANGED <<tagOf, tagHistory, cancelled>>

\* book_sale, paid in cash or by card: whose it is, nobody asks.
BookAnonymousSale(o, t, method, cart) ==
    LET row == Sale(t, method, Nobody, NoTag, cart, 0) IN
    /\ Unknown(o)
    /\ method = "cash" => t \in CashTills
    /\ BookOrder(o, row, Sold(balance, row), balance)
    /\ CheckAccountBalance
    /\ UNCHANGED <<tagOf, tagHistory, cancelled, vouchers>>

\* cancel_sale at the till, cancel_sale_admin for the till.
CancelSale(o, t) ==
    /\ Cancellable(o, t)
    /\ cancelled' = cancelled \union {o}
    /\ balance' = Refunded(balance, ordr[o])
    /\ vouchers' = Returned(vouchers, ordr[o])
    /\ CheckAccountBalance
    /\ UNCHANGED <<tagOf, tagHistory, ordr>>

\* edit_sale_products: o is cancelled, and n booked for the same customer, whose
\* present tag is looked up. The new sale is checked against what the cancellation
\* leaves; if it is refused, so is the cancellation.
EditSale(o, n, cart) ==
    /\ o \in Booked
    /\ Cancellable(o, ordr[o].till)
    /\ tagOf[ordr[o].customer] # NoTag
    /\ LET old == ordr[o]
           bal == Refunded(balance, old)
           v == Returned(vouchers, old)
       IN  \E limit \in Limits(v[old.customer]) :
           LET row == Sale(old.till, "tag", old.customer, tagOf[old.customer], cart, limit) IN
           /\ CheckSale(n, row, limit, bal, v)
           /\ BookOrder(n, row, Sold(bal, row), bal)
           /\ vouchers' = Used(v, row)
    /\ cancelled' = cancelled \union {o}
    /\ CheckAccountBalance
    /\ UNCHANGED <<tagOf, tagHistory>>

\* book_topup in cash. Those by card are in SumupTopUp.
BookTopup(o, t, tag, amount) == \E c \in Holder(tag) :
    LET row == CashOrder("top_up", t, c, tag, amount) IN
    /\ Unknown(o)
    /\ t \in CashTills
    /\ balance[c] + amount <= MaxBalance
    /\ BookOrder(o, row, ToppedUp(balance, row), balance)
    /\ CheckAccountBalance
    /\ UNCHANGED <<tagOf, tagHistory, cancelled, vouchers>>

\* book_pay_out: an amount, or all there is. The drawer need not hold it.
BookPayOut(o, t, tag) == \E c \in Holder(tag) : \E amount \in PayOuts \union {balance[c]} :
    LET row == CashOrder("pay_out", t, c, tag, amount) IN
    /\ Unknown(o)
    /\ t \in CashTills
    /\ ~IsBalanceNegative(balance[c] - amount)
    /\ BookOrder(o, row, PaidOut(balance, row), balance)
    /\ CheckAccountBalance
    /\ UNCHANGED <<tagOf, tagHistory, cancelled, vouchers>>

-----------------------------------------------------------------------------
(* Accounts, their vouchers and wristbands. *)

\* n vouchers for c. The bound of the model is on what was granted in all.
Granted(c, n) ==
    /\ n - vouchers["voucher_create"] <= MaxGranted
    /\ vouchers' = BookTransaction(vouchers, "voucher_create", c, n)

GrantVouchers(tag, n) == \E c \in Holder(tag) :
    /\ n > 0
    /\ Granted(c, n)
    /\ UNCHANGED <<tagOf, tagHistory, ordr, cancelled, balance>>

\* An administrator sets what c has, to any number, a negative one too.
UpdateAccountVouchers(c, n) ==
    /\ Registered(c)
    /\ Granted(c, n - vouchers[c])
    /\ UNCHANGED <<tagOf, tagHistory, ordr, cancelled, balance>>

\* grant_free_tickets: a new account. That the wristband was another account's
\* before does not matter.
GrantFreeTicket(c, tag, n) ==
    /\ ~Registered(c)
    /\ tag \notin TagsInUse
    /\ tagOf' = [tagOf EXCEPT ![c] = tag]
    /\ IF n > 0 THEN Granted(c, n) ELSE UNCHANGED vouchers
    /\ UNCHANGED <<tagHistory, ordr, cancelled, balance>>

\* A trigger on account.user_tag_id keeps the wristband that c had.
Remembered(c) == tagHistory \union {<<c, tagOf[c]>>}

\* _switch_account_tag: from one wristband to one that nobody ever had.
SwitchAccountTag(old, tag) == \E c \in Holder(old) :
    /\ tag \notin TagsInUse
    /\ tag \notin FormerTags
    /\ tagOf' = [tagOf EXCEPT ![c] = tag]
    /\ tagHistory' = Remembered(c)
    /\ UNCHANGED <<ordr, cancelled, balance, vouchers>>

\* disable_account: the account stays, nobody can order with it any more.
DisableAccount(c) ==
    /\ tagOf[c] # NoTag
    /\ tagOf' = [tagOf EXCEPT ![c] = NoTag]
    /\ tagHistory' = Remembered(c)
    /\ UNCHANGED <<ordr, cancelled, balance, vouchers>>

-----------------------------------------------------------------------------
OrderStep ==
    \/ \E o \in Orders, t \in Tills, tag \in Tags, cart \in Carts :
          BookSale(o, t, tag, cart)
    \/ \E o \in Orders, t \in Tills, method \in {"cash", "sumup"}, cart \in Carts :
          BookAnonymousSale(o, t, method, cart)
    \/ \E o \in Orders, t \in Tills : CancelSale(o, t)
    \/ \E o, n \in Orders, cart \in Carts : EditSale(o, n, cart)
    \/ \E o \in Orders, t \in Tills, tag \in Tags, amount \in TopUps :
          BookTopup(o, t, tag, amount)
    \/ \E o \in Orders, t \in Tills, tag \in Tags : BookPayOut(o, t, tag)

AccountStep ==
    \/ \E tag \in Tags, n \in 0..MaxGranted : GrantVouchers(tag, n)
    \/ \E c \in Customers, n \in Overrides : UpdateAccountVouchers(c, n)
    \/ \E c \in Customers, tag \in Tags, n \in 0..MaxGranted : GrantFreeTicket(c, tag, n)
    \/ \E old, tag \in Tags : SwitchAccountTag(old, tag)
    \/ \E c \in Customers : DisableAccount(c)

Next == OrderStep \/ AccountStep

Spec == Init /\ [][Next]_vars

-----------------------------------------------------------------------------
(* Properties. *)

Rows == [type : {"sale", "top_up", "pay_out"},
         till : Tills,
         method : {"tag", "cash", "sumup"},
         customer : Customers \union {Nobody},
         tag : Tags \union {NoTag},
         price : Nat,
         deposit : Int,
         vouchers : Nat]

\* Types, and: a wristband has one account, a price is never negative (vouchers do
\* not pay more than the goods cost), and only sales by wristband are cancelled.
TypeOK ==
    /\ tagOf \in [Customers -> Tags \union {NoTag}]
    /\ \A c, d \in Customers : tagOf[c] = tagOf[d] /\ tagOf[c] # NoTag => c = d
    /\ tagHistory \subseteq Customers \X Tags
    /\ Booked \subseteq Orders /\ ordr \in [Booked -> Rows]
    /\ cancelled \subseteq {o \in Booked : ordr[o].type = "sale" /\ ordr[o].method = "tag"}
    /\ balance \in [Accounts -> Int]
    /\ vouchers \in [VoucherAccounts -> Int]

\* No customer owes money, whatever is cancelled after what it gave has been spent.
NoDebt == \A c \in Customers : balance[c] >= 0

\* What a step leaves of the vouchers of any customer is no debt, or no less than it was: an
\* administrator may set a negative number, but no order is paid with what is not there.
NoVoucherDebtMade == \A c \in Customers : vouchers'[c] >= 0 \/ vouchers'[c] >= vouchers[c]

\* What an order adds to the money of its customer, if it has one.
MoneyEffect(row) ==
    CASE row.type = "sale"    -> -Total(row)
      [] row.type = "top_up"  -> row.price
      [] row.type = "pay_out" -> -row.price

Standing == Booked \ cancelled
StandingSales == {o \in Standing : ordr[o].type = "sale"}

\* The standing orders explain the money of every customer, what was earned, the
\* deposit that is out, the vouchers used and the cash in the drawers: a cancelled
\* order has left nothing anywhere, and an edited one only what it became.
LedgerMatchesOrders ==
    /\ \A c \in Customers :
          balance[c] = SumOver([o \in Standing |-> MoneyEffect(ordr[o])],
                               {o \in Standing : ordr[o].customer = c})
    /\ balance["sale_exit"] = SumOver([o \in StandingSales |-> ordr[o].price], StandingSales)
    /\ balance["deposit"] = SumOver([o \in StandingSales |-> ordr[o].deposit], StandingSales)
    /\ vouchers["sale_exit"] = SumOver([o \in StandingSales |-> ordr[o].vouchers], StandingSales)
    /\ \A t \in CashTills :
          balance[t] = SumOver(
              [o \in Standing |-> IF ordr[o].type = "pay_out" THEN -ordr[o].price
                                  ELSE Total(ordr[o])],
              {o \in Standing : ordr[o].till = t /\ ordr[o].method = "cash"})

\* The cash that customers' credit and cash sales were made from is the cash that
\* went through the drawers: cash_topup_source is never drawn on without it.
CashBacksCredit == balance["cash_topup_source"] = balance["cash_entry"] + balance["cash_exit"]

\* However often a customer changes the wristband, the one an order was booked with
\* leads to the customer, now or in the history.
TagsAreTraceable == \A o \in Booked :
    ordr[o].customer # Nobody =>
        \/ tagOf[ordr[o].customer] = ordr[o].tag
        \/ <<ordr[o].customer, ordr[o].tag>> \in tagHistory

Purses == Customers \X {"money", "vouchers"}

\* What an order adds to the purses of the customers, and what is in them.
EffectOn(o, p) ==
    IF o \in Booked /\ ordr[o].customer = p[1]
    THEN IF p[2] = "money" THEN MoneyEffect(ordr[o]) ELSE -ordr[o].vouchers
    ELSE 0
Effect == [o \in Orders |-> [p \in Purses |-> EffectOn(o, p)]]
Purse == [p \in Purses |->
            IF p[2] = "money" THEN balance[p[1]] ELSE vouchers[p[1]]]
Stage == [o \in Orders |-> IF o \in cancelled THEN "undone"
                           ELSE IF o \in Booked THEN "standing" ELSE "open"]

Promise == INSTANCE SalePromise WITH
    stage <- Stage, effect <- Effect, purse <- Purse, granted <- 0 - vouchers["voucher_create"]

\* Orders keep the promise of SalePromise: each counts once, for one customer, is undone
\* at most once and as a whole, is edited in one go, and puts nobody into debt.
ImplementsPromise == Promise!Spec
=============================================================================
