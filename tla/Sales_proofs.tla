---------------------------- MODULE Sales_proofs -----------------------------
(***************************************************************************)
(* Proofs about Sales, for any number of orders, customers and tills, any  *)
(* carts and any amounts.                                                  *)
(*                                                                         *)
(* The operations differ in their checks and bookings, but an order step   *)
(* does one of three things: it books an order, cancels one, or replaces   *)
(* one by another. The first part shows that, the second that these three  *)
(* keep the invariant, the third that they keep the ledger what the orders *)
(* say, the fourth that they are the steps of SalePromise.                 *)
(***************************************************************************)
EXTENDS Sales, Ledger_proofs

\* An order is consistent: a sale has a customer if it is paid by wristband, the
\* others always have one, and only a sale to a customer takes vouchers.
Consistent(row) ==
    /\ row \in Rows
    /\ row.method = "tag" => row.type = "sale"
    /\ row.type = "sale" => (row.method = "tag" <=> row.customer \in Customers)
    /\ row.type # "sale" => row.customer \in Customers
    /\ row.customer \notin Customers => row.vouchers = 0

AllConsistent == \A o \in Booked : Consistent(ordr[o])

\* Whoever has ordered did so with a wristband, so that the account is registered and
\* no free ticket gives it a first one.
OrdersHaveTags == \A o \in Booked : ordr[o].customer \in Customers => ordr[o].tag \in Tags

IInv ==
    /\ TypeOK
    /\ AllConsistent
    /\ NoDebt
    /\ CashBacksCredit
    /\ TagsAreTraceable
    /\ OrdersHaveTags

\* What an order adds to the money and takes from the vouchers of c.
MoneyOf(row, c) == IF row.customer = c THEN MoneyEffect(row) ELSE 0
VouchersOf(row, c) == IF row.customer = c THEN row.vouchers ELSE 0

\* What an order adds to the drawers and to what was earned, and the vouchers it used.
Earnings == CashTills \union {"sale_exit", "deposit"}
Earned(row, a) ==
    IF a \in CashTills
    THEN IF row.till = a /\ row.method = "cash"
         THEN IF row.type = "pay_out" THEN -row.price ELSE Total(row)
         ELSE 0
    ELSE IF row.type # "sale" THEN 0
    ELSE IF a = "sale_exit" THEN row.price ELSE row.deposit
Spent(row) == IF row.type = "sale" THEN row.vouchers ELSE 0

\* What booking, cancelling and editing have in common.
Kept ==
    /\ balance' \in [Accounts -> Int] /\ vouchers' \in [VoucherAccounts -> Int]
    /\ vouchers'["voucher_create"] = vouchers["voucher_create"]
    /\ CashBacksCredit' /\ NoDebt' /\ NoVoucherDebtMade
    /\ UNCHANGED <<tagOf, tagHistory>>

Inserted(o, row) ==
    /\ o \in Orders \ Booked
    /\ Consistent(row)
    /\ row.customer \in Customers => row.tag = tagOf[row.customer] /\ row.tag \in Tags
    /\ ordr' = [x \in Booked \union {o} |-> IF x = o THEN row ELSE ordr[x]]

\* The three things an order step does.
Books(o, row) ==
    /\ Inserted(o, row)
    /\ UNCHANGED cancelled
    /\ \A c \in Customers : /\ balance'[c] = balance[c] + MoneyOf(row, c)
                            /\ vouchers'[c] = vouchers[c] - VouchersOf(row, c)
    /\ \A a \in Earnings : balance'[a] = balance[a] + Earned(row, a)
    /\ vouchers'["sale_exit"] = vouchers["sale_exit"] + Spent(row)
    /\ Kept

Cancels(o) ==
    /\ o \in Booked \ cancelled
    /\ ordr[o].type = "sale" /\ ordr[o].method = "tag"
    /\ cancelled' = cancelled \union {o}
    /\ UNCHANGED ordr
    /\ \A c \in Customers : /\ balance'[c] = balance[c] - MoneyOf(ordr[o], c)
                            /\ vouchers'[c] = vouchers[c] + VouchersOf(ordr[o], c)
    /\ \A a \in Earnings : balance'[a] = balance[a] - Earned(ordr[o], a)
    /\ vouchers'["sale_exit"] = vouchers["sale_exit"] - Spent(ordr[o])
    /\ Kept

Replaces(o, n, row) ==
    /\ o \in Booked \ cancelled
    /\ ordr[o].type = "sale" /\ ordr[o].method = "tag"
    /\ cancelled' = cancelled \union {o}
    /\ row.customer = ordr[o].customer
    /\ Inserted(n, row)
    /\ \A c \in Customers :
          /\ balance'[c] = balance[c] - MoneyOf(ordr[o], c) + MoneyOf(row, c)
          /\ vouchers'[c] = vouchers[c] + VouchersOf(ordr[o], c) - VouchersOf(row, c)
    /\ \A a \in Earnings :
          balance'[a] = balance[a] - Earned(ordr[o], a) + Earned(row, a)
    /\ vouchers'["sale_exit"] = vouchers["sale_exit"] - Spent(ordr[o]) + Spent(row)
    /\ Kept

-----------------------------------------------------------------------------
(* Bookings. *)

\* System accounts are accounts, and nobody else's.
LEMMA AccountFacts ==
    /\ SystemAccounts \subseteq Accounts /\ Customers \subseteq Accounts
    /\ CashTills \subseteq Accounts /\ CashTills \subseteq Tills
    /\ Customers \intersect CashTills = {}
    /\ Customers \intersect SystemAccounts = {}
    /\ CashTills \intersect SystemAccounts = {}
    /\ Nobody \notin Customers /\ "voucher_create" \notin Customers
    /\ Customers \subseteq VoucherAccounts
    /\ "sale_exit" \in VoucherAccounts /\ "voucher_create" \in VoucherAccounts
BY AccountsAssumption DEF Accounts, VoucherAccounts, SystemAccounts

\* How much credit is not backed by cash: nothing, as it turns out.
Unbacked(b) == b["cash_topup_source"] - b["cash_entry"] - b["cash_exit"]

\* A sale takes its total from its customer, if there is one.
LEMMA SoldFacts ==
    ASSUME NEW b \in [Accounts -> Int], NEW row, Consistent(row), row.type = "sale",
           row.method = "cash" => row.till \in CashTills
    PROVE  /\ Sold(b, row) \in [Accounts -> Int]
           /\ \A c \in Customers : Sold(b, row)[c] = b[c] + MoneyOf(row, c)
           /\ \A a \in Earnings : Sold(b, row)[a] = b[a] + Earned(row, a)
           /\ Unbacked(Sold(b, row)) = Unbacked(b)
<1> DEFINE source == Source(row)
           goods == BookTransaction(b, source, "sale_exit", row.price)
           paid == BookTransaction(goods, source, "deposit", row.deposit)
<1>1. /\ row.price \in Int /\ row.deposit \in Int /\ Total(row) \in Int
      /\ row.method \in {"tag", "cash", "sumup"}
  BY DEF Consistent, Rows, Total
<1>2. /\ {"sale_exit", "deposit", "cash_topup_source", "cash_entry", "cash_exit"} \subseteq Accounts
      /\ "sale_exit" \notin Customers /\ "deposit" \notin Customers
      /\ "cash_topup_source" \notin Customers /\ "cash_entry" \notin Customers
      /\ "cash_exit" \notin Customers /\ "sumup_entry" \notin Customers
  BY AccountFacts DEF SystemAccounts
<1>3. /\ source \in Accounts /\ source # "sale_exit" /\ source # "deposit"
      /\ source # "cash_entry" /\ source # "cash_exit"
      /\ \A c \in Customers : source = c <=> (row.method = "tag" /\ row.customer = c)
      /\ source = "cash_topup_source" <=> row.method = "cash"
  BY <1>1, <1>2, AccountFacts DEF Source, Consistent, SystemAccounts
<1> HIDE DEF source
<1>a. /\ source \in Accounts /\ source # "sale_exit" /\ source # "deposit"
      /\ "sale_exit" \in Accounts /\ "deposit" \in Accounts
      /\ row.price \in Int /\ row.deposit \in Int
  BY <1>1, <1>2, <1>3
<1>4. /\ goods \in [Accounts -> Int]
      /\ \A a \in Accounts : goods[a] =
            IF a = source THEN b[a] - row.price
            ELSE IF a = "sale_exit" THEN b[a] + row.price ELSE b[a]
  BY <1>a DEF BookTransaction, Post, Transaction
<1> HIDE DEF goods
<1>5. /\ paid \in [Accounts -> Int]
      /\ \A a \in Accounts : paid[a] =
            IF a = source THEN goods[a] - row.deposit
            ELSE IF a = "deposit" THEN goods[a] + row.deposit ELSE goods[a]
  BY <1>a, <1>4 DEF BookTransaction, Post, Transaction
<1>6. Sold(b, row) = IF row.method = "cash"
                     THEN BookTransaction(paid, "cash_entry", row.till, Total(row))
                     ELSE paid
  BY DEF Sold, source, goods, paid
<1> HIDE DEF paid
<1>7. \A c \in Customers : paid[c] = b[c] + MoneyOf(row, c)
  <2> TAKE c \in Customers
  <2>1. c \in Accounts /\ c # "sale_exit" /\ c # "deposit" /\ b[c] \in Int
    BY <1>2, AccountFacts
  <2>2. source = c <=> row.customer = c
    BY <1>3, AccountFacts DEF Consistent
  <2> QED
    BY <1>1, <1>4, <1>5, <2>1, <2>2 DEF MoneyOf, MoneyEffect, Total
<1>8. /\ paid["cash_topup_source"] = IF row.method = "cash"
                                     THEN b["cash_topup_source"] - Total(row)
                                     ELSE b["cash_topup_source"]
      /\ paid["cash_entry"] = b["cash_entry"] /\ paid["cash_exit"] = b["cash_exit"]
  BY <1>1, <1>2, <1>3, <1>4, <1>5 DEF Total
<1>b. /\ \A t \in CashTills : paid[t] = b[t] /\ t \in Accounts
      /\ paid["sale_exit"] = b["sale_exit"] + row.price
      /\ paid["deposit"] = b["deposit"] + row.deposit
  <2>1. \A t \in CashTills : /\ t \in Accounts /\ t # "sale_exit" /\ t # "deposit"
                             /\ t # source
    BY <1>1, AccountFacts DEF Source, Consistent, SystemAccounts, source
  <2> QED
    BY <1>1, <1>2, <1>3, <1>4, <1>5, <2>1
<1>c. \A a \in Earnings : /\ a \in Accounts /\ a # "cash_entry" /\ b[a] \in Int
                          /\ a \notin CashTills => a \in {"sale_exit", "deposit"}
                          /\ a \in CashTills => a \notin {"sale_exit", "deposit"}
  BY AccountFacts DEF Earnings, SystemAccounts
<1>9. CASE row.method = "cash"
  <2>1. /\ row.till \in Accounts /\ row.till \notin Customers
        /\ row.till \notin {"cash_entry", "cash_exit", "cash_topup_source"}
    BY <1>9, AccountFacts DEF SystemAccounts
  <2>2. /\ Sold(b, row) \in [Accounts -> Int]
        /\ \A a \in Accounts : Sold(b, row)[a] =
              IF a = "cash_entry" THEN paid[a] - Total(row)
              ELSE IF a = row.till THEN paid[a] + Total(row) ELSE paid[a]
    BY <1>1, <1>2, <1>5, <1>6, <1>9, <2>1 DEF BookTransaction, Post, Transaction
  <2>3. \A c \in Customers : Sold(b, row)[c] = paid[c]
    BY <1>2, <2>1, <2>2, AccountFacts
  <2>4. \A a \in Earnings : Sold(b, row)[a] = b[a] + Earned(row, a)
    <3> TAKE a \in Earnings
    <3>1. CASE a \in CashTills
      <4>1. Sold(b, row)[a] = IF a = row.till THEN b[a] + Total(row) ELSE b[a]
        BY <1>b, <1>c, <2>2, <3>1
      <4>2. Earned(row, a) = IF a = row.till THEN Total(row) ELSE 0
        BY <1>9, <3>1 DEF Earned
      <4> QED
        BY <1>1, <1>c, <4>1, <4>2
    <3>2. CASE a \notin CashTills
      <4>1. a # row.till
        BY <1>9, <3>2
      <4>2. Sold(b, row)[a] = paid[a]
        BY <1>c, <2>2, <4>1
      <4>3. Earned(row, a) = IF a = "sale_exit" THEN row.price ELSE row.deposit
        BY <3>2 DEF Earned
      <4> QED
        BY <1>b, <1>c, <3>2, <4>2, <4>3
    <3> QED
      BY <3>1, <3>2
  <2>5. Unbacked(Sold(b, row)) = Unbacked(b)
    BY <1>1, <1>2, <1>8, <1>9, <2>1, <2>2 DEF Unbacked
  <2> QED
    BY <1>7, <2>2, <2>3, <2>4, <2>5
<1>10. CASE row.method # "cash"
  <2>1. \A a \in Earnings : paid[a] = b[a] + Earned(row, a)
    <3> TAKE a \in Earnings
    <3>1. CASE a \in CashTills
      <4>1. Earned(row, a) = 0
        BY <1>10, <3>1 DEF Earned
      <4> QED
        BY <1>b, <1>c, <3>1, <4>1
    <3>2. CASE a \notin CashTills
      <4>1. Earned(row, a) = IF a = "sale_exit" THEN row.price ELSE row.deposit
        BY <3>2 DEF Earned
      <4> QED
        BY <1>b, <1>c, <3>2, <4>1
    <3> QED
      BY <3>1, <3>2
  <2> QED
    BY <1>5, <1>6, <1>7, <1>8, <1>10, <2>1 DEF Unbacked
<1> QED
  BY <1>9, <1>10

\* Undoing a sale by wristband gives the customer the total back.
LEMMA RefundedFacts ==
    ASSUME NEW b \in [Accounts -> Int], NEW row, Consistent(row), row.method = "tag"
    PROVE  /\ Refunded(b, row) \in [Accounts -> Int]
           /\ \A c \in Customers : Refunded(b, row)[c] = b[c] - MoneyOf(row, c)
           /\ \A a \in Earnings : Refunded(b, row)[a] = b[a] - Earned(row, a)
           /\ Unbacked(Refunded(b, row)) = Unbacked(b)
<1> DEFINE goods == BookTransaction(b, "sale_exit", row.customer, row.price)
<1>1. /\ row.price \in Int /\ row.deposit \in Int /\ row.type = "sale"
      /\ row.customer \in Customers
  BY DEF Consistent, Rows
<1>2. /\ {"sale_exit", "deposit", "cash_topup_source", "cash_entry", "cash_exit"} \subseteq Accounts
      /\ row.customer \in Accounts
      /\ \A c \in Customers : c \notin {"sale_exit", "deposit", "cash_topup_source",
                                        "cash_entry", "cash_exit"}
  BY <1>1, AccountFacts DEF SystemAccounts
<1>3. /\ goods \in [Accounts -> Int]
      /\ \A a \in Accounts : goods[a] =
            IF a = "sale_exit" THEN b[a] - row.price
            ELSE IF a = row.customer THEN b[a] + row.price ELSE b[a]
  BY <1>1, <1>2 DEF BookTransaction, Post, Transaction
<1>4. Refunded(b, row) = BookTransaction(goods, "deposit", row.customer, row.deposit)
  BY DEF Refunded
<1> HIDE DEF goods
<1>5. /\ Refunded(b, row) \in [Accounts -> Int]
      /\ \A a \in Accounts : Refunded(b, row)[a] =
            IF a = "deposit" THEN goods[a] - row.deposit
            ELSE IF a = row.customer THEN goods[a] + row.deposit ELSE goods[a]
  BY <1>1, <1>2, <1>3, <1>4 DEF BookTransaction, Post, Transaction
<1>6. \A c \in Customers : Refunded(b, row)[c] = b[c] - MoneyOf(row, c)
  BY <1>1, <1>2, <1>3, <1>5, AccountFacts DEF MoneyOf, MoneyEffect, Total
<1>7. \A a \in Earnings : Refunded(b, row)[a] = b[a] - Earned(row, a)
  <2> TAKE a \in Earnings
  <2>1. /\ a \in Accounts /\ a # row.customer /\ b[a] \in Int
        /\ a \notin CashTills => a \in {"sale_exit", "deposit"}
        /\ a \in CashTills => a \notin {"sale_exit", "deposit"}
    BY <1>1, AccountFacts DEF Earnings, SystemAccounts
  <2> QED
    BY <1>1, <1>3, <1>5, <2>1 DEF Earned
<1> QED
  BY <1>1, <1>2, <1>3, <1>5, <1>6, <1>7 DEF Unbacked

\* Top-ups and pay-outs move the same amount through customer and drawer.
LEMMA CashOrderFacts ==
    ASSUME NEW b \in [Accounts -> Int], NEW row, Consistent(row), row.type # "sale",
           row.till \in CashTills, row.method = "cash", row.deposit = 0
    PROVE  /\ row.type = "top_up" =>
                 /\ ToppedUp(b, row) \in [Accounts -> Int]
                 /\ \A c \in Customers : ToppedUp(b, row)[c] = b[c] + MoneyOf(row, c)
                 /\ \A a \in Earnings : ToppedUp(b, row)[a] = b[a] + Earned(row, a)
                 /\ Unbacked(ToppedUp(b, row)) = Unbacked(b)
           /\ row.type = "pay_out" =>
                 /\ PaidOut(b, row) \in [Accounts -> Int]
                 /\ \A c \in Customers : PaidOut(b, row)[c] = b[c] + MoneyOf(row, c)
                 /\ \A a \in Earnings : PaidOut(b, row)[a] = b[a] + Earned(row, a)
                 /\ Unbacked(PaidOut(b, row)) = Unbacked(b)
<1> DEFINE credited == BookTransaction(b, "cash_topup_source", row.customer, row.price)
           debited == BookTransaction(b, row.customer, "cash_topup_source", row.price)
<1>1. row.price \in Int /\ row.customer \in Customers
  BY DEF Consistent, Rows
<1>2. /\ {"cash_topup_source", "cash_entry", "cash_exit"} \subseteq Accounts
      /\ row.customer \in Accounts /\ row.till \in Accounts
      /\ row.till \notin {"cash_topup_source", "cash_entry", "cash_exit"}
      /\ \A c \in Customers : c \notin {"cash_topup_source", "cash_entry", "cash_exit", row.till}
  BY <1>1, AccountFacts DEF SystemAccounts
<1>3. /\ credited \in [Accounts -> Int]
      /\ \A a \in Accounts : credited[a] =
            IF a = "cash_topup_source" THEN b[a] - row.price
            ELSE IF a = row.customer THEN b[a] + row.price ELSE b[a]
  BY <1>1, <1>2 DEF BookTransaction, Post, Transaction
<1>4. /\ debited \in [Accounts -> Int]
      /\ \A a \in Accounts : debited[a] =
            IF a = row.customer THEN b[a] - row.price
            ELSE IF a = "cash_topup_source" THEN b[a] + row.price ELSE b[a]
  BY <1>1, <1>2 DEF BookTransaction, Post, Transaction
<1>5. /\ ToppedUp(b, row) = BookTransaction(credited, "cash_entry", row.till, row.price)
      /\ PaidOut(b, row) = BookTransaction(debited, row.till, "cash_exit", row.price)
  BY DEF ToppedUp, PaidOut
<1> HIDE DEF credited, debited
<1>6. /\ ToppedUp(b, row) \in [Accounts -> Int]
      /\ \A a \in Accounts : ToppedUp(b, row)[a] =
            IF a = "cash_entry" THEN credited[a] - row.price
            ELSE IF a = row.till THEN credited[a] + row.price ELSE credited[a]
  BY <1>1, <1>2, <1>3, <1>5 DEF BookTransaction, Post, Transaction
<1>7. /\ PaidOut(b, row) \in [Accounts -> Int]
      /\ \A a \in Accounts : PaidOut(b, row)[a] =
            IF a = row.till THEN debited[a] - row.price
            ELSE IF a = "cash_exit" THEN debited[a] + row.price ELSE debited[a]
  BY <1>1, <1>2, <1>4, <1>5 DEF BookTransaction, Post, Transaction
<1>a. \A a \in Earnings : /\ a \in Accounts /\ b[a] \in Int /\ a # row.customer
                          /\ a \notin {"cash_topup_source", "cash_entry", "cash_exit"}
  BY <1>1, AccountFacts DEF Earnings, SystemAccounts
<1>8. CASE row.type = "top_up"
  <2>1. \A a \in Earnings : ToppedUp(b, row)[a] = b[a] + Earned(row, a)
    BY <1>1, <1>a, <1>3, <1>6, <1>8 DEF Earned, Total
  <2> QED
    BY <1>1, <1>2, <1>3, <1>6, <1>8, <2>1, AccountFacts DEF Unbacked, MoneyOf, MoneyEffect
<1>9. CASE row.type = "pay_out"
  <2>1. \A a \in Earnings : PaidOut(b, row)[a] = b[a] + Earned(row, a)
    BY <1>1, <1>a, <1>4, <1>7, <1>9 DEF Earned
  <2> QED
    BY <1>1, <1>2, <1>4, <1>7, <1>9, <2>1, AccountFacts DEF Unbacked, MoneyOf, MoneyEffect
<1> QED
  BY <1>8, <1>9

\* Vouchers are taken from, and given back to, the customer of the order.
LEMMA VoucherFacts ==
    ASSUME NEW v \in [VoucherAccounts -> Int], NEW row, Consistent(row)
    PROVE  /\ Used(v, row) \in [VoucherAccounts -> Int]
           /\ Returned(v, row) \in [VoucherAccounts -> Int]
           /\ \A c \in Customers : /\ Used(v, row)[c] = v[c] - VouchersOf(row, c)
                                   /\ Returned(v, row)[c] = v[c] + VouchersOf(row, c)
           /\ Used(v, row)["sale_exit"] = v["sale_exit"] + row.vouchers
           /\ Returned(v, row)["sale_exit"] = v["sale_exit"] - row.vouchers
           /\ Used(v, row)["voucher_create"] = v["voucher_create"]
           /\ Returned(v, row)["voucher_create"] = v["voucher_create"]
<1>1. /\ row.vouchers \in Nat
      /\ \A c \in Customers : c \in VoucherAccounts /\ c # "sale_exit"
  BY AccountFacts DEF Consistent, Rows, SystemAccounts
<1>2. CASE row.vouchers = 0
  BY <1>1, <1>2, AccountFacts DEF Used, Returned, VouchersOf
<1>3. CASE row.vouchers > 0
  <2>1. /\ row.customer \in Customers /\ row.customer \in VoucherAccounts
        /\ row.customer # "sale_exit" /\ row.customer # "voucher_create"
    BY <1>1, <1>3, AccountFacts DEF Consistent
  <2> DEFINE used == BookTransaction(v, row.customer, "sale_exit", row.vouchers)
             returned == BookTransaction(v, "sale_exit", row.customer, row.vouchers)
  <2>2. /\ used \in [VoucherAccounts -> Int]
        /\ \A a \in VoucherAccounts : used[a] =
              IF a = row.customer THEN v[a] - row.vouchers
              ELSE IF a = "sale_exit" THEN v[a] + row.vouchers ELSE v[a]
    BY <1>1, <2>1, AccountFacts DEF BookTransaction, Post, Transaction
  <2>3. /\ returned \in [VoucherAccounts -> Int]
        /\ \A a \in VoucherAccounts : returned[a] =
              IF a = "sale_exit" THEN v[a] - row.vouchers
              ELSE IF a = row.customer THEN v[a] + row.vouchers ELSE v[a]
    BY <1>1, <2>1, AccountFacts DEF BookTransaction, Post, Transaction
  <2>4. Used(v, row) = used /\ Returned(v, row) = returned
    BY <1>3 DEF Used, Returned
  <2> HIDE DEF used, returned
  <2> QED
    BY <1>1, <2>1, <2>2, <2>3, <2>4, AccountFacts DEF VouchersOf
<1> QED
  BY <1>1, <1>2, <1>3

-----------------------------------------------------------------------------
(* The orders of the operations. *)

\* Vouchers pay for goods that are in the cart.
LEMMA RedeemedFacts ==
    ASSUME NEW cart \in Carts, NEW limit \in Int
    PROVE  /\ Redeemed(cart, limit) \in Nat
           /\ Redeemed(cart, limit) = 0 \/ Redeemed(cart, limit) <= limit
           /\ cart.goods - Redeemed(cart, limit) * cart.worth \in Nat
<1>1. /\ cart.goods \in Nat /\ cart.takes \in Nat /\ cart.worth \in Nat
      /\ cart.takes * cart.worth <= cart.goods
  BY CartsAssumption
<1>2. /\ Redeemed(cart, limit) \in Nat /\ Redeemed(cart, limit) <= cart.takes
      /\ Redeemed(cart, limit) = 0 \/ Redeemed(cart, limit) <= limit
  BY <1>1 DEF Redeemed
<1>3. \A a, b, w \in Nat : a <= b => a * w \in Nat /\ a * w <= b * w
  OBVIOUS
<1> QED
  BY <1>1, <1>2, <1>3

LEMMA SaleIsConsistent ==
    ASSUME NEW t \in Tills, NEW method, NEW c, NEW tag \in Tags \union {NoTag},
           NEW cart \in Carts, NEW limit \in Int,
           \/ method = "tag" /\ c \in Customers
           \/ method \in {"cash", "sumup"} /\ c = Nobody /\ limit = 0
    PROVE  /\ Consistent(Sale(t, method, c, tag, cart, limit))
           /\ LET used == Sale(t, method, c, tag, cart, limit).vouchers
              IN  used = 0 \/ used <= limit
<1>1. /\ Redeemed(cart, limit) \in Nat
      /\ Redeemed(cart, limit) = 0 \/ Redeemed(cart, limit) <= limit
      /\ cart.goods - Redeemed(cart, limit) * cart.worth \in Nat
      /\ cart.deposit \in Int
  BY RedeemedFacts, CartsAssumption
<1>2. Nobody \notin Customers
  BY AccountFacts
<1> QED
  BY <1>1, <1>2 DEF Consistent, Rows, Sale

LEMMA CashOrderIsConsistent ==
    ASSUME NEW type \in {"top_up", "pay_out"}, NEW t \in Tills, NEW c \in Customers,
           NEW tag \in Tags, NEW amount \in Nat
    PROVE  Consistent(CashOrder(type, t, c, tag, amount))
BY DEF Consistent, Rows, CashOrder

\* Credit stays backed by a booking that leaves Unbacked alone.
LEMMA BackedByUnbacked ==
    ASSUME NEW b \in [Accounts -> Int]
    PROVE  Unbacked(b) = 0 <=> b["cash_topup_source"] = b["cash_entry"] + b["cash_exit"]
<1>1. {"cash_topup_source", "cash_entry", "cash_exit"} \subseteq Accounts
  BY AccountFacts DEF SystemAccounts
<1> QED
  BY <1>1 DEF Unbacked

\* What the steps below have to show, in one place.
LEMMA KeptBy ==
    ASSUME IInv, NEW b, b \in [Accounts -> Int], Unbacked(b) = 0, balance' = b,
           CheckAccountBalance,
           vouchers' \in [VoucherAccounts -> Int],
           vouchers'["voucher_create"] = vouchers["voucher_create"],
           NoVoucherDebtMade,
           UNCHANGED <<tagOf, tagHistory>>
    PROVE  Kept
<1>1. \A c \in Customers : balance'[c] >= 0
  BY AccountFacts DEF CheckAccountBalance, IsBalanceNegative
<1>2. CashBacksCredit'
  BY BackedByUnbacked DEF CashBacksCredit
<1> QED
  BY <1>1, <1>2 DEF Kept, NoDebt

LEMMA StateFacts ==
    ASSUME IInv
    PROVE  /\ balance \in [Accounts -> Int] /\ vouchers \in [VoucherAccounts -> Int]
           /\ Unbacked(balance) = 0
           /\ \A c \in Customers : vouchers[c] \in Int /\ balance[c] \in Nat
<1>1. /\ balance \in [Accounts -> Int] /\ vouchers \in [VoucherAccounts -> Int]
      /\ CashBacksCredit /\ NoDebt
  BY DEF IInv, TypeOK
<1> QED
  BY <1>1, BackedByUnbacked, AccountFacts DEF CashBacksCredit, NoDebt

LEMMA BookSaleBooks ==
    ASSUME IInv, NEW o \in Orders, NEW t \in Tills, NEW tag \in Tags, NEW cart \in Carts,
           BookSale(o, t, tag, cart)
    PROVE  \E row : Books(o, row)
<1>1. PICK c \in Holder(tag) : \E limit \in Limits(vouchers[c]) :
         LET row == Sale(t, "tag", c, tag, cart, limit) IN
         /\ CheckSale(o, row, limit, balance, vouchers)
         /\ BookOrder(o, row, Sold(balance, row), balance)
         /\ vouchers' = Used(vouchers, row)
         /\ CheckAccountBalance
         /\ UNCHANGED <<tagOf, tagHistory, cancelled>>
  BY DEF BookSale
<1>a. PICK limit \in Limits(vouchers[c]) :
         LET row == Sale(t, "tag", c, tag, cart, limit) IN
         /\ CheckSale(o, row, limit, balance, vouchers)
         /\ BookOrder(o, row, Sold(balance, row), balance)
         /\ vouchers' = Used(vouchers, row)
         /\ CheckAccountBalance
         /\ UNCHANGED <<tagOf, tagHistory, cancelled>>
  BY <1>1
<1> DEFINE row == Sale(t, "tag", c, tag, cart, limit)
<1>2. c \in Customers /\ tagOf[c] = tag /\ limit \in Int
  BY AmountsAssumption, StateFacts DEF Holder, Limits
<1>3. Consistent(row) /\ (row.vouchers = 0 \/ row.vouchers <= limit)
  BY <1>2, SaleIsConsistent
<1>4. row.type = "sale" /\ row.method = "tag" /\ row.customer = c /\ row.tag = tag
  BY DEF Sale
<1> HIDE DEF row
<1>5. o \notin Booked /\ limit <= vouchers[c]
  BY <1>a, <1>4 DEF CheckSale, Unknown, row
<1>6. /\ ordr' = [x \in Booked \union {o} |-> IF x = o THEN row ELSE ordr[x]]
      /\ balance' = Sold(balance, row)
      /\ vouchers' = Used(vouchers, row)
      /\ CheckAccountBalance
      /\ UNCHANGED <<tagOf, tagHistory, cancelled>>
  BY <1>a, <1>5 DEF BookOrder, row
<1>7. /\ Sold(balance, row) \in [Accounts -> Int] /\ Unbacked(Sold(balance, row)) = 0
      /\ \A d \in Customers : balance'[d] = balance[d] + MoneyOf(row, d)
      /\ \A a \in Earnings : balance'[a] = balance[a] + Earned(row, a)
  BY <1>3, <1>4, <1>6, SoldFacts, StateFacts
<1>8. /\ vouchers' \in [VoucherAccounts -> Int]
      /\ vouchers'["voucher_create"] = vouchers["voucher_create"]
      /\ \A d \in Customers : vouchers'[d] = vouchers[d] - VouchersOf(row, d)
      /\ vouchers'["sale_exit"] = vouchers["sale_exit"] + Spent(row)
  BY <1>3, <1>4, <1>6, VoucherFacts, StateFacts DEF Spent
<1>9. NoVoucherDebtMade
  BY <1>2, <1>3, <1>4, <1>5, <1>8, StateFacts
     DEF NoVoucherDebtMade, VouchersOf, Consistent, Rows
<1>10. Kept
  BY <1>6, <1>7, <1>8, <1>9, KeptBy
<1> QED
  BY <1>2, <1>3, <1>4, <1>5, <1>6, <1>7, <1>8, <1>10 DEF Books, Inserted

LEMMA BookAnonymousSaleBooks ==
    ASSUME IInv, NEW o \in Orders, NEW t \in Tills, NEW method \in {"cash", "sumup"},
           NEW cart \in Carts, BookAnonymousSale(o, t, method, cart)
    PROVE  \E row : Books(o, row)
<1> DEFINE row == Sale(t, method, Nobody, NoTag, cart, 0)
<1>1. Consistent(row) /\ (row.vouchers = 0 \/ row.vouchers <= 0)
  BY SaleIsConsistent
<1>2. /\ row.type = "sale" /\ row.method = method /\ row.customer = Nobody
      /\ row.till = t
  BY DEF Sale
<1>3. Nobody \notin Customers
  BY AccountFacts
<1> HIDE DEF row
<1>4. /\ o \notin Booked /\ (method = "cash" => t \in CashTills)
      /\ ordr' = [x \in Booked \union {o} |-> IF x = o THEN row ELSE ordr[x]]
      /\ balance' = Sold(balance, row)
      /\ CheckAccountBalance
      /\ UNCHANGED <<tagOf, tagHistory, cancelled, vouchers>>
  BY DEF BookAnonymousSale, BookOrder, Unknown, row
<1>5. /\ Sold(balance, row) \in [Accounts -> Int] /\ Unbacked(Sold(balance, row)) = 0
      /\ \A d \in Customers : balance'[d] = balance[d] + MoneyOf(row, d)
      /\ \A a \in Earnings : balance'[a] = balance[a] + Earned(row, a)
  BY <1>1, <1>2, <1>4, SoldFacts, StateFacts
<1>a. vouchers'["sale_exit"] = vouchers["sale_exit"] + Spent(row)
  <2>1. row.vouchers = 0
    BY <1>1 DEF Consistent, Rows
  <2> QED
    BY <1>4, <2>1, StateFacts, AccountFacts DEF Spent
<1>6. NoVoucherDebtMade /\ \A d \in Customers : vouchers'[d] = vouchers[d] - VouchersOf(row, d)
  BY <1>2, <1>3, <1>4, StateFacts DEF NoVoucherDebtMade, VouchersOf
<1>7. Kept
  BY <1>4, <1>5, <1>6, KeptBy, StateFacts
<1> QED
  BY <1>1, <1>2, <1>3, <1>4, <1>5, <1>6, <1>7, <1>a DEF Books, Inserted

LEMMA CashOrderBooks ==
    ASSUME IInv, NEW o \in Orders, NEW t \in Tills, NEW tag \in Tags,
           \/ \E amount \in TopUps : BookTopup(o, t, tag, amount)
           \/ BookPayOut(o, t, tag)
    PROVE  \E row : Books(o, row)
<1>1. PICK c \in Holder(tag), type \in {"top_up", "pay_out"}, amount \in Nat :
         LET row == CashOrder(type, t, c, tag, amount) IN
         /\ Unknown(o)
         /\ t \in CashTills
         /\ BookOrder(o, row, IF type = "top_up" THEN ToppedUp(balance, row)
                              ELSE PaidOut(balance, row), balance)
         /\ CheckAccountBalance
         /\ UNCHANGED <<tagOf, tagHistory, cancelled, vouchers>>
  <2>1. CASE \E amount \in TopUps : BookTopup(o, t, tag, amount)
    BY <2>1, AmountsAssumption DEF BookTopup
  <2>2. CASE BookPayOut(o, t, tag)
    <3>1. PICK c \in Holder(tag) : \E amount \in PayOuts \union {balance[c]} :
             LET row == CashOrder("pay_out", t, c, tag, amount) IN
             /\ Unknown(o)
             /\ t \in CashTills
             /\ BookOrder(o, row, PaidOut(balance, row), balance)
             /\ CheckAccountBalance
             /\ UNCHANGED <<tagOf, tagHistory, cancelled, vouchers>>
      BY <2>2 DEF BookPayOut
    <3>2. PayOuts \union {balance[c]} \subseteq Nat
      BY AmountsAssumption, StateFacts DEF Holder
    <3> QED
      BY <3>1, <3>2
  <2> QED
    BY <2>1, <2>2
<1> DEFINE row == CashOrder(type, t, c, tag, amount)
<1>2. c \in Customers /\ tagOf[c] = tag
  BY DEF Holder
<1>3. Consistent(row)
  BY <1>2, CashOrderIsConsistent
<1>4. /\ row.type = type /\ row.customer = c /\ row.tag = tag /\ row.till = t
      /\ row.vouchers = 0 /\ row.method = "cash" /\ row.deposit = 0
  BY DEF CashOrder
<1> HIDE DEF row
<1>5. /\ o \notin Booked /\ t \in CashTills
      /\ ordr' = [x \in Booked \union {o} |-> IF x = o THEN row ELSE ordr[x]]
      /\ balance' = IF type = "top_up" THEN ToppedUp(balance, row) ELSE PaidOut(balance, row)
      /\ CheckAccountBalance
      /\ UNCHANGED <<tagOf, tagHistory, cancelled, vouchers>>
  BY <1>1 DEF BookOrder, Unknown, row
<1>6. /\ balance' \in [Accounts -> Int] /\ Unbacked(balance') = 0
      /\ \A d \in Customers : balance'[d] = balance[d] + MoneyOf(row, d)
      /\ \A a \in Earnings : balance'[a] = balance[a] + Earned(row, a)
  BY <1>3, <1>4, <1>5, CashOrderFacts, StateFacts
<1>a. vouchers'["sale_exit"] = vouchers["sale_exit"] + Spent(row)
  BY <1>4, <1>5, StateFacts, AccountFacts DEF Spent
<1>7. NoVoucherDebtMade /\ \A d \in Customers : vouchers'[d] = vouchers[d] - VouchersOf(row, d)
  BY <1>4, <1>5, StateFacts DEF NoVoucherDebtMade, VouchersOf
<1>8. Kept
  BY <1>5, <1>6, <1>7, KeptBy, StateFacts
<1> QED
  BY <1>2, <1>3, <1>4, <1>5, <1>6, <1>7, <1>8, <1>a DEF Books, Inserted

LEMMA CancelSaleCancels ==
    ASSUME IInv, NEW o \in Orders, NEW t \in Tills, CancelSale(o, t)
    PROVE  Cancels(o)
<1> DEFINE row == ordr[o]
<1>1. /\ o \in Booked \ cancelled /\ row.type = "sale" /\ row.method = "tag"
      /\ Consistent(row) /\ row.customer \in Customers
  BY DEF CancelSale, Cancellable, IInv, AllConsistent, Consistent
<1>2. /\ cancelled' = cancelled \union {o} /\ balance' = Refunded(balance, row)
      /\ vouchers' = Returned(vouchers, row) /\ CheckAccountBalance
      /\ UNCHANGED <<tagOf, tagHistory, ordr>>
  BY DEF CancelSale
<1> HIDE DEF row
<1>3. /\ Refunded(balance, row) \in [Accounts -> Int] /\ Unbacked(Refunded(balance, row)) = 0
      /\ \A d \in Customers : balance'[d] = balance[d] - MoneyOf(row, d)
      /\ \A a \in Earnings : balance'[a] = balance[a] - Earned(row, a)
  BY <1>1, <1>2, RefundedFacts, StateFacts
<1>4. /\ vouchers' \in [VoucherAccounts -> Int]
      /\ vouchers'["voucher_create"] = vouchers["voucher_create"]
      /\ \A d \in Customers : vouchers'[d] = vouchers[d] + VouchersOf(row, d)
      /\ vouchers'["sale_exit"] = vouchers["sale_exit"] - Spent(row)
  BY <1>1, <1>2, VoucherFacts, StateFacts DEF Spent
<1>5. NoVoucherDebtMade
  BY <1>1, <1>4, StateFacts DEF NoVoucherDebtMade, VouchersOf, Consistent, Rows
<1>6. Kept
  BY <1>2, <1>3, <1>4, <1>5, KeptBy
<1> QED
  BY <1>1, <1>2, <1>3, <1>4, <1>6 DEF Cancels, row

LEMMA EditSaleReplaces ==
    ASSUME IInv, NEW o \in Orders, NEW n \in Orders, NEW cart \in Carts,
           EditSale(o, n, cart)
    PROVE  \E row : Replaces(o, n, row)
<1> DEFINE old == ordr[o]
           c == old.customer
           b == Refunded(balance, old)
           v == Returned(vouchers, old)
<1>a. PICK limit \in Limits(v[c]) :
         LET row == Sale(old.till, "tag", c, tagOf[c], cart, limit) IN
         /\ CheckSale(n, row, limit, b, v)
         /\ BookOrder(n, row, Sold(b, row), b)
         /\ vouchers' = Used(v, row)
  BY DEF EditSale
<1> DEFINE row == Sale(old.till, "tag", c, tagOf[c], cart, limit)
<1>1. /\ o \in Booked \ cancelled /\ old.type = "sale" /\ old.method = "tag"
      /\ Consistent(old) /\ c \in Customers /\ old.till \in Tills
  BY DEF EditSale, Cancellable, IInv, AllConsistent, Consistent, Rows
<1>2. /\ CheckSale(n, row, limit, b, v)
      /\ BookOrder(n, row, Sold(b, row), b)
      /\ vouchers' = Used(v, row)
      /\ cancelled' = cancelled \union {o}
      /\ CheckAccountBalance
      /\ UNCHANGED <<tagOf, tagHistory>>
  BY <1>a DEF EditSale
<1>3. tagOf[c] \in Tags /\ limit \in Int
  <2>1. v[c] \in Int
    BY <1>1, VoucherFacts, StateFacts, AccountFacts
  <2> QED
    BY <1>1, <2>1, AmountsAssumption DEF EditSale, IInv, TypeOK, Limits
<1>4. Consistent(row) /\ (row.vouchers = 0 \/ row.vouchers <= limit)
  BY <1>1, <1>3, SaleIsConsistent
<1>5. row.type = "sale" /\ row.method = "tag" /\ row.customer = c /\ row.tag = tagOf[c]
  BY DEF Sale
<1>6. n \notin Booked /\ limit <= v[c]
  BY <1>2, <1>5 DEF CheckSale, Unknown
<1>7. /\ ordr' = [x \in Booked \union {n} |-> IF x = n THEN row ELSE ordr[x]]
      /\ balance' = Sold(b, row)
  BY <1>2, <1>6 DEF BookOrder
<1> HIDE DEF old, c, row
<1>8. /\ b \in [Accounts -> Int] /\ Unbacked(b) = 0
      /\ \A d \in Customers : b[d] = balance[d] - MoneyOf(old, d)
      /\ \A a \in Earnings : b[a] = balance[a] - Earned(old, a)
  BY <1>1, RefundedFacts, StateFacts
<1>9. /\ v \in [VoucherAccounts -> Int]
      /\ v["voucher_create"] = vouchers["voucher_create"]
      /\ \A d \in Customers : v[d] = vouchers[d] + VouchersOf(old, d)
      /\ v["sale_exit"] = vouchers["sale_exit"] - Spent(old)
  BY <1>1, VoucherFacts, StateFacts DEF Spent
<1> HIDE DEF b, v
<1>10. /\ Sold(b, row) \in [Accounts -> Int] /\ Unbacked(Sold(b, row)) = 0
       /\ \A d \in Customers : balance'[d] = b[d] + MoneyOf(row, d)
       /\ \A a \in Earnings : balance'[a] = b[a] + Earned(row, a)
  BY <1>4, <1>5, <1>7, <1>8, SoldFacts
<1>11. /\ vouchers' \in [VoucherAccounts -> Int]
       /\ vouchers'["voucher_create"] = v["voucher_create"]
       /\ \A d \in Customers : vouchers'[d] = v[d] - VouchersOf(row, d)
       /\ vouchers'["sale_exit"] = v["sale_exit"] + Spent(row)
  BY <1>2, <1>4, <1>5, <1>9, VoucherFacts DEF Spent
<1>12. NoVoucherDebtMade
  <2> SUFFICES ASSUME NEW d \in Customers
               PROVE  vouchers'[d] >= 0 \/ vouchers'[d] >= vouchers[d]
    BY DEF NoVoucherDebtMade
  <2>1. vouchers[d] \in Int /\ old.vouchers \in Nat /\ row.vouchers \in Nat
    BY <1>1, <1>4, StateFacts DEF Consistent, Rows
  <2>2. v[d] = vouchers[d] + VouchersOf(old, d) /\ vouchers'[d] = v[d] - VouchersOf(row, d)
    BY <1>9, <1>11
  <2>3. CASE d = c
    <3>1. VouchersOf(row, d) = row.vouchers /\ VouchersOf(old, d) \in Nat
      BY <1>5, <2>1, <2>3 DEF VouchersOf
    <3>2. (row.vouchers = 0 \/ row.vouchers <= limit) /\ limit <= v[d]
      BY <1>4, <1>6, <2>3
    <3> QED
      BY <1>3, <2>1, <2>2, <3>1, <3>2
  <2>4. CASE d # c
    <3>1. VouchersOf(row, d) = 0 /\ VouchersOf(old, d) \in Nat
      BY <1>5, <2>1, <2>4 DEF VouchersOf
    <3> QED
      BY <2>1, <2>2, <3>1
  <2> QED
    BY <2>3, <2>4
<1>13. Kept
  BY <1>2, <1>7, <1>9, <1>10, <1>11, <1>12, KeptBy
<1>14. Inserted(n, row)
  BY <1>3, <1>4, <1>5, <1>6, <1>7 DEF Inserted
<1>15. \A d \in Customers :
          /\ balance'[d] = balance[d] - MoneyOf(old, d) + MoneyOf(row, d)
          /\ vouchers'[d] = vouchers[d] + VouchersOf(old, d) - VouchersOf(row, d)
  <2> TAKE d \in Customers
  <2>1. b[d] = balance[d] - MoneyOf(old, d) /\ balance'[d] = b[d] + MoneyOf(row, d)
    BY <1>8, <1>10
  <2>2. v[d] = vouchers[d] + VouchersOf(old, d) /\ vouchers'[d] = v[d] - VouchersOf(row, d)
    BY <1>9, <1>11
  <2>3. vouchers[d] \in Int /\ VouchersOf(old, d) \in Int /\ VouchersOf(row, d) \in Int
    BY <1>1, <1>4, StateFacts DEF VouchersOf, Consistent, Rows
  <2> QED
    BY <2>1, <2>2, <2>3
<1>16. \A a \in Earnings : balance'[a] = balance[a] - Earned(old, a) + Earned(row, a)
  BY <1>8, <1>10
<1>17. vouchers'["sale_exit"] = vouchers["sale_exit"] - Spent(old) + Spent(row)
  BY <1>9, <1>11
<1> QED
  BY <1>1, <1>2, <1>5, <1>13, <1>14, <1>15, <1>16, <1>17 DEF Replaces, old, c

\* Every order step is one of the three.
LEMMA OrderSteps ==
    ASSUME IInv, OrderStep
    PROVE  \/ \E o, row : Books(o, row)
           \/ \E o \in Orders : Cancels(o)
           \/ \E o, n \in Orders : \E row : Replaces(o, n, row)
<1>1. CASE \E o \in Orders, t \in Tills, tag \in Tags, cart \in Carts :
              BookSale(o, t, tag, cart)
  BY <1>1, BookSaleBooks
<1>2. CASE \E o \in Orders, t \in Tills, method \in {"cash", "sumup"}, cart \in Carts :
              BookAnonymousSale(o, t, method, cart)
  BY <1>2, BookAnonymousSaleBooks
<1>3. CASE \E o \in Orders, t \in Tills : CancelSale(o, t)
  BY <1>3, CancelSaleCancels
<1>4. CASE \E o, n \in Orders, cart \in Carts : EditSale(o, n, cart)
  BY <1>4, EditSaleReplaces
<1>5. CASE \/ \E o \in Orders, t \in Tills, tag \in Tags, amount \in TopUps :
                 BookTopup(o, t, tag, amount)
           \/ \E o \in Orders, t \in Tills, tag \in Tags : BookPayOut(o, t, tag)
  <2>1. PICK o \in Orders, t \in Tills, tag \in Tags :
           \/ \E amount \in TopUps : BookTopup(o, t, tag, amount)
           \/ BookPayOut(o, t, tag)
    BY <1>5
  <2> QED
    BY <2>1, CashOrderBooks
<1> QED
  BY <1>1, <1>2, <1>3, <1>4, <1>5 DEF OrderStep

-----------------------------------------------------------------------------
(* The invariant. *)

\* Inserting an order keeps types, consistency and the traces of wristbands.
LEMMA InsertedKeeps ==
    ASSUME IInv, NEW o, NEW row, Inserted(o, row), UNCHANGED <<tagOf, tagHistory>>
    PROVE  /\ Booked' = Booked \union {o} /\ Booked' \subseteq Orders
           /\ ordr' \in [Booked' -> Rows]
           /\ \A x \in Booked : ordr'[x] = ordr[x]
           /\ ordr'[o] = row
           /\ AllConsistent' /\ TagsAreTraceable' /\ OrdersHaveTags'
<1>1. /\ Booked \subseteq Orders /\ ordr \in [Booked -> Rows]
      /\ \A x \in Booked : Consistent(ordr[x])
      /\ TagsAreTraceable /\ OrdersHaveTags
  BY DEF IInv, TypeOK, AllConsistent
<1>2. /\ o \in Orders \ Booked /\ Consistent(row)
      /\ ordr' = [x \in Booked \union {o} |-> IF x = o THEN row ELSE ordr[x]]
  BY DEF Inserted
<1>3. /\ Booked' = Booked \union {o}
      /\ \A x \in Booked : ordr'[x] = ordr[x]
      /\ ordr'[o] = row
  BY <1>2 DEF Booked
<1>4. row \in Rows /\ (row.customer # Nobody => row.customer \in Customers)
  BY <1>2 DEF Consistent, Rows
<1>5. ordr' \in [Booked' -> Rows]
  BY <1>1, <1>2, <1>3, <1>4
<1>6. AllConsistent'
  BY <1>1, <1>2, <1>3 DEF AllConsistent, Consistent, Rows, Total
<1>7. TagsAreTraceable' /\ OrdersHaveTags'
  BY <1>1, <1>3, <1>4 DEF TagsAreTraceable, OrdersHaveTags, Inserted
<1> QED
  BY <1>1, <1>2, <1>3, <1>5, <1>6, <1>7

LEMMA BooksKeeps ==
    ASSUME IInv, NEW o, NEW row, Books(o, row)
    PROVE  IInv'
<1>1. Inserted(o, row) /\ Kept /\ UNCHANGED cancelled
  BY DEF Books
<1>2. /\ Booked' = Booked \union {o} /\ Booked' \subseteq Orders
      /\ ordr' \in [Booked' -> Rows]
      /\ \A x \in Booked : ordr'[x] = ordr[x]
      /\ AllConsistent' /\ TagsAreTraceable' /\ OrdersHaveTags'
  BY <1>1, InsertedKeeps DEF Kept
<1>3. cancelled' \subseteq {x \in Booked' : ordr'[x].type = "sale" /\ ordr'[x].method = "tag"}
  BY <1>1, <1>2 DEF IInv, TypeOK
<1>4. TypeOK'
  BY <1>1, <1>2, <1>3 DEF IInv, TypeOK, Kept
<1> QED
  BY <1>1, <1>2, <1>4 DEF IInv, Kept

LEMMA CancelsKeeps ==
    ASSUME IInv, NEW o \in Orders, Cancels(o)
    PROVE  IInv'
<1>1. /\ Booked' = Booked /\ UNCHANGED <<ordr, tagOf, tagHistory>> /\ Kept
      /\ o \in Booked /\ ordr[o].type = "sale" /\ ordr[o].method = "tag"
      /\ cancelled' = cancelled \union {o}
  BY DEF Cancels, Kept, Booked
<1>2. AllConsistent' /\ TagsAreTraceable' /\ OrdersHaveTags'
  BY <1>1 DEF IInv, AllConsistent, TagsAreTraceable, OrdersHaveTags, Consistent, Rows
<1>3. TypeOK'
  BY <1>1 DEF IInv, TypeOK, Kept
<1> QED
  BY <1>1, <1>2, <1>3 DEF IInv, Kept

LEMMA ReplacesKeeps ==
    ASSUME IInv, NEW o \in Orders, NEW n, NEW row, Replaces(o, n, row)
    PROVE  IInv'
<1>1. /\ Inserted(n, row) /\ Kept /\ cancelled' = cancelled \union {o}
      /\ o \in Booked /\ ordr[o].type = "sale" /\ ordr[o].method = "tag"
  BY DEF Replaces
<1>2. /\ Booked' = Booked \union {n} /\ Booked' \subseteq Orders
      /\ ordr' \in [Booked' -> Rows]
      /\ \A x \in Booked : ordr'[x] = ordr[x]
      /\ AllConsistent' /\ TagsAreTraceable' /\ OrdersHaveTags'
  BY <1>1, InsertedKeeps DEF Kept
<1>3. cancelled' \subseteq {x \in Booked' : ordr'[x].type = "sale" /\ ordr'[x].method = "tag"}
  BY <1>1, <1>2 DEF IInv, TypeOK
<1>4. TypeOK'
  BY <1>1, <1>2, <1>3 DEF IInv, TypeOK, Kept
<1> QED
  BY <1>1, <1>2, <1>4 DEF IInv, Kept

\* Vouchers are granted to one customer, or taken from one.
LEMMA GrantedFacts ==
    ASSUME IInv, NEW c \in Customers, NEW n \in Int, Granted(c, n)
    PROVE  /\ vouchers' \in [VoucherAccounts -> Int]
           /\ vouchers'[c] - vouchers[c]
                 = vouchers["voucher_create"] - vouchers'["voucher_create"]
           /\ \A d \in Customers \ {c} : vouchers'[d] = vouchers[d]
           /\ vouchers'["sale_exit"] = vouchers["sale_exit"]
<1>1. /\ vouchers \in [VoucherAccounts -> Int]
      /\ \A d \in Customers : d \in VoucherAccounts /\ d # "voucher_create"
      /\ "voucher_create" \in VoucherAccounts
      /\ "sale_exit" \in VoucherAccounts /\ "sale_exit" \notin Customers
  BY StateFacts, AccountFacts DEF SystemAccounts
<1> QED
  BY <1>1 DEF Granted, BookTransaction, Post, Transaction

\* A step on accounts touches neither orders nor money. It changes the
\* vouchers of one customer or of none, and keeps track of the wristbands.
LEMMA AccountSteps ==
    ASSUME IInv, AccountStep
    PROVE  /\ UNCHANGED <<ordr, cancelled, balance>>
           /\ tagOf' \in [Customers -> Tags \union {NoTag}]
           /\ \A c, d \in Customers : tagOf'[c] = tagOf'[d] /\ tagOf'[c] # NoTag => c = d
           /\ tagHistory' \subseteq Customers \X Tags
           /\ tagHistory \subseteq tagHistory'
           /\ \A c \in Customers : \/ tagOf'[c] = tagOf[c]
                                   \/ ~Registered(c)
                                   \/ <<c, tagOf[c]>> \in tagHistory'
           /\ vouchers' \in [VoucherAccounts -> Int]
           /\ vouchers'["sale_exit"] = vouchers["sale_exit"]
           /\ \/ UNCHANGED vouchers
              \/ \E c \in Customers :
                    /\ vouchers'[c] - vouchers[c]
                          = vouchers["voucher_create"] - vouchers'["voucher_create"]
                    /\ \A d \in Customers \ {c} : vouchers'[d] = vouchers[d]
<1>1. /\ tagOf \in [Customers -> Tags \union {NoTag}]
      /\ \A c, d \in Customers : tagOf[c] = tagOf[d] /\ tagOf[c] # NoTag => c = d
      /\ tagHistory \subseteq Customers \X Tags
      /\ vouchers \in [VoucherAccounts -> Int]
  BY DEF IInv, TypeOK
<1>2. CASE \/ \E tag \in Tags, n \in 0..MaxGranted : GrantVouchers(tag, n)
           \/ \E c \in Customers, n \in Overrides : UpdateAccountVouchers(c, n)
  <2>1. PICK c \in Customers, n \in Int :
           /\ Granted(c, n)
           /\ UNCHANGED <<tagOf, tagHistory, ordr, cancelled, balance>>
    <3>1. CASE \E tag \in Tags, n \in 0..MaxGranted : GrantVouchers(tag, n)
      BY <3>1, StateFacts, AmountsAssumption DEF GrantVouchers, Holder
    <3>2. CASE \E c \in Customers, n \in Overrides : UpdateAccountVouchers(c, n)
      <4>1. PICK c \in Customers, n \in Overrides : UpdateAccountVouchers(c, n)
        BY <3>2
      <4>2. n - vouchers[c] \in Int
        BY StateFacts, AmountsAssumption
      <4> QED
        BY <4>1, <4>2 DEF UpdateAccountVouchers
    <3> QED
      BY <1>2, <3>1, <3>2
  <2> QED
    BY <1>1, <2>1, GrantedFacts
<1>3. CASE \E c \in Customers, tag \in Tags, n \in 0..MaxGranted : GrantFreeTicket(c, tag, n)
  <2>1. PICK c \in Customers, tag \in Tags, n \in 0..MaxGranted : GrantFreeTicket(c, tag, n)
    BY <1>3
  <2>2. /\ ~Registered(c) /\ tag \notin TagsInUse
        /\ tagOf' = [tagOf EXCEPT ![c] = tag]
        /\ Granted(c, n) \/ UNCHANGED vouchers
        /\ UNCHANGED <<tagHistory, ordr, cancelled, balance>>
        /\ n \in Int
    BY <2>1, AmountsAssumption DEF GrantFreeTicket
  <2>3. /\ tagOf' \in [Customers -> Tags \union {NoTag}]
        /\ \A x, d \in Customers : tagOf'[x] = tagOf'[d] /\ tagOf'[x] # NoTag => x = d
        /\ \A x \in Customers : tagOf'[x] = tagOf[x] \/ x = c
    BY <1>1, <2>2, AccountsAssumption DEF TagsInUse
  <2> QED
    BY <1>1, <2>2, <2>3, GrantedFacts
<1>4. CASE \/ \E old, tag \in Tags : SwitchAccountTag(old, tag)
           \/ \E c \in Customers : DisableAccount(c)
  <2>1. PICK tag \in Tags \union {NoTag}, c \in Customers :
           /\ tagOf[c] \in Tags /\ (tag \notin TagsInUse \/ tag = NoTag)
           /\ tagOf' = [tagOf EXCEPT ![c] = tag]
           /\ tagHistory' = Remembered(c)
           /\ UNCHANGED <<ordr, cancelled, balance, vouchers>>
    BY <1>1, <1>4 DEF SwitchAccountTag, DisableAccount, Holder
  <2>2. /\ tagHistory' = tagHistory \union {<<c, tagOf[c]>>}
        /\ tagHistory' \subseteq Customers \X Tags
    BY <1>1, <2>1 DEF Remembered
  <2>3. /\ tagOf' \in [Customers -> Tags \union {NoTag}]
        /\ \A x, d \in Customers : tagOf'[x] = tagOf'[d] /\ tagOf'[x] # NoTag => x = d
        /\ \A x \in Customers : tagOf'[x] = tagOf[x] \/ x = c
    BY <1>1, <2>1 DEF TagsInUse
  <2>4. \A x \in Customers : tagOf'[x] = tagOf[x] \/ <<x, tagOf[x]>> \in tagHistory'
    BY <2>2, <2>3
  <2> QED
    BY <1>1, <2>1, <2>2, <2>3, <2>4
<1> QED
  BY <1>2, <1>3, <1>4 DEF AccountStep

LEMMA AccountKeeps ==
    ASSUME IInv, AccountStep
    PROVE  IInv'
<1>1. Booked' = Booked /\ UNCHANGED <<ordr, cancelled, balance>>
  BY AccountSteps DEF Booked
<1>2. TypeOK'
  BY <1>1, AccountSteps DEF IInv, TypeOK
<1>3. AllConsistent' /\ CashBacksCredit'
  BY <1>1 DEF IInv, AllConsistent, Consistent, Rows, CashBacksCredit
<1>4. NoDebt'
  BY <1>1 DEF IInv, NoDebt
<1>5. OrdersHaveTags'
  BY <1>1, AccountSteps DEF IInv, OrdersHaveTags
<1>6. TagsAreTraceable'
  <2> SUFFICES ASSUME NEW o \in Booked, ordr[o].customer # Nobody
               PROVE  \/ tagOf'[ordr[o].customer] = ordr[o].tag
                      \/ <<ordr[o].customer, ordr[o].tag>> \in tagHistory'
    BY <1>1 DEF TagsAreTraceable
  <2>1. ordr[o].customer \in Customers
    BY DEF IInv, AllConsistent, Consistent, Rows
  <2>2. /\ ordr[o].tag \in Tags
        /\ \/ tagOf[ordr[o].customer] = ordr[o].tag
           \/ <<ordr[o].customer, ordr[o].tag>> \in tagHistory
    BY <2>1 DEF IInv, OrdersHaveTags, TagsAreTraceable
  <2>3. Registered(ordr[o].customer)
    BY <2>2, AccountsAssumption DEF Registered
  <2> QED
    BY <2>1, <2>2, <2>3, AccountSteps
<1> QED
  BY <1>2, <1>3, <1>4, <1>5, <1>6 DEF IInv

LEMMA InitInvariant == Init => IInv
<1> SUFFICES ASSUME Init PROVE IInv
  OBVIOUS
<1>1. Booked = {}
  BY DEF Init, Booked
<1>2. TypeOK
  BY <1>1, AccountsAssumption DEF Init, TypeOK
<1>3. AllConsistent /\ TagsAreTraceable /\ OrdersHaveTags
  BY <1>1 DEF AllConsistent, TagsAreTraceable, OrdersHaveTags
<1>4. NoDebt /\ CashBacksCredit
  BY AccountFacts DEF Init, NoDebt, CashBacksCredit, SystemAccounts
<1> QED
  BY <1>2, <1>3, <1>4 DEF IInv

LEMMA NextInvariant == IInv /\ [Next]_vars => IInv'
<1> SUFFICES ASSUME IInv, [Next]_vars PROVE IInv'
  OBVIOUS
<1>1. CASE OrderStep
  BY <1>1, OrderSteps, BooksKeeps, CancelsKeeps, ReplacesKeeps
<1>2. CASE AccountStep
  BY <1>2, AccountKeeps
<1>3. CASE UNCHANGED vars
  BY <1>3 DEF vars, IInv, TypeOK, AllConsistent, Consistent, Rows, Booked, NoDebt,
              CashBacksCredit, TagsAreTraceable, OrdersHaveTags
<1> QED
  BY <1>1, <1>2, <1>3 DEF Next

LEMMA Invariance == Spec => []IInv
BY InitInvariant, NextInvariant, PTL DEF Spec

\* Every variable keeps its type; a price is never negative, so that vouchers never
\* pay more than the goods cost, and only sales by wristband get cancelled.
THEOREM TypeCorrect == Spec => []TypeOK
<1>1. IInv => TypeOK
  BY DEF IInv
<1> QED
  BY <1>1, Invariance, PTL

\* Nobody ever owes money, whatever is cancelled or edited, in which order and after
\* what else.
THEOREM NobodyOwes == Spec => []NoDebt
<1>1. IInv => NoDebt
  BY DEF IInv
<1> QED
  BY <1>1, Invariance, PTL

\* No order takes vouchers that its customer does not have: only an administrator can set
\* a debt, and no sale, cancellation or edit makes one or a larger one.
THEOREM OrdersMakeNoVoucherDebt == Spec => [][OrderStep => NoVoucherDebtMade]_vars
<1>1. IInv /\ [Next]_vars => [OrderStep => NoVoucherDebtMade]_vars
  BY OrderSteps DEF Books, Cancels, Replaces, Kept
<1> QED
  BY <1>1, Invariance, PTL DEF Spec

\* The credit and the sales that were made from cash have their cash in the drawers.
THEOREM CreditIsBacked == Spec => []CashBacksCredit
<1>1. IInv => CashBacksCredit
  BY DEF IInv
<1> QED
  BY <1>1, Invariance, PTL

\* The wristband of an order leads to its customer for good.
THEOREM WristbandsLeadToCustomers == Spec => []TagsAreTraceable
<1>1. IInv => TagsAreTraceable
  BY DEF IInv
<1> QED
  BY <1>1, Invariance, PTL

-----------------------------------------------------------------------------
(* The ledger. *)

\* What every booked order has put on account a, and what vouchers it used.
Shares(a) == [o \in Booked |-> IF a \in Customers THEN MoneyOf(ordr[o], a)
                              ELSE Earned(ordr[o], a)]
Uses == [o \in Booked |-> Spent(ordr[o])]

\* LedgerMatchesOrders, with the orders that do not concern an account counted as
\* nothing: all sums are over the standing orders.
LedgerInv ==
    /\ IsFiniteSet(Booked)
    /\ \A a \in Customers \union Earnings : balance[a] = SumOver(Shares(a), Standing)
    /\ vouchers["sale_exit"] = SumOver(Uses, Standing)

\* What a consistent order puts on an account is a number.
LEMMA ShareFacts ==
    ASSUME NEW row, Consistent(row), NEW a
    PROVE  MoneyOf(row, a) \in Int /\ Earned(row, a) \in Int /\ Spent(row) \in Int
<1>1. row.price \in Int /\ row.deposit \in Int /\ row.vouchers \in Int
      /\ Total(row) \in Int /\ MoneyEffect(row) \in Int
  BY DEF Consistent, Rows, Total, MoneyEffect
<1> QED
  BY <1>1 DEF MoneyOf, Earned, Spent

\* So the sums are sums of integers.
LEMMA SharesAreInt ==
    ASSUME IInv, NEW a
    PROVE  IntOn(Shares(a), Booked) /\ IntOn(Uses, Booked)
<1>1. \A o \in Booked : Consistent(ordr[o])
  BY DEF IInv, AllConsistent
<1> QED
  BY <1>1, ShareFacts DEF IntOn, Shares, Uses

\* Nothing is booked at first.
LEMMA LedgerInit == Init => LedgerInv
<1> SUFFICES ASSUME Init PROVE LedgerInv
  OBVIOUS
<1>1. Booked = {} /\ Standing = {}
  BY DEF Init, Booked, Standing
<1>2. \A a \in Customers \union Earnings : a \in Accounts
  BY AccountFacts DEF Earnings, SystemAccounts
<1>3. "sale_exit" \in VoucherAccounts
  BY AccountFacts
<1> QED
  BY <1>1, <1>2, <1>3, SumOverEmpty, FS_EmptySet DEF Init, LedgerInv

\* An order that is inserted leaves the shares of the others as they were.
LEMMA InsertedShares ==
    ASSUME IInv, IInv', NEW o, NEW row, Inserted(o, row), NEW a \in Customers \union Earnings
    PROVE  /\ \A x \in Booked : Shares(a)'[x] = Shares(a)[x] /\ Uses'[x] = Uses[x]
           /\ Shares(a)'[o] = IF a \in Customers THEN MoneyOf(row, a) ELSE Earned(row, a)
           /\ Uses'[o] = Spent(row)
           /\ Shares(a)'[o] \in Int /\ Uses'[o] \in Int
<1>1. /\ Booked' = Booked \union {o}
      /\ \A x \in Booked : ordr'[x] = ordr[x]
      /\ ordr'[o] = row
  BY DEF Inserted, Booked, IInv, TypeOK
<1>2. Consistent(row)
  BY DEF Inserted
<1>3. MoneyOf(row, a) \in Int /\ Earned(row, a) \in Int /\ Spent(row) \in Int
  BY <1>2, ShareFacts
<1>4. \A x \in Booked' : /\ Shares(a)'[x] = IF a \in Customers THEN MoneyOf(ordr'[x], a)
                                              ELSE Earned(ordr'[x], a)
                         /\ Uses'[x] = Spent(ordr'[x])
  BY DEF Shares, Uses
<1>5. \A x \in Booked : /\ Shares(a)[x] = IF a \in Customers THEN MoneyOf(ordr[x], a)
                                           ELSE Earned(ordr[x], a)
                        /\ Uses[x] = Spent(ordr[x])
  BY DEF Shares, Uses
<1> QED
  BY <1>1, <1>3, <1>4, <1>5

\* Booking an order adds its shares to the sums, ...
LEMMA BooksOnLedger ==
    ASSUME IInv, IInv', LedgerInv, NEW o, NEW row, Books(o, row)
    PROVE  LedgerInv'
<1>1. /\ Inserted(o, row) /\ o \notin Booked /\ UNCHANGED cancelled
      /\ Booked' = Booked \union {o} /\ IsFiniteSet(Booked)
  BY DEF Books, Inserted, Booked, LedgerInv
<1>2. /\ Standing' = Standing \union {o} /\ o \notin Standing /\ Standing \subseteq Booked
      /\ IsFiniteSet(Booked') /\ IsFiniteSet(Standing)
  <2>1. o \notin cancelled
    BY <1>1 DEF IInv, TypeOK
  <2> QED
    BY <1>1, <2>1, FS_AddElement, FS_Subset DEF Standing
<1>3. ASSUME NEW a \in Customers \union Earnings
      PROVE  balance'[a] = SumOver(Shares(a), Standing)'
  <2>1. /\ \A x \in Standing : Shares(a)'[x] = Shares(a)[x]
        /\ Shares(a)'[o] \in Int /\ IntOn(Shares(a), Standing)
        /\ balance'[a] = balance[a] + Shares(a)'[o]
        /\ balance[a] = SumOver(Shares(a), Standing)
    BY <1>1, <1>2, InsertedShares, SharesAreInt DEF IntOn, Books, LedgerInv
  <2>2. SumOver(Shares(a)', Standing \union {o})
           = SumOver(Shares(a), Standing) + Shares(a)'[o]
    BY <1>2, <2>1, SumOverInsert
  <2> QED
    BY <1>2, <2>1, <2>2
<1>4. vouchers'["sale_exit"] = SumOver(Uses, Standing)'
  <2>1. /\ \A x \in Standing : Uses'[x] = Uses[x]
        /\ Uses'[o] \in Int /\ IntOn(Uses, Standing)
        /\ vouchers'["sale_exit"] = vouchers["sale_exit"] + Uses'[o]
        /\ vouchers["sale_exit"] = SumOver(Uses, Standing)
    <3>1. "sale_exit" \in Earnings
      BY DEF Earnings
    <3> QED
      BY <1>1, <1>2, <3>1, InsertedShares, SharesAreInt DEF IntOn, Books, LedgerInv
  <2>2. SumOver(Uses', Standing \union {o}) = SumOver(Uses, Standing) + Uses'[o]
    BY <1>2, <2>1, SumOverInsert
  <2> QED
    BY <1>2, <2>1, <2>2
<1> QED
  BY <1>2, <1>3, <1>4 DEF LedgerInv

\* ... cancelling one takes them away, ...
LEMMA CancelsOnLedger ==
    ASSUME IInv, IInv', LedgerInv, NEW o, Cancels(o)
    PROVE  LedgerInv'
<1>1. /\ o \in Standing /\ Booked' = Booked /\ UNCHANGED ordr
      /\ Standing' = Standing \ {o} /\ Standing \subseteq Booked
  BY DEF Cancels, Booked, Standing
<1>2. IsFiniteSet(Booked) /\ IsFiniteSet(Booked') /\ IsFiniteSet(Standing)
  BY <1>1, FS_Subset DEF LedgerInv
<1>3. ASSUME NEW a \in Customers \union Earnings
      PROVE  balance'[a] = SumOver(Shares(a), Standing)'
  <2>1. Shares(a)' = Shares(a)
    BY <1>1 DEF Shares
  <2>2. IntOn(Shares(a), Standing) /\ balance[a] = SumOver(Shares(a), Standing)
    BY <1>1, SharesAreInt DEF IntOn, LedgerInv
  <2>3. balance'[a] = balance[a] - Shares(a)[o]
    BY <1>1, AccountFacts DEF Cancels, Shares, Earnings, SystemAccounts
  <2>4. SumOver(Shares(a), Standing \ {o}) = SumOver(Shares(a), Standing) - Shares(a)[o]
    BY <1>1, <1>2, <2>2, SumOverRemove
  <2> QED
    BY <1>1, <2>1, <2>2, <2>3, <2>4
<1>4. vouchers'["sale_exit"] = SumOver(Uses, Standing)'
  <2>1. Uses' = Uses
    BY <1>1 DEF Uses
  <2>2. IntOn(Uses, Standing) /\ vouchers["sale_exit"] = SumOver(Uses, Standing)
    BY <1>1, SharesAreInt DEF IntOn, LedgerInv
  <2>3. vouchers'["sale_exit"] = vouchers["sale_exit"] - Uses[o]
    BY <1>1 DEF Cancels, Uses
  <2>4. SumOver(Uses, Standing \ {o}) = SumOver(Uses, Standing) - Uses[o]
    BY <1>1, <1>2, <2>2, SumOverRemove
  <2> QED
    BY <1>1, <2>1, <2>2, <2>3, <2>4
<1> QED
  BY <1>2, <1>3, <1>4 DEF LedgerInv

\* ... and editing one does both.
LEMMA ReplacesOnLedger ==
    ASSUME IInv, IInv', LedgerInv, NEW o, NEW n, NEW row, Replaces(o, n, row)
    PROVE  LedgerInv'
<1> DEFINE Left == Standing \ {o}
<1>1. /\ o \in Standing /\ Inserted(n, row) /\ n \notin Booked
      /\ cancelled' = cancelled \union {o}
      /\ Booked' = Booked \union {n} /\ IsFiniteSet(Booked) /\ Standing \subseteq Booked
  BY DEF Replaces, Inserted, Booked, Standing, LedgerInv
<1>2. /\ Standing' = Left \union {n} /\ n \notin Left
      /\ IsFiniteSet(Booked') /\ IsFiniteSet(Standing) /\ IsFiniteSet(Left)
  <2>1. n \notin cancelled /\ n # o
    BY <1>1 DEF IInv, TypeOK
  <2> QED
    BY <1>1, <2>1, FS_AddElement, FS_Subset DEF Standing
<1> HIDE DEF Left
<1>3. Left = Standing \ {o} /\ Left \subseteq Standing
  BY DEF Left
<1>4. ASSUME NEW a \in Customers \union Earnings
      PROVE  balance'[a] = SumOver(Shares(a), Standing)'
  <2>1. /\ \A x \in Left : Shares(a)'[x] = Shares(a)[x]
        /\ Shares(a)'[n] \in Int /\ IntOn(Shares(a), Standing) /\ IntOn(Shares(a), Left)
        /\ balance[a] = SumOver(Shares(a), Standing)
    BY <1>1, <1>3, InsertedShares, SharesAreInt DEF IntOn, LedgerInv
  <2>2. balance'[a] = balance[a] - Shares(a)[o] + Shares(a)'[n]
    <3>1. Shares(a)[o] = IF a \in Customers THEN MoneyOf(ordr[o], a) ELSE Earned(ordr[o], a)
      BY <1>1 DEF Shares
    <3> QED
      BY <1>1, <3>1, InsertedShares DEF Replaces
  <2>3. SumOver(Shares(a), Left) = SumOver(Shares(a), Standing) - Shares(a)[o]
    <3>1. o \in Standing /\ IsFiniteSet(Standing) /\ IntOn(Shares(a), Standing)
      BY <1>1, <1>2, <2>1
    <3>2. SumOver(Shares(a), Standing \ {o}) = SumOver(Shares(a), Standing) - Shares(a)[o]
      BY <3>1, SumOverRemove
    <3> QED
      BY <1>3, <3>2
  <2>4. SumOver(Shares(a)', Left \union {n}) = SumOver(Shares(a), Left) + Shares(a)'[n]
    BY <1>2, <2>1, SumOverInsert
  <2> QED
    BY <1>2, <2>1, <2>2, <2>3, <2>4
<1>5. vouchers'["sale_exit"] = SumOver(Uses, Standing)'
  <2>1. /\ \A x \in Left : Uses'[x] = Uses[x]
        /\ Uses'[n] = Spent(row)
        /\ Uses'[n] \in Int /\ IntOn(Uses, Standing) /\ IntOn(Uses, Left)
        /\ vouchers["sale_exit"] = SumOver(Uses, Standing)
    <3>1. "sale_exit" \in Earnings
      BY DEF Earnings
    <3> QED
      BY <1>1, <1>3, <3>1, InsertedShares, SharesAreInt DEF IntOn, LedgerInv
  <2>2. vouchers'["sale_exit"] = vouchers["sale_exit"] - Uses[o] + Uses'[n]
    BY <1>1, <2>1 DEF Replaces, Uses
  <2>3. SumOver(Uses, Left) = SumOver(Uses, Standing) - Uses[o]
    <3>1. o \in Standing /\ IsFiniteSet(Standing) /\ IntOn(Uses, Standing)
      BY <1>1, <1>2, <2>1
    <3>2. SumOver(Uses, Standing \ {o}) = SumOver(Uses, Standing) - Uses[o]
      BY <3>1, SumOverRemove
    <3> QED
      BY <1>3, <3>2
  <2>4. SumOver(Uses', Left \union {n}) = SumOver(Uses, Left) + Uses'[n]
    BY <1>2, <2>1, SumOverInsert
  <2> QED
    BY <1>2, <2>1, <2>2, <2>3, <2>4
<1> QED
  BY <1>2, <1>4, <1>5 DEF LedgerInv

\* The steps of orders keep the ledger, and no other step touches it.
LEMMA LedgerNext == IInv /\ IInv' /\ LedgerInv /\ [Next]_vars => LedgerInv'
<1> SUFFICES ASSUME IInv, IInv', LedgerInv, [Next]_vars PROVE LedgerInv'
  OBVIOUS
<1>1. CASE OrderStep
  BY <1>1, OrderSteps, BooksOnLedger, CancelsOnLedger, ReplacesOnLedger
<1>2. CASE AccountStep \/ UNCHANGED vars
  <2>1. /\ UNCHANGED <<ordr, cancelled, balance>>
        /\ vouchers'["sale_exit"] = vouchers["sale_exit"]
    BY <1>2, AccountSteps DEF vars
  <2>2. Booked' = Booked /\ Standing' = Standing /\ Uses' = Uses
    BY <2>1 DEF Booked, Standing, Uses
  <2>3. \A a \in Customers \union Earnings : Shares(a)' = Shares(a)
    BY <2>1, <2>2 DEF Shares
  <2> QED
    BY <2>1, <2>2, <2>3 DEF LedgerInv
<1> QED
  BY <1>1, <1>2 DEF Next

\* The sums over all standing orders are those over the ones that concern an account.
LEMMA SharesMatch ==
    ASSUME IInv, LedgerInv
    PROVE  LedgerMatchesOrders
<1>1. /\ \A o \in Standing : Consistent(ordr[o]) /\ o \in Booked
      /\ IsFiniteSet(Standing) /\ StandingSales \in SUBSET Standing
      /\ \A o \in Standing : o \in StandingSales <=> ordr[o].type = "sale"
  BY FS_Subset DEF LedgerInv, IInv, AllConsistent, Standing, StandingSales
<1>2. \A o \in Standing : /\ ordr[o].price \in Int /\ ordr[o].deposit \in Int
                          /\ ordr[o].vouchers \in Int /\ Total(ordr[o]) \in Int
                          /\ MoneyEffect(ordr[o]) \in Int
                          /\ ordr[o].type \in {"sale", "top_up", "pay_out"}
  <2> TAKE o \in Standing
  <2>1. ordr[o] \in Rows
    BY <1>1 DEF Consistent
  <2>2. /\ ordr[o].price \in Int /\ ordr[o].deposit \in Int /\ ordr[o].vouchers \in Int
        /\ ordr[o].type \in {"sale", "top_up", "pay_out"}
    BY <2>1 DEF Rows
  <2> QED
    BY <2>2 DEF Total, MoneyEffect
<1>3. ASSUME NEW c \in Customers
      PROVE  balance[c] = SumOver([o \in Standing |-> MoneyEffect(ordr[o])],
                                  {o \in Standing : ordr[o].customer = c})
  <2> DEFINE f == [o \in Standing |-> MoneyEffect(ordr[o])]
             P == {o \in Standing : ordr[o].customer = c}
  <2>1. P \in SUBSET Standing /\ IntOn(f, P)
    BY <1>2 DEF IntOn
  <2>2. \A o \in Standing : Shares(c)[o] = IF o \in P THEN f[o] ELSE 0
    BY <1>1 DEF Shares, MoneyOf
  <2> HIDE DEF f, P
  <2>3. SumOver(f, P) = SumOver(Shares(c), Standing)
    BY <1>1, <2>1, <2>2, SumOverPart
  <2>4. balance[c] = SumOver(f, P)
    BY <2>3 DEF LedgerInv
  <2> QED
    BY <2>4 DEF f, P
<1>4. balance["sale_exit"] = SumOver([o \in StandingSales |-> ordr[o].price], StandingSales)
  <2> DEFINE f == [o \in StandingSales |-> ordr[o].price]
  <2>1. IntOn(f, StandingSales)
    BY <1>1, <1>2 DEF IntOn
  <2>2. "sale_exit" \in Earnings /\ "sale_exit" \notin Customers /\ "sale_exit" \notin CashTills
    BY AccountFacts DEF Earnings, SystemAccounts
  <2>3. \A o \in Standing : Shares("sale_exit")[o] = IF o \in StandingSales THEN f[o] ELSE 0
    BY <1>1, <2>2 DEF Shares, Earned
  <2> HIDE DEF f
  <2>4. SumOver(f, StandingSales) = SumOver(Shares("sale_exit"), Standing)
    BY <1>1, <2>1, <2>3, SumOverPart
  <2>5. balance["sale_exit"] = SumOver(f, StandingSales)
    BY <2>2, <2>4 DEF LedgerInv
  <2> QED
    BY <2>5 DEF f
<1>5. balance["deposit"] = SumOver([o \in StandingSales |-> ordr[o].deposit], StandingSales)
  <2> DEFINE f == [o \in StandingSales |-> ordr[o].deposit]
  <2>1. IntOn(f, StandingSales)
    BY <1>1, <1>2 DEF IntOn
  <2>2. "deposit" \in Earnings /\ "deposit" \notin Customers /\ "deposit" \notin CashTills
    BY AccountFacts DEF Earnings, SystemAccounts
  <2>3. \A o \in Standing : Shares("deposit")[o] = IF o \in StandingSales THEN f[o] ELSE 0
    BY <1>1, <2>2 DEF Shares, Earned
  <2> HIDE DEF f
  <2>4. SumOver(f, StandingSales) = SumOver(Shares("deposit"), Standing)
    BY <1>1, <2>1, <2>3, SumOverPart
  <2>5. balance["deposit"] = SumOver(f, StandingSales)
    BY <2>2, <2>4 DEF LedgerInv
  <2> QED
    BY <2>5 DEF f
<1>6. vouchers["sale_exit"] = SumOver([o \in StandingSales |-> ordr[o].vouchers], StandingSales)
  <2> DEFINE f == [o \in StandingSales |-> ordr[o].vouchers]
  <2>1. IntOn(f, StandingSales)
    BY <1>1, <1>2 DEF IntOn
  <2>2. \A o \in Standing : Uses[o] = IF o \in StandingSales THEN f[o] ELSE 0
    BY <1>1 DEF Uses, Spent
  <2> HIDE DEF f
  <2>3. SumOver(f, StandingSales) = SumOver(Uses, Standing)
    BY <1>1, <2>1, <2>2, SumOverPart
  <2>4. vouchers["sale_exit"] = SumOver(f, StandingSales)
    BY <2>3 DEF LedgerInv
  <2> QED
    BY <2>4 DEF f
<1>7. ASSUME NEW t \in CashTills
      PROVE  balance[t] = SumOver(
                 [o \in Standing |-> IF ordr[o].type = "pay_out" THEN -ordr[o].price
                                     ELSE Total(ordr[o])],
                 {o \in Standing : ordr[o].till = t /\ ordr[o].method = "cash"})
  <2> DEFINE f == [o \in Standing |-> IF ordr[o].type = "pay_out" THEN -ordr[o].price
                                      ELSE Total(ordr[o])]
             P == {o \in Standing : ordr[o].till = t /\ ordr[o].method = "cash"}
  <2>1. P \in SUBSET Standing /\ IntOn(f, P)
    BY <1>2 DEF IntOn
  <2>2. t \in Earnings /\ t \notin Customers
    BY AccountFacts DEF Earnings
  <2>3. \A o \in Standing : Shares(t)[o] = IF o \in P THEN f[o] ELSE 0
    BY <1>1, <2>2 DEF Shares, Earned
  <2> HIDE DEF f, P
  <2>4. SumOver(f, P) = SumOver(Shares(t), Standing)
    BY <1>1, <2>1, <2>3, SumOverPart
  <2>5. balance[t] = SumOver(f, P)
    BY <2>2, <2>4 DEF LedgerInv
  <2> QED
    BY <2>5 DEF f, P
<1> QED
  BY <1>3, <1>4, <1>5, <1>6, <1>7 DEF LedgerMatchesOrders

\* The standing orders explain every customer's money, what was earned, the deposit
\* that is out, the vouchers used and the cash in every drawer, whatever was
\* cancelled or edited in between.
THEOREM LedgerFollowsOrders == Spec => []LedgerMatchesOrders
<1>1. IInv /\ LedgerInv => LedgerMatchesOrders
  BY SharesMatch
<1> QED
  BY <1>1, Invariance, LedgerInit, LedgerNext, PTL DEF Spec

-----------------------------------------------------------------------------
(* The promise. *)

LEMMA MoneyEffectFacts ==
    ASSUME NEW row, Consistent(row)
    PROVE  MoneyEffect(row) \in Int /\ row.vouchers \in Nat
BY DEF Consistent, Rows, MoneyEffect, Total

\* An order that is inserted gets its effect, and no other order's changes.
LEMMA InsertedEffects ==
    ASSUME IInv, IInv', NEW o, NEW row, Inserted(o, row), UNCHANGED <<tagOf, tagHistory>>
    PROVE  /\ Effect' \in [Orders -> [Purses -> Int]]
           /\ \A x \in Orders \ {o} : Effect'[x] = Effect[x]
           /\ \A p \in Purses :
                 Effect'[o][p] = IF p[2] = "money" THEN MoneyOf(row, p[1])
                                 ELSE -VouchersOf(row, p[1])
           /\ Stage[o] = "open"
<1>1. /\ o \in Orders \ Booked
      /\ Booked' = Booked \union {o}
      /\ \A x \in Booked : ordr'[x] = ordr[x]
      /\ ordr'[o] = row
  BY InsertedKeeps DEF Inserted
<1>2. \A x \in Orders, p \in Purses : EffectOn(x, p)' \in Int
  <2> TAKE x \in Orders, p \in Purses
  <2>1. x \in Booked' => /\ MoneyEffect(ordr'[x]) \in Int
                         /\ ordr'[x].vouchers \in Nat
    BY MoneyEffectFacts DEF IInv, AllConsistent
  <2> QED
    BY <2>1 DEF EffectOn
<1>3. \A x \in Orders \ {o}, p \in Purses : EffectOn(x, p)' = EffectOn(x, p)
  BY <1>1 DEF EffectOn
<1>4. \A p \in Purses : EffectOn(o, p)' = IF p[2] = "money" THEN MoneyOf(row, p[1])
                                          ELSE -VouchersOf(row, p[1])
  BY <1>1, MoneyEffectFacts DEF EffectOn, MoneyOf, VouchersOf, Inserted
<1>5. o \notin cancelled
  BY <1>1 DEF IInv, TypeOK
<1> QED
  BY <1>1, <1>2, <1>3, <1>4, <1>5 DEF Effect, Purses, Stage

\* What booking, cancelling and editing leave in a purse is no new debt.
LEMMA PursesHold ==
    ASSUME Kept
    PROVE  \A p \in Purses : Purse'[p] >= 0 \/ Purse'[p] >= Purse[p]
BY DEF Purse, Purses, Kept, NoDebt, NoVoucherDebtMade

\* Booking an order is Book.
LEMMA BooksIsBook ==
    ASSUME IInv, IInv', NEW o, NEW row, Books(o, row)
    PROVE  Promise!Book(o)
<1>1. /\ Inserted(o, row) /\ UNCHANGED <<cancelled, tagOf, tagHistory>>
      /\ \A c \in Customers : /\ balance'[c] = balance[c] + MoneyOf(row, c)
                              /\ vouchers'[c] = vouchers[c] - VouchersOf(row, c)
  BY DEF Books, Kept
<1>2. /\ Effect' \in [Orders -> [Purses -> Int]]
      /\ \A x \in Orders \ {o} : Effect'[x] = Effect[x]
      /\ \A p \in Purses :
            Effect'[o][p] = IF p[2] = "money" THEN MoneyOf(row, p[1])
                            ELSE -VouchersOf(row, p[1])
      /\ Stage[o] = "open"
  BY <1>1, InsertedEffects
<1>3. Stage' = [Stage EXCEPT ![o] = "standing"]
  <2>1. Booked' = Booked \union {o} /\ o \in Orders \ Booked /\ cancelled \subseteq Booked
    BY <1>1, InsertedKeeps DEF Inserted, IInv, TypeOK
  <2> QED
    BY <1>1, <2>1 DEF Stage
<1>4. Promise!OneCustomer(Effect'[o], Effect'[o])
  BY <1>2 DEF Promise!OneCustomer, Promise!Purses, Purses, MoneyOf, VouchersOf
<1>5. Purse' = [p \in Purses |-> Purse[p] + Effect'[o][p]]
  <2>1. \A c \in Customers : /\ vouchers[c] \in Int /\ VouchersOf(row, c) \in Int
    BY <1>1, StateFacts, MoneyEffectFacts DEF VouchersOf, Inserted
  <2>2. \A p \in Purses : (IF p[2] = "money" THEN balance'[p[1]] ELSE vouchers'[p[1]])
                          = Purse[p] + Effect'[o][p]
    BY <1>1, <1>2, <2>1 DEF Purse, Purses
  <2> QED
    BY <2>2 DEF Purse, Purses
<1> QED
  BY <1>2, <1>3, <1>4, <1>5 DEF Promise!Book, Promise!EffectOf, Promise!Purses, Purses,
                                Books, Kept

\* Cancelling a sale is Undo.
LEMMA CancelsIsUndo ==
    ASSUME IInv, IInv', NEW o \in Orders, Cancels(o)
    PROVE  Promise!Undo(o)
<1>1. /\ o \in Booked \ cancelled /\ cancelled' = cancelled \union {o}
      /\ UNCHANGED ordr
      /\ \A c \in Customers : /\ balance'[c] = balance[c] - MoneyOf(ordr[o], c)
                              /\ vouchers'[c] = vouchers[c] + VouchersOf(ordr[o], c)
  BY DEF Cancels
<1>2. Booked' = Booked
  BY <1>1 DEF Booked
<1>3. UNCHANGED Effect
  BY <1>1, <1>2 DEF Effect, EffectOn, MoneyEffect, Total
<1>4. Stage[o] = "standing" /\ Stage' = [Stage EXCEPT ![o] = "undone"]
  BY <1>1, <1>2 DEF Stage
<1>5. Purse' = [p \in Purses |-> Purse[p] - Effect[o][p]]
  <2>1. \A p \in Purses : Effect[o][p] = IF p[2] = "money" THEN MoneyOf(ordr[o], p[1])
                                         ELSE -VouchersOf(ordr[o], p[1])
    BY <1>1 DEF Effect, EffectOn, Purses, MoneyOf, VouchersOf
  <2>2. \A c \in Customers : vouchers[c] \in Int /\ VouchersOf(ordr[o], c) \in Int
    BY <1>1, StateFacts, MoneyEffectFacts DEF VouchersOf, IInv, AllConsistent
  <2>3. \A p \in Purses : (IF p[2] = "money" THEN balance'[p[1]] ELSE vouchers'[p[1]])
                          = Purse[p] - Effect[o][p]
    BY <1>1, <2>1, <2>2 DEF Purse, Purses
  <2> QED
    BY <2>3 DEF Purse, Purses
<1> QED
  BY <1>3, <1>4, <1>5 DEF Promise!Undo, Promise!Purses, Purses, Cancels, Kept

\* Editing a sale is Replace.
LEMMA ReplacesIsReplace ==
    ASSUME IInv, IInv', NEW o \in Orders, NEW n, NEW row, Replaces(o, n, row)
    PROVE  Promise!Replace(o, n)
<1>1. /\ o \in Booked \ cancelled /\ cancelled' = cancelled \union {o}
      /\ Inserted(n, row) /\ row.customer = ordr[o].customer
      /\ UNCHANGED <<tagOf, tagHistory>>
      /\ \A c \in Customers :
            /\ balance'[c] = balance[c] - MoneyOf(ordr[o], c) + MoneyOf(row, c)
            /\ vouchers'[c] = vouchers[c] + VouchersOf(ordr[o], c) - VouchersOf(row, c)
  BY DEF Replaces, Kept
<1>2. /\ Effect' \in [Orders -> [Purses -> Int]]
      /\ \A x \in Orders \ {n} : Effect'[x] = Effect[x]
      /\ \A p \in Purses :
            Effect'[n][p] = IF p[2] = "money" THEN MoneyOf(row, p[1])
                            ELSE -VouchersOf(row, p[1])
      /\ Stage[n] = "open"
  BY <1>1, InsertedEffects
<1>3. \A p \in Purses : Effect[o][p] = IF p[2] = "money" THEN MoneyOf(ordr[o], p[1])
                                       ELSE -VouchersOf(ordr[o], p[1])
  BY <1>1 DEF Effect, EffectOn, Purses, MoneyOf, VouchersOf
<1>4. /\ Stage[o] = "standing"
      /\ Stage' = [Stage EXCEPT ![o] = "undone", ![n] = "standing"]
  <2>1. /\ Booked' = Booked \union {n} /\ n \in Orders \ Booked
        /\ cancelled \subseteq Booked
    BY <1>1, InsertedKeeps DEF Inserted, IInv, TypeOK
  <2> QED
    BY <1>1, <2>1 DEF Stage
<1>5. Promise!OneCustomer(Effect[o], Effect'[n])
  BY <1>1, <1>2, <1>3 DEF Promise!OneCustomer, Promise!Purses, Purses, MoneyOf, VouchersOf
<1>6. Purse' = [p \in Purses |-> Purse[p] - Effect[o][p] + Effect'[n][p]]
  <2>1. \A c \in Customers : /\ vouchers[c] \in Int /\ balance[c] \in Int
                             /\ VouchersOf(ordr[o], c) \in Int /\ VouchersOf(row, c) \in Int
                             /\ MoneyOf(ordr[o], c) \in Int /\ MoneyOf(row, c) \in Int
    BY <1>1, StateFacts, MoneyEffectFacts
       DEF MoneyOf, VouchersOf, IInv, AllConsistent, Inserted
  <2>2. \A p \in Purses : (IF p[2] = "money" THEN balance'[p[1]] ELSE vouchers'[p[1]])
                          = Purse[p] - Effect[o][p] + Effect'[n][p]
    BY <1>1, <1>2, <1>3, <2>1 DEF Purse, Purses
  <2> QED
    BY <2>2 DEF Purse, Purses
<1> QED
  BY <1>2, <1>4, <1>5, <1>6 DEF Promise!Replace, Promise!EffectOf, Promise!Purses, Purses,
                                Replaces, Kept

\* A step on accounts is Grant, or nothing at all.
LEMMA AccountStepIsGrant ==
    ASSUME IInv, AccountStep
    PROVE  UNCHANGED Promise!vars \/ \E c \in Customers : Promise!Grant(c)
<1>1. UNCHANGED <<ordr, cancelled, balance>> /\ Booked' = Booked
  BY AccountSteps DEF Booked
<1>2. UNCHANGED <<Stage, Effect>>
  BY <1>1 DEF Stage, Effect, EffectOn, MoneyEffect, Total
<1>3. CASE UNCHANGED vouchers
  <2>1. UNCHANGED Purse
    BY <1>1, <1>3 DEF Purse
  <2> QED
    BY <1>2, <1>3, <2>1 DEF Promise!vars
<1>4. CASE \E c \in Customers :
              /\ vouchers'[c] - vouchers[c]
                    = vouchers["voucher_create"] - vouchers'["voucher_create"]
              /\ \A d \in Customers \ {c} : vouchers'[d] = vouchers[d]
  <2>1. PICK c \in Customers :
           /\ vouchers'[c] - vouchers[c]
                 = vouchers["voucher_create"] - vouchers'["voucher_create"]
           /\ \A d \in Customers \ {c} : vouchers'[d] = vouchers[d]
    BY <1>4
  <2>2. vouchers["voucher_create"] \in Int /\ vouchers'["voucher_create"] \in Int
    BY AccountSteps, StateFacts, AccountFacts
  <2>3. /\ \A p \in Purses \ {<<c, "vouchers">>} : Purse'[p] = Purse[p]
        /\ Purse'[<<c, "vouchers">>] - Purse[<<c, "vouchers">>]
              = (0 - vouchers'["voucher_create"]) - (0 - vouchers["voucher_create"])
    BY <1>1, <2>1, <2>2 DEF Purse, Purses
  <2> QED
    BY <1>2, <2>3 DEF Promise!Grant, Promise!Purses, Purses
<1> QED
  BY <1>3, <1>4, AccountSteps

LEMMA StepKeepsPromise ==
    IInv /\ IInv' /\ [Next]_vars => [Promise!Next]_(Promise!vars)
<1> SUFFICES ASSUME IInv, IInv', [Next]_vars PROVE [Promise!Next]_(Promise!vars)
  OBVIOUS
<1>1. ASSUME Kept PROVE Promise!NoDebtMade
  BY <1>1, PursesHold DEF Promise!NoDebtMade, Promise!Purses, Purses
<1>2. CASE OrderStep
  <2>1. CASE \E o, row : Books(o, row)
    <3>1. PICK o, row : Books(o, row)
      BY <2>1
    <3>2. o \in Orders /\ Promise!Book(o) /\ Kept
      BY <3>1, BooksIsBook DEF Books, Inserted
    <3> QED
      BY <1>1, <3>2 DEF Promise!Next
  <2>2. CASE \E o \in Orders : Cancels(o)
    <3>1. PICK o \in Orders : Cancels(o)
      BY <2>2
    <3>2. Promise!Undo(o) /\ Kept
      BY <3>1, CancelsIsUndo DEF Cancels
    <3> QED
      BY <1>1, <3>2 DEF Promise!Next
  <2>3. CASE \E o, n \in Orders : \E row : Replaces(o, n, row)
    <3>1. PICK o \in Orders, n \in Orders : \E row : Replaces(o, n, row)
      BY <2>3
    <3>2. Promise!Replace(o, n) /\ Kept
      BY <3>1, ReplacesIsReplace DEF Replaces
    <3> QED
      BY <1>1, <3>2 DEF Promise!Next
  <2> QED
    BY <1>2, <2>1, <2>2, <2>3, OrderSteps
<1>3. CASE AccountStep
  BY <1>3, AccountStepIsGrant DEF Promise!Next
<1>4. CASE UNCHANGED vars
  BY <1>4 DEF vars, Promise!vars, Stage, Effect, EffectOn, Purse, Booked, MoneyEffect, Total
<1> QED
  BY <1>2, <1>3, <1>4 DEF Next

LEMMA InitKeepsPromise == Init => Promise!Init
<1> SUFFICES ASSUME Init PROVE Promise!Init
  OBVIOUS
<1>1. Booked = {} /\ cancelled = {}
  BY DEF Init, Booked
<1>2. /\ \A c \in Customers : balance[c] = 0 /\ vouchers[c] = 0
      /\ vouchers["voucher_create"] = 0
  BY AccountFacts DEF Init
<1>3. 0 - vouchers["voucher_create"] = 0
  BY <1>2
<1> QED
  BY <1>1, <1>2, <1>3 DEF Promise!Init, Promise!Purses, Purses, Stage, Effect, EffectOn, Purse

\* Sales, pay-outs, cancellations and edits implement SalePromise: each order counts
\* once, for one customer, undoing it leaves nothing behind, and none puts anybody into debt.
THEOREM Refinement == Spec => ImplementsPromise
<1>1. IInv /\ IInv' /\ [Next]_vars => [Promise!Next]_(Promise!vars)
  BY StepKeepsPromise
<1> QED
  BY <1>1, InitKeepsPromise, Invariance, PTL DEF Spec, ImplementsPromise, Promise!Spec
=============================================================================
