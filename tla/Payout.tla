------------------------------ MODULE Payout ---------------------------------
(***************************************************************************)
(* Payouts by bank transfer after the event. Customers leave their bank    *)
(* data in the portal and choose what to donate; an administrator puts     *)
(* them into a payout run, has a SEPA file made of it for the bank, and    *)
(* sets the run to done, which books the amounts, or revokes it.           *)
(*                                                                         *)
(* Every call is one database transaction and one action; a call that is   *)
(* refused changes nothing. What makes it hard is what happens between two *)
(* calls: customers go on spending, topping up and changing their minds,   *)
(* and lose or get their wristband.                                        *)
(*                                                                         *)
(* Amounts are integers (cents), so round(x, 2) > 0 is x > 0.              *)
(***************************************************************************)
EXTENDS Ledger

CONSTANTS
    Customers,     \* ids of customer accounts
    Presale,       \* the customers whose account comes from a ticket bought online
    Ibans,         \* bank accounts
    NumRuns,       \* bound of the model: payout runs
    PayoutSums,    \* what an administrator enters as max_payout_sum
    MaxNumPayouts, \* event.sepa_max_num_payouts_in_run
    Amounts,       \* amounts of sales and top-ups
    MaxBalance     \* event.max_account_balance

NoIban == "no iban"
Exits == {"sepa_exit", "donation_exit"}
Runs == 1 .. NumRuns

ASSUME CustomersAssumption ==
    Customers \subseteq Nat /\ Presale \subseteq Customers /\ NoIban \notin Ibans
ASSUME NumbersAssumption ==
    /\ NumRuns \in Nat /\ MaxNumPayouts \in Nat /\ MaxBalance \in Nat
    /\ PayoutSums \subseteq Nat /\ Amounts \subseteq Nat \ {0}

VARIABLES
    balance,       \* account.balance of the customers
    tagged,        \* whether account.user_tag_id is not null
    info,          \* table customer_info; donation is null when donateAll is set
    run,           \* table payout_run: "none" (no row yet), "open", "done" or "revoked"
    payout,        \* table payout
    sepa,          \* payout_run.sepa_xml: the transfers in the file, {} for none
    transactions   \* the rows of table transaction that payout runs have booked

vars == <<balance, tagged, info, run, payout, sepa, transactions>>

Init ==
    /\ balance = [c \in Customers |-> 0]
    /\ tagged = [c \in Customers |-> c \notin Presale]
    /\ info = [c \in Customers |-> [entered |-> FALSE, export |-> TRUE, iban |-> NoIban,
                                    donateAll |-> FALSE, donation |-> 0]]
    /\ run = [r \in Runs |-> "none"]
    /\ payout = {}
    /\ sepa = [r \in Runs |-> {}]
    /\ transactions = {}

-----------------------------------------------------------------------------
(* Mutated forms of definitions below, each a bug that is easy to write. They  *)
(* are not part of the specification; the properties have to tell them apart.  *)

\* Customers who are in a payout already are pending still.
Pending_Again ==
    {c \in Customers : info[c].entered /\ info[c].export /\ balance[c] > 0}

\* What the customer wants to donate is donated, whatever is left; the rest is paid out.
Donated_Unbounded(c) == IF info[c].donateAll THEN balance[c] ELSE info[c].donation
PaidOut_Unbounded(c) == IF info[c].donateAll THEN 0 ELSE balance[c] - info[c].donation

\* The wish to donate all is forgotten.
PaidOut_NoDonateAll(c) == balance[c] - info[c].donation

\* A run that is done can be revoked.
Open_OrDone(r) == run[r] \in {"open", "done"}

\* The bank is told to pay what customers have at present.
Transfers_AtPresent(r) ==
    {[customer |-> row.customer, iban |-> row.iban, amount |-> balance[row.customer]] :
        row \in {x \in payout : x.run = r /\ tagged[x.customer] /\ x.amount > 0}}

\* Only the rows that payout_view shows are deleted.
RevokePayoutRun_Visible(r) ==
    /\ run[r] = "open"
    /\ run' = [run EXCEPT ![r] = "revoked"]
    /\ payout' = {row \in payout : row.run = r => ~tagged[row.customer]}
    /\ UNCHANGED <<balance, tagged, info, sepa, transactions>>

-----------------------------------------------------------------------------
(* Looking things up. *)

RowsOf(r) == {row \in payout : row.run = r}
InPayout(c) == \E row \in payout : row.customer = c

\* payout_view joins the wristband: customers without one are left out.
PayoutView(r) == {row \in RowsOf(r) : tagged[row.customer]}

\* customer.payout, a column of the view customer, is read from payout_view.
HasPayout(c) == InPayout(c) /\ tagged[c]

\* The view customers_without_payout_run.
Pending == {c \in Customers :
    ~InPayout(c) /\ info[c].entered /\ info[c].export /\ balance[c] > 0}

\* The window "order by customer_account_id" up to the row of c.
Window(c) == {d \in Pending : d <= c}

\* sum(balance - donation) over the window. SQL's sum passes over a null, which the
\* donation of a customer who donates all is, and is null itself if there is
\* nothing else; null is not <= anything.
Summed(c) == {d \in Window(c) : ~info[d].donateAll}
RunningTotal(c) ==
    SumOver([d \in Customers |-> balance[d] - info[d].donation], Summed(c))
WithinSum(maxSum) == {c \in Pending : Summed(c) # {} /\ RunningTotal(c) <= maxSum}

\* The customers a new run takes.
Scheduled(maxSum, maxNum) == {c \in WithinSum(maxSum) : Cardinality(Window(c)) <= maxNum}

\* The row of table payout for c. least and greatest keep it within the balance.
Donated(c) ==
    IF info[c].donateAll \/ info[c].donation > balance[c] THEN balance[c]
    ELSE info[c].donation
PaidOut(c) ==
    IF info[c].donateAll \/ info[c].donation > balance[c] THEN 0
    ELSE balance[c] - info[c].donation
NewRow(r, c) == [run |-> r, customer |-> c, iban |-> info[c].iban,
                 amount |-> PaidOut(c), donation |-> Donated(c)]

\* Run ids are given out in order.
NextRun(r) == run[r] = "none" /\ \A q \in Runs : q < r => run[q] # "none"
Open(r) == run[r] = "open"

\* What is booked for a row, on which account.
Due(row, p) == IF p = "sepa_exit" THEN row.amount ELSE row.donation

Transfers(r) ==
    {[customer |-> row.customer, iban |-> row.iban, amount |-> row.amount] :
        row \in {x \in PayoutView(r) : x.amount > 0}}

-----------------------------------------------------------------------------
(* Customers at the event and in the portal. *)

\* A sale, or whatever else takes money from c. Being in a payout run forbids nothing.
Spend(c, amount) ==
    /\ balance[c] >= amount
    /\ balance' = [balance EXCEPT ![c] = @ - amount]
    /\ UNCHANGED <<tagged, info, run, payout, sepa, transactions>>

TopUp(c, amount) ==
    /\ balance[c] + amount <= MaxBalance
    /\ balance' = [balance EXCEPT ![c] = @ + amount]
    /\ UNCHANGED <<tagged, info, run, payout, sepa, transactions>>

DisableAccount(c) ==
    /\ tagged[c]
    /\ tagged' = [tagged EXCEPT ![c] = FALSE]
    /\ UNCHANGED <<balance, info, run, payout, sepa, transactions>>

\* A ticket bought online is handed in at the entry, for a wristband.
RedeemTicket(c) ==
    /\ c \in Presale /\ ~tagged[c]
    /\ tagged' = [tagged EXCEPT ![c] = TRUE]
    /\ UNCHANGED <<balance, info, run, payout, sepa, transactions>>

\* update_customer_info. The donation is checked against the balance of this moment.
UpdateCustomerInfo(c, iban, donation) ==
    /\ ~InPayout(c)
    /\ donation <= balance[c]
    /\ info' = [info EXCEPT ![c] = [@ EXCEPT !.entered = TRUE, !.iban = iban,
                                             !.donateAll = FALSE, !.donation = donation]]
    /\ UNCHANGED <<balance, tagged, run, payout, sepa, transactions>>

\* update_customer_info_donate_all: the bank data stays as it was.
UpdateCustomerInfoDonateAll(c) ==
    /\ ~InPayout(c)
    /\ info' = [info EXCEPT ![c] = [@ EXCEPT !.entered = TRUE, !.donateAll = TRUE,
                                             !.donation = 0]]
    /\ UNCHANGED <<balance, tagged, run, payout, sepa, transactions>>

-----------------------------------------------------------------------------
(* Administrators and payout runs. *)

\* prevent_customer_payout and allow_customer_payout.
SetPayoutExport(c, export) ==
    /\ ~HasPayout(c)
    /\ info' = [info EXCEPT ![c].export = export]
    /\ UNCHANGED <<balance, tagged, run, payout, sepa, transactions>>

\* create_payout_run. Whether there is anybody to pay is asked without maxNum.
CreatePayoutRun(r, maxSum, maxNum) ==
    /\ NextRun(r)
    /\ maxNum \in 1 .. MaxNumPayouts
    /\ WithinSum(maxSum) # {}
    /\ run' = [run EXCEPT ![r] = "open"]
    /\ payout' = payout \union {NewRow(r, c) : c \in Scheduled(maxSum, maxNum)}
    /\ UNCHANGED <<balance, tagged, info, sepa, transactions>>

\* get_payout_run_sepa_xml: of any run, as often as asked; the file replaces the last.
GetSepaXml(r) ==
    /\ run[r] # "none"
    /\ Transfers(r) # {}
    /\ sepa' = [sepa EXCEPT ![r] = Transfers(r)]
    /\ UNCHANGED <<balance, tagged, info, run, payout, transactions>>

\* set_payout_run_as_done. A customer who has less by now than was scheduled makes
\* the trigger on account.balance roll all of it back.
SetPayoutRunAsDone(r) ==
    /\ Open(r)
    /\ run' = [run EXCEPT ![r] = "done"]
    /\ \A row \in PayoutView(r) :
          balance[row.customer] >= Due(row, "sepa_exit") + Due(row, "donation_exit")
    /\ balance' = [c \in Customers |->
          IF \E row \in PayoutView(r) : row.customer = c
          THEN LET row == CHOOSE x \in PayoutView(r) : x.customer = c
               IN  balance[c] - Due(row, "sepa_exit") - Due(row, "donation_exit")
          ELSE balance[c]]
    /\ transactions' = transactions \union
          {t \in {[run |-> r, customer |-> row.customer, target |-> p, amount |-> Due(row, p)] :
                     row \in PayoutView(r), p \in Exits} : t.amount > 0}
    /\ UNCHANGED <<tagged, info, payout, sepa>>

\* revoke_payout_run. The file stays with the run.
RevokePayoutRun(r) ==
    /\ Open(r)
    /\ run' = [run EXCEPT ![r] = "revoked"]
    /\ payout' = payout \ RowsOf(r)
    /\ UNCHANGED <<balance, tagged, info, sepa, transactions>>

-----------------------------------------------------------------------------
CustomerStep == \E c \in Customers :
    \/ \E amount \in Amounts : Spend(c, amount) \/ TopUp(c, amount)
    \/ DisableAccount(c)
    \/ RedeemTicket(c)
    \/ \E iban \in Ibans, donation \in 0 .. MaxBalance : UpdateCustomerInfo(c, iban, donation)
    \/ UpdateCustomerInfoDonateAll(c)

AdministratorStep ==
    \/ \E c \in Customers, export \in BOOLEAN : SetPayoutExport(c, export)
    \/ \E r \in Runs, maxSum \in PayoutSums, maxNum \in 1 .. MaxNumPayouts :
          CreatePayoutRun(r, maxSum, maxNum)
    \/ \E r \in Runs : GetSepaXml(r) \/ SetPayoutRunAsDone(r) \/ RevokePayoutRun(r)

Next == CustomerStep \/ AdministratorStep

Spec == Init /\ [][Next]_vars

-----------------------------------------------------------------------------
(* Properties. *)

TypeOK ==
    /\ balance \in [Customers -> Nat]
    /\ tagged \in [Customers -> BOOLEAN]
    /\ info \in [Customers -> [entered : BOOLEAN, export : BOOLEAN,
                               iban : Ibans \union {NoIban},
                               donateAll : BOOLEAN, donation : Nat]]
    /\ run \in [Runs -> {"none", "open", "done", "revoked"}]
    /\ payout \subseteq [run : Runs, customer : Customers, iban : Ibans \union {NoIban},
                         amount : Nat, donation : Nat]
    /\ sepa \in [Runs -> SUBSET [customer : Customers, iban : Ibans \union {NoIban},
                                 amount : Nat]]
    /\ transactions \subseteq [run : Runs, customer : Customers, target : Exits, amount : Nat]

\* A customer is in one payout at most, however runs are created and revoked. The
\* table's key only forbids two rows in the same run, but the view customer fails for
\* everybody who asks for a customer with two.
OnePayoutPerCustomer == \A x, y \in payout : x.customer = y.customer => x = y

\* Who is to get money has left a bank account to send it to, also after changing
\* back and forth between donating all and less: dump_payout_run_as_sepa_xml asserts it.
TransfersHaveIban == \A row \in payout : row.amount > 0 => row.iban \in Ibans

\* The file for the bank of a run that is not revoked sends every customer what the
\* run has scheduled, to the account that was given when it was.
FileFollowsRun == \A r \in Runs : run[r] \in {"open", "done"} =>
    \A line \in sepa[r] : \E row \in RowsOf(r) :
        /\ line.customer = row.customer
        /\ line.iban = row.iban
        /\ line.amount = row.amount

\* What has been booked is what a run that is done had scheduled, and it has been
\* booked once for each purpose.
BookedAsScheduled == \A t \in transactions :
    /\ run[t.run] = "done"
    /\ \E row \in RowsOf(t.run) : row.customer = t.customer /\ t.amount = Due(row, t.target)

\* Who has been scheduled gets what was scheduled, whatever is bought or changed
\* meanwhile: a row stays as it is, unless its run is open and is revoked, with all of it.
FrozenOnceScheduled ==
    [][\A row \in payout : row \notin payout' =>
          Open(row.run) /\ run'[row.run] = "revoked" /\ RowsOf(row.run) \intersect payout' = {}]_vars

\* Being scheduled takes the whole balance: nothing is left over that no later run
\* could pay out, and nothing is scheduled that is not there.
WholeBalanceIsScheduled ==
    [][\A row \in payout' \ payout : row.amount + row.donation = balance[row.customer]]_vars

\* Where a customer stands, for the promise.
RowFor(c) == CHOOSE row \in payout : row.customer = c
Claim == [c \in Customers |-> IF ~InPayout(c) THEN "none"
                              ELSE IF run[RowFor(c).run] = "done" THEN "settled"
                              ELSE "scheduled"]
DueTo == [c \in Customers |-> [p \in Exits |-> IF InPayout(c) THEN Due(RowFor(c), p) ELSE 0]]
BookedFor(c, p) == {t \in transactions : t.customer = c /\ t.target = p}
Moved == [c \in Customers |-> [p \in Exits |->
            IF BookedFor(c, p) = {} THEN 0
            ELSE (CHOOSE t \in BookedFor(c, p) : TRUE).amount]]

Promise == INSTANCE PayoutPromise WITH claim <- Claim, due <- DueTo, moved <- Moved

\* Payout runs keep the promise of PayoutPromise: what is due is fixed when a customer
\* is scheduled, and moves at most once, and then as a whole.
ImplementsPromise == Promise!Spec

-----------------------------------------------------------------------------
(* What is said of payout runs, and does not hold. *)

\* "Max amount to be paid out in this payout run", says the form. The running total
\* counts a customer who has spent some of the donation with less than nothing.
RunWithinMaxSum ==
    [][\A r \in Runs, maxSum \in PayoutSums, maxNum \in 1 .. MaxNumPayouts :
          CreatePayoutRun(r, maxSum, maxNum) =>
              SumOver([c \in Customers |-> PaidOut(c)], Scheduled(maxSum, maxNum)) <= maxSum]_vars

\* create_payout_run is documented to refuse a run without payouts. It only asks
\* whether there would be some if any number was allowed.
RunsAreNotEmpty == \A r \in Runs : Open(r) => RowsOf(r) # {}

\* "Account balances will be updated with the payout amounts", says the dialog before a
\* run is set to done. Not those of customers without a wristband; and the bank may have
\* been told to pay them, if they lost it after the file was made.
DoneRunsAreBooked == \A r \in Runs : run[r] = "done" =>
    \A row \in RowsOf(r), p \in Exits : Due(row, p) > 0 =>
        [run |-> r, customer |-> row.customer, target |-> p, amount |-> Due(row, p)]
            \in transactions

\* A run is made of "all customers that have no payout assigned yet", within the limits
\* that are entered. Not of the first ones by id, if they donate all.
NobodyIsPassedOver ==
    [][\A r \in Runs, maxSum \in PayoutSums, maxNum \in 1 .. MaxNumPayouts :
          /\ CreatePayoutRun(r, maxSum, maxNum)
          /\ maxSum >= SumOver(balance, Pending)
          /\ maxNum >= Cardinality(Pending)
          => Scheduled(maxSum, maxNum) = Pending]_vars
=============================================================================
