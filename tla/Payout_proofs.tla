---------------------------- MODULE Payout_proofs ----------------------------
(***************************************************************************)
(* Proofs about Payout, for any customers, bank accounts, limits and       *)
(* number of payout runs.                                                  *)
(*                                                                         *)
(* Everything hangs on one fact: a customer has one row in the table       *)
(* payout at most, and while it is there its run is open or done. It makes *)
(* rows and bookings correspond one to one, and it needs the rest of the   *)
(* invariant: bank data is complete, files and bookings follow the rows.   *)
(***************************************************************************)
EXTENDS Payout, TLAPS

\* Who has entered something, and is not to donate all, has left a bank account.
BankDataIsComplete == \A c \in Customers :
    info[c].entered /\ ~info[c].donateAll => info[c].iban \in Ibans

\* Rows belong to runs that are not revoked; a run that is not there has no file.
RowsBelongToRuns ==
    /\ \A row \in payout : run[row.run] \in {"open", "done"}
    /\ \A r \in Runs : run[r] = "none" => sepa[r] = {}

IInv ==
    /\ TypeOK
    /\ BankDataIsComplete
    /\ RowsBelongToRuns
    /\ OnePayoutPerCustomer
    /\ TransfersHaveIban
    /\ FileFollowsRun
    /\ BookedAsScheduled

-----------------------------------------------------------------------------
(* What the operators return. *)

\* Rows for customers who are not scheduled yet, with all of their balance.
LEMMA NewRowFact ==
    ASSUME TypeOK, BankDataIsComplete, NEW r \in Runs, NEW c \in Pending
    PROVE  /\ NewRow(r, c) \in [run : Runs, customer : Customers,
                                iban : Ibans \union {NoIban}, amount : Nat, donation : Nat]
           /\ NewRow(r, c).run = r /\ NewRow(r, c).customer = c
           /\ NewRow(r, c).amount + NewRow(r, c).donation = balance[c]
           /\ NewRow(r, c).amount > 0 => NewRow(r, c).iban \in Ibans
<1> DEFINE b == balance[c]
           i == info[c]
<1>1. c \in Customers /\ i.entered
  BY DEF Pending
<1>2. b \in Nat /\ i.donation \in Nat /\ i.iban \in Ibans \union {NoIban}
      /\ i.donateAll \in BOOLEAN
  BY <1>1 DEF TypeOK
<1>3. ~i.donateAll => i.iban \in Ibans
  BY <1>1 DEF BankDataIsComplete
<1>4. /\ Donated(c) \in Nat /\ PaidOut(c) \in Nat
      /\ PaidOut(c) + Donated(c) = b
      /\ PaidOut(c) > 0 => ~i.donateAll
  BY <1>2 DEF Donated, PaidOut
<1> QED
  BY <1>1, <1>2, <1>3, <1>4 DEF NewRow

\* A new run takes pending customers, whatever the limits.
LEMMA ScheduledFact ==
    \A maxSum, maxNum : Scheduled(maxSum, maxNum) \subseteq Pending /\ Pending \subseteq Customers
BY DEF Scheduled, WithinSum, Pending

\* The row of a customer is found.
LEMMA RowForFact ==
    ASSUME OnePayoutPerCustomer, NEW row \in payout
    PROVE  RowFor(row.customer) = row
BY DEF RowFor, OnePayoutPerCustomer

\* What is due for a row is a natural number, for each purpose.
LEMMA DueFact ==
    ASSUME TypeOK, NEW row \in payout
    PROVE  /\ Due(row, "sepa_exit") = row.amount /\ Due(row, "donation_exit") = row.donation
           /\ \A p \in Exits : Due(row, p) \in Nat
BY DEF TypeOK, Due, Exits

-----------------------------------------------------------------------------
(* The invariant. *)

LEMMA InitInvariant == Init => IInv
BY CustomersAssumption DEF Init, IInv, TypeOK, BankDataIsComplete, RowsBelongToRuns,
   OnePayoutPerCustomer, TransfersHaveIban, FileFollowsRun, BookedAsScheduled

\* What customers do, and the export switch, touches no row, file or booking.
LEMMA CustomerStepInvariant ==
    ASSUME IInv, CustomerStep \/ \E c \in Customers, export \in BOOLEAN : SetPayoutExport(c, export)
    PROVE  IInv' /\ UNCHANGED <<run, payout, sepa, transactions>>
<1> DEFINE InfoOK == info \in [Customers -> [entered : BOOLEAN, export : BOOLEAN,
                                              iban : Ibans \union {NoIban},
                                              donateAll : BOOLEAN, donation : Nat]]
<1>1. UNCHANGED <<run, payout, sepa, transactions>>
  BY DEF CustomerStep, Spend, TopUp, DisableAccount, RedeemTicket, UpdateCustomerInfo,
         UpdateCustomerInfoDonateAll, SetPayoutExport
<1>2. balance' \in [Customers -> Nat]
  <2>1. CASE \E c \in Customers, amount \in Amounts : Spend(c, amount) \/ TopUp(c, amount)
    BY <2>1, NumbersAssumption DEF Spend, TopUp, IInv, TypeOK
  <2>2. CASE UNCHANGED balance
    BY <2>2 DEF IInv, TypeOK
  <2> QED
    BY <2>1, <2>2 DEF CustomerStep, DisableAccount, RedeemTicket, UpdateCustomerInfo,
       UpdateCustomerInfoDonateAll, SetPayoutExport
<1>3. tagged' \in [Customers -> BOOLEAN]
  BY DEF CustomerStep, Spend, TopUp, DisableAccount, RedeemTicket, UpdateCustomerInfo,
         UpdateCustomerInfoDonateAll, SetPayoutExport, IInv, TypeOK
<1>4. InfoOK' /\ BankDataIsComplete'
  <2>0. InfoOK
    BY DEF IInv, TypeOK
  <2>1. CASE UNCHANGED info
    BY <2>0, <2>1 DEF IInv, BankDataIsComplete
  <2>2. ASSUME NEW c \in Customers, NEW iban \in Ibans, NEW donation \in 0 .. MaxBalance,
               UpdateCustomerInfo(c, iban, donation)
        PROVE  InfoOK' /\ BankDataIsComplete'
    <3>1. donation \in Nat /\ iban # NoIban
      BY <2>2, NumbersAssumption, CustomersAssumption
    <3>2. info' = [info EXCEPT ![c] = [info[c] EXCEPT !.entered = TRUE, !.iban = iban,
                                        !.donateAll = FALSE, !.donation = donation]]
      BY <2>2 DEF UpdateCustomerInfo
    <3>3. InfoOK'
      BY <2>0, <3>1, <3>2
    <3>4. ASSUME NEW d \in Customers
          PROVE  info'[d].entered /\ ~info'[d].donateAll => info'[d].iban \in Ibans
      BY <2>0, <3>1, <3>2 DEF IInv, BankDataIsComplete
    <3> QED
      BY <3>3, <3>4 DEF BankDataIsComplete
  <2>3. ASSUME NEW c \in Customers, UpdateCustomerInfoDonateAll(c)
        PROVE  InfoOK' /\ BankDataIsComplete'
    BY <2>0, <2>3 DEF UpdateCustomerInfoDonateAll, IInv, BankDataIsComplete
  <2>4. ASSUME NEW c \in Customers, NEW export \in BOOLEAN, SetPayoutExport(c, export)
        PROVE  InfoOK' /\ BankDataIsComplete'
    BY <2>0, <2>4 DEF SetPayoutExport, IInv, BankDataIsComplete
  <2>5. ASSUME NEW c \in Customers,
               \/ \E amount \in Amounts : Spend(c, amount) \/ TopUp(c, amount)
               \/ DisableAccount(c) \/ RedeemTicket(c)
        PROVE  UNCHANGED info
    BY <2>5 DEF Spend, TopUp, DisableAccount, RedeemTicket
  <2> HIDE DEF InfoOK
  <2> QED
    BY <2>1, <2>2, <2>3, <2>4, <2>5 DEF CustomerStep
<1> QED
  BY <1>1, <1>2, <1>3, <1>4 DEF IInv, TypeOK, RowsBelongToRuns, OnePayoutPerCustomer,
     TransfersHaveIban, FileFollowsRun, BookedAsScheduled, RowsOf

\* A new run adds rows for pending customers and changes none.
LEMMA CreateInvariant ==
    ASSUME IInv, NEW r \in Runs, NEW maxSum \in PayoutSums, NEW maxNum \in 1 .. MaxNumPayouts,
           CreatePayoutRun(r, maxSum, maxNum)
    PROVE  IInv'
<1> DEFINE S == Scheduled(maxSum, maxNum)
           new == {NewRow(r, c) : c \in S}
<1>1. /\ run[r] = "none" /\ run' = [run EXCEPT ![r] = "open"]
      /\ payout' = payout \union new
      /\ UNCHANGED <<balance, tagged, info, sepa, transactions>>
  BY DEF CreatePayoutRun, NextRun
<1>2. S \subseteq Pending
  BY ScheduledFact
<1>3. \A row \in new : /\ row \in [run : Runs, customer : Customers,
                                    iban : Ibans \union {NoIban}, amount : Nat, donation : Nat]
                       /\ row.run = r /\ row.customer \in Pending
                       /\ row.amount > 0 => row.iban \in Ibans
  BY <1>2, NewRowFact DEF IInv
<1>4. \A x, y \in new : x.customer = y.customer => x = y
  BY <1>2, NewRowFact DEF IInv
<1> HIDE DEF new, S
<1>5. \A row \in payout : row.run # r /\ row.customer \notin Pending
  BY <1>1 DEF IInv, RowsBelongToRuns, Pending, InPayout
<1>6. TypeOK'
  BY <1>1, <1>3 DEF IInv, TypeOK
<1>7. BankDataIsComplete' /\ OnePayoutPerCustomer' /\ TransfersHaveIban'
  BY <1>1, <1>3, <1>4, <1>5 DEF IInv, BankDataIsComplete, OnePayoutPerCustomer, TransfersHaveIban
<1>8. RowsBelongToRuns'
  BY <1>1, <1>3, <1>5 DEF IInv, RowsBelongToRuns, TypeOK
<1>9. FileFollowsRun'
  <2>1. sepa[r] = {}
    BY <1>1 DEF IInv, RowsBelongToRuns
  <2>2. \A q \in Runs : RowsOf(q) \subseteq RowsOf(q)'
    BY <1>1 DEF RowsOf
  <2>3. \A q \in Runs : q # r => run'[q] = run[q]
    BY <1>1 DEF IInv, TypeOK
  <2> QED
    BY <1>1, <2>1, <2>2, <2>3 DEF IInv, FileFollowsRun
<1>10. BookedAsScheduled'
  <2>1. \A q \in Runs : RowsOf(q) \subseteq RowsOf(q)'
    BY <1>1 DEF RowsOf
  <2>2. \A t \in transactions : t.run \in Runs /\ run'[t.run] = run[t.run]
    BY <1>1 DEF IInv, TypeOK, BookedAsScheduled
  <2> QED
    BY <1>1, <2>1, <2>2 DEF IInv, BookedAsScheduled, Due
<1> QED
  BY <1>6, <1>7, <1>8, <1>9, <1>10 DEF IInv

LEMMA SepaInvariant ==
    ASSUME IInv, NEW r \in Runs, GetSepaXml(r)
    PROVE  IInv'
<1>1. /\ run[r] # "none"
      /\ sepa' = [sepa EXCEPT ![r] = Transfers(r)]
      /\ UNCHANGED <<balance, tagged, info, run, payout, transactions>>
  BY DEF GetSepaXml
<1>2. \A line \in Transfers(r) :
          /\ line \in [customer : Customers, iban : Ibans \union {NoIban}, amount : Nat]
          /\ \E row \in RowsOf(r) : /\ line.customer = row.customer
                                   /\ line.iban = row.iban /\ line.amount = row.amount
  BY DEF Transfers, PayoutView, RowsOf, IInv, TypeOK
<1>3. TypeOK'
  BY <1>1, <1>2 DEF IInv, TypeOK
<1>4. FileFollowsRun'
  BY <1>1, <1>2 DEF IInv, TypeOK, FileFollowsRun, RowsOf
<1> QED
  BY <1>1, <1>3, <1>4 DEF IInv, TypeOK, BankDataIsComplete, RowsBelongToRuns,
     OnePayoutPerCustomer, TransfersHaveIban, BookedAsScheduled, RowsOf

\* What a run books when it is done, and what it leaves on the accounts.
LEMMA DoneFact ==
    ASSUME IInv, NEW r \in Runs, SetPayoutRunAsDone(r)
    PROVE  /\ balance' \in [Customers -> Nat]
           /\ \A t \in transactions' \ transactions :
                 /\ t \in [run : Runs, customer : Customers, target : Exits, amount : Nat]
                 /\ t.run = r /\ t.amount > 0
                 /\ \E row \in PayoutView(r) :
                       row.customer = t.customer /\ t.amount = Due(row, t.target)
           /\ \A row \in PayoutView(r), p \in Exits : Due(row, p) > 0 =>
                 [run |-> r, customer |-> row.customer, target |-> p, amount |-> Due(row, p)]
                     \in transactions'
           /\ transactions \subseteq transactions'
<1>1. PayoutView(r) \subseteq payout
  BY DEF PayoutView, RowsOf
<1>2. balance' \in [Customers -> Nat]
  <2> SUFFICES ASSUME NEW c \in Customers
               PROVE  balance'[c] \in Nat
    BY DEF SetPayoutRunAsDone
  <2>1. CASE \E row \in PayoutView(r) : row.customer = c
    <3> DEFINE row == CHOOSE x \in PayoutView(r) : x.customer = c
    <3>1. row \in PayoutView(r) /\ row.customer = c
      BY <2>1
    <3>2. balance'[c] = balance[c] - Due(row, "sepa_exit") - Due(row, "donation_exit")
      BY <2>1 DEF SetPayoutRunAsDone
    <3>3. balance[c] >= Due(row, "sepa_exit") + Due(row, "donation_exit")
      BY <3>1 DEF SetPayoutRunAsDone
    <3>4. balance[c] \in Nat
      BY DEF IInv, TypeOK
    <3>5. Due(row, "sepa_exit") \in Nat /\ Due(row, "donation_exit") \in Nat
      BY <1>1, <3>1, DueFact DEF IInv, Exits
    <3> HIDE DEF row
    <3> QED
      BY <3>2, <3>3, <3>4, <3>5
  <2>2. CASE ~\E row \in PayoutView(r) : row.customer = c
    BY <2>2 DEF SetPayoutRunAsDone, IInv, TypeOK
  <2> QED
    BY <2>1, <2>2
<1>3. \A row \in PayoutView(r), p \in Exits :
          Due(row, p) \in Nat /\ row.customer \in Customers
  BY <1>1, DueFact DEF IInv, TypeOK
<1> QED
  BY <1>2, <1>3 DEF SetPayoutRunAsDone

LEMMA DoneInvariant ==
    ASSUME IInv, NEW r \in Runs, SetPayoutRunAsDone(r)
    PROVE  IInv'
<1>1. /\ run[r] = "open" /\ run' = [run EXCEPT ![r] = "done"]
      /\ UNCHANGED <<tagged, info, payout, sepa>>
  BY DEF SetPayoutRunAsDone, Open
<1>2. TypeOK'
  BY <1>1, DoneFact DEF IInv, TypeOK
<1>3. BookedAsScheduled'
  <2> SUFFICES ASSUME NEW t \in transactions'
               PROVE  /\ run'[t.run] = "done"
                      /\ \E row \in RowsOf(t.run) :
                            row.customer = t.customer /\ t.amount = Due(row, t.target)
    BY <1>1 DEF BookedAsScheduled, RowsOf, Due
  <2>1. CASE t \in transactions
    BY <1>1, <2>1 DEF IInv, BookedAsScheduled, TypeOK
  <2>2. CASE t \notin transactions
    BY <1>1, <2>2, DoneFact DEF PayoutView, IInv, TypeOK
  <2> QED
    BY <2>1, <2>2
<1> QED
  BY <1>1, <1>2, <1>3 DEF IInv, TypeOK, BankDataIsComplete, RowsBelongToRuns,
     OnePayoutPerCustomer, TransfersHaveIban, FileFollowsRun, RowsOf

LEMMA RevokeInvariant ==
    ASSUME IInv, NEW r \in Runs, RevokePayoutRun(r)
    PROVE  IInv'
<1>1. /\ run[r] = "open" /\ run' = [run EXCEPT ![r] = "revoked"]
      /\ payout' = payout \ RowsOf(r)
      /\ UNCHANGED <<balance, tagged, info, sepa, transactions>>
  BY DEF RevokePayoutRun, Open
<1>2. \A q \in Runs : q # r => RowsOf(q)' = RowsOf(q) /\ run'[q] = run[q]
  BY <1>1 DEF RowsOf, IInv, TypeOK
<1>3. TypeOK' /\ RowsBelongToRuns'
  BY <1>1 DEF IInv, TypeOK, RowsBelongToRuns, RowsOf
<1>4. FileFollowsRun'
  BY <1>1, <1>2 DEF IInv, TypeOK, FileFollowsRun
<1>5. BookedAsScheduled'
  <2>1. \A t \in transactions : t.run \in Runs /\ t.run # r
    BY <1>1 DEF IInv, TypeOK, BookedAsScheduled
  <2> QED
    BY <1>1, <1>2, <2>1 DEF IInv, BookedAsScheduled, Due
<1> QED
  BY <1>1, <1>3, <1>4, <1>5 DEF IInv, BankDataIsComplete, OnePayoutPerCustomer,
     TransfersHaveIban

\* One step for each operation.
LEMMA NextInvariant == IInv /\ [Next]_vars => IInv'
<1> SUFFICES ASSUME IInv, [Next]_vars PROVE IInv'
  OBVIOUS
<1>1. CASE CustomerStep \/ \E c \in Customers, export \in BOOLEAN : SetPayoutExport(c, export)
  BY <1>1, CustomerStepInvariant
<1>2. CASE \E r \in Runs, maxSum \in PayoutSums, maxNum \in 1 .. MaxNumPayouts :
              CreatePayoutRun(r, maxSum, maxNum)
  BY <1>2, CreateInvariant
<1>3. CASE \E r \in Runs : GetSepaXml(r) \/ SetPayoutRunAsDone(r) \/ RevokePayoutRun(r)
  BY <1>3, SepaInvariant, DoneInvariant, RevokeInvariant
<1>4. CASE UNCHANGED vars
  BY <1>4 DEF vars, IInv, TypeOK, BankDataIsComplete, RowsBelongToRuns,
     OnePayoutPerCustomer, TransfersHaveIban, FileFollowsRun, BookedAsScheduled, RowsOf, Due
<1> QED
  BY <1>1, <1>2, <1>3, <1>4 DEF Next, AdministratorStep

\* Rows only come by creating a run, and go by revoking one.
LEMMA WhoChangesRows ==
    ASSUME IInv, [Next]_vars, payout' # payout
    PROVE  \/ \E r \in Runs, maxSum \in PayoutSums, maxNum \in 1 .. MaxNumPayouts :
                 CreatePayoutRun(r, maxSum, maxNum)
           \/ \E r \in Runs : RevokePayoutRun(r)
<1>1. ~ (CustomerStep \/ \E c \in Customers, export \in BOOLEAN : SetPayoutExport(c, export))
  BY CustomerStepInvariant
<1>2. ~ UNCHANGED vars
  BY DEF vars
<1>3. \A r \in Runs : ~ (GetSepaXml(r) \/ SetPayoutRunAsDone(r))
  BY DEF GetSepaXml, SetPayoutRunAsDone
<1> QED
  BY <1>1, <1>2, <1>3 DEF Next, AdministratorStep

LEMMA Invariance == Spec => []IInv
BY InitInvariant, NextInvariant, PTL DEF Spec
-----------------------------------------------------------------------------
(* The theorems. *)

\* Balances never become negative, however runs and purchases interleave, and every
\* row, file and booking is of its type.
THEOREM TypeCorrect == Spec => []TypeOK
BY Invariance, PTL DEF IInv

\* A customer is never in two payouts, although the table would allow it.
THEOREM OnePayout == Spec => []OnePayoutPerCustomer
BY Invariance, PTL DEF IInv

\* The assertion that every customer in the file has a bank account never fails.
THEOREM IbanIsThere == Spec => []TransfersHaveIban
BY Invariance, PTL DEF IInv

\* The bank is told what the run has scheduled, whenever the file was made.
THEOREM FilesFollowRuns == Spec => []FileFollowsRun
BY Invariance, PTL DEF IInv

\* Nothing but what a done run has scheduled is ever booked.
THEOREM BookingsFollowRuns == Spec => []BookedAsScheduled
BY Invariance, PTL DEF IInv

\* What has been scheduled is not touched any more but by revoking the run.
THEOREM Frozen == Spec => FrozenOnceScheduled
<1>1. IInv /\ [Next]_vars =>
          [\A row \in payout : row \notin payout' =>
              Open(row.run) /\ run'[row.run] = "revoked"
              /\ RowsOf(row.run) \intersect payout' = {}]_vars
  <2> SUFFICES ASSUME IInv, [Next]_vars, NEW row \in payout, row \notin payout'
               PROVE  Open(row.run) /\ run'[row.run] = "revoked"
                      /\ RowsOf(row.run) \intersect payout' = {}
    OBVIOUS
  <2>1. PICK r \in Runs : RevokePayoutRun(r)
    BY WhoChangesRows DEF CreatePayoutRun
  <2> QED
    BY <2>1 DEF RevokePayoutRun, RowsOf, IInv, TypeOK
<1> QED
  BY <1>1, Invariance, PTL DEF Spec, FrozenOnceScheduled

\* Whoever is scheduled is scheduled with the whole balance.
THEOREM WholeBalance == Spec => WholeBalanceIsScheduled
<1>1. IInv /\ [Next]_vars =>
          [\A row \in payout' \ payout : row.amount + row.donation = balance[row.customer]]_vars
  <2> SUFFICES ASSUME IInv, [Next]_vars, NEW row \in payout' \ payout
               PROVE  row.amount + row.donation = balance[row.customer]
    OBVIOUS
  <2>1. PICK r \in Runs, maxSum \in PayoutSums, maxNum \in 1 .. MaxNumPayouts :
            CreatePayoutRun(r, maxSum, maxNum)
    BY WhoChangesRows DEF RevokePayoutRun
  <2>2. PICK c \in Scheduled(maxSum, maxNum) : row = NewRow(r, c)
    BY <2>1 DEF CreatePayoutRun
  <2> QED
    BY <2>2, ScheduledFact, NewRowFact DEF IInv
<1> QED
  BY <1>1, Invariance, PTL DEF Spec, WholeBalanceIsScheduled

-----------------------------------------------------------------------------
(* Refinement: creating, revoking and finishing a run are the steps of         *)
(* PayoutPromise, for the customers the run is about.                          *)

\* Where a customer with a row stands.
LEMMA StandingFact ==
    ASSUME IInv, NEW row \in payout
    PROVE  /\ row.customer \in Customers /\ row.run \in Runs
           /\ Claim[row.customer] = IF run[row.run] = "done" THEN "settled" ELSE "scheduled"
           /\ \A p \in Exits : DueTo[row.customer][p] = Due(row, p)
<1>1. InPayout(row.customer) /\ RowFor(row.customer) = row
  BY RowForFact DEF InPayout, IInv
<1>2. row.customer \in Customers /\ row.run \in Runs
  BY DEF IInv, TypeOK
<1> QED
  BY <1>1, <1>2 DEF Claim, DueTo

LEMMA UntouchedFact ==
    UNCHANGED <<run, payout, transactions>> => UNCHANGED <<Claim, DueTo, Moved>>
BY DEF Claim, DueTo, Moved, BookedFor, InPayout, RowFor, Due

LEMMA CreateRefines ==
    ASSUME IInv, IInv', NEW r \in Runs, NEW maxSum, NEW maxNum,
           CreatePayoutRun(r, maxSum, maxNum)
    PROVE  Promise!Schedule(Scheduled(maxSum, maxNum))
<1> DEFINE S == Scheduled(maxSum, maxNum)
<1>1. /\ run[r] = "none" /\ run' = [run EXCEPT ![r] = "open"]
      /\ payout' = payout \union {NewRow(r, c) : c \in S}
      /\ UNCHANGED transactions
  BY DEF CreatePayoutRun, NextRun
<1>2. S \subseteq Pending /\ S \subseteq Customers
  BY ScheduledFact
<1>3. \A c \in S : NewRow(r, c) \in payout' /\ NewRow(r, c).customer = c /\ NewRow(r, c).run = r
  BY <1>1, <1>2, NewRowFact DEF IInv
<1>4. \A c \in S : Claim[c] = "none"
  BY <1>2 DEF Pending, Claim
<1> HIDE DEF S
<1>5. ASSUME NEW c \in S
      PROVE  Claim'[c] = "scheduled"
  <2>1. NewRow(r, c) \in payout'
    BY <1>3
  <2> DEFINE row == NewRow(r, c)
  <2>2. row.customer = c /\ row.run = r
    BY <1>3
  <2>3. (RowFor(c))' = row
    BY <2>1, <2>2 DEF RowFor, OnePayoutPerCustomer, IInv
  <2>4. run'[r] = "open"
    BY <1>1 DEF IInv, TypeOK
  <2>5. (InPayout(c))'
    BY <2>1, <2>2 DEF InPayout
  <2> HIDE DEF row
  <2> QED
    BY <1>2, <2>2, <2>3, <2>4, <2>5 DEF Claim
<1>6. ASSUME NEW c \in Customers \ S
      PROVE  Claim'[c] = Claim[c] /\ DueTo'[c] = DueTo[c]
  <2>1. \A row : row \in payout' /\ row.customer = c <=> row \in payout /\ row.customer = c
    BY <1>1, <1>2, NewRowFact DEF IInv
  <2>2. (InPayout(c))' <=> InPayout(c)
    BY <2>1 DEF InPayout
  <2>3. CASE ~InPayout(c)
    BY <2>2, <2>3 DEF Claim, DueTo
  <2>4. CASE InPayout(c)
    <3>1. PICK row \in payout : row.customer = c
      BY <2>4 DEF InPayout
    <3>2. RowFor(c) = row
      BY <3>1, RowForFact DEF IInv
    <3>3. (RowFor(c))' = row
      BY <2>1, <3>1 DEF RowFor, OnePayoutPerCustomer, IInv
    <3>4. run'[row.run] = run[row.run]
      BY <1>1, <3>1 DEF IInv, RowsBelongToRuns, TypeOK
    <3> QED
      BY <2>2, <2>4, <3>2, <3>3, <3>4 DEF Claim, DueTo, Due
  <2> QED
    BY <2>3, <2>4
<1>7. DueTo' \in [Customers -> [Exits -> Nat]]
  <2> SUFFICES ASSUME NEW c \in Customers, NEW p \in Exits
               PROVE  DueTo'[c][p] \in Nat
    BY DEF DueTo
  <2>1. CASE ~(InPayout(c))'
    BY <2>1 DEF DueTo
  <2>2. CASE (InPayout(c))'
    <3>1. PICK row \in payout' : row.customer = c
      BY <2>2 DEF InPayout
    <3>2. (RowFor(c))' = row
      BY <3>1 DEF RowFor, OnePayoutPerCustomer, IInv
    <3>3. (Due(row, p))' \in Nat
      BY <3>1 DEF Due, IInv, TypeOK
    <3> QED
      BY <2>2, <3>2, <3>3 DEF DueTo, Due
  <2> QED
    BY <2>1, <2>2
<1>8. Claim' = [c \in Customers |-> IF c \in S THEN "scheduled" ELSE Claim[c]]
  BY <1>2, <1>5, <1>6 DEF Claim
<1>9. UNCHANGED Moved
  BY <1>1 DEF Moved, BookedFor
<1> QED
  BY <1>4, <1>6, <1>7, <1>8, <1>9 DEF Promise!Schedule, Promise!Purposes, Exits, S

LEMMA RevokeRefines ==
    ASSUME IInv, IInv', NEW r \in Runs, RevokePayoutRun(r)
    PROVE  Promise!CallOff({row.customer : row \in RowsOf(r)})
<1> DEFINE S == {row.customer : row \in RowsOf(r)}
<1>1. /\ run[r] = "open" /\ run' = [run EXCEPT ![r] = "revoked"]
      /\ payout' = payout \ RowsOf(r)
      /\ UNCHANGED transactions
  BY DEF RevokePayoutRun, Open
<1>2. \A row \in RowsOf(r) : row \in payout /\ row.run = r
  BY DEF RowsOf
<1>3. S \subseteq Customers /\ \A c \in S : Claim[c] = "scheduled"
  BY <1>1, <1>2, StandingFact
<1>4. ASSUME NEW c \in S
      PROVE  ~(InPayout(c))'
  BY <1>1, <1>2 DEF InPayout, OnePayoutPerCustomer, IInv
<1>5. ASSUME NEW c \in Customers \ S
      PROVE  Claim'[c] = Claim[c] /\ DueTo'[c] = DueTo[c]
  <2>1. \A row : row \in payout' /\ row.customer = c <=> row \in payout /\ row.customer = c
    BY <1>1
  <2>2. (InPayout(c))' <=> InPayout(c)
    BY <2>1 DEF InPayout
  <2>3. CASE ~InPayout(c)
    BY <2>2, <2>3 DEF Claim, DueTo
  <2>4. CASE InPayout(c)
    <3>1. PICK row \in payout : row.customer = c
      BY <2>4 DEF InPayout
    <3>2. RowFor(c) = row
      BY <3>1, RowForFact DEF IInv
    <3>3. (RowFor(c))' = row
      BY <2>1, <3>1 DEF RowFor, OnePayoutPerCustomer, IInv
    <3>4. row.run # r
      BY <3>1 DEF RowsOf
    <3>5. run'[row.run] = run[row.run]
      BY <1>1, <3>1, <3>4 DEF IInv, TypeOK
    <3> QED
      BY <2>2, <2>4, <3>2, <3>3, <3>5 DEF Claim, DueTo, Due
  <2> QED
    BY <2>3, <2>4
<1> HIDE DEF S
<1>6. Claim' = [c \in Customers |-> IF c \in S THEN "none" ELSE Claim[c]]
  BY <1>3, <1>4, <1>5 DEF Claim
<1>7. DueTo' = [c \in Customers |-> IF c \in S THEN Promise!Nothing ELSE DueTo[c]]
  <2>1. ASSUME NEW c \in S
        PROVE  DueTo'[c] = Promise!Nothing
    BY <1>3, <1>4, <2>1 DEF DueTo, Promise!Nothing, Promise!Purposes, Exits
  <2> QED
    BY <1>3, <1>5, <2>1 DEF DueTo
<1>8. UNCHANGED Moved
  BY <1>1 DEF Moved, BookedFor
<1> QED
  BY <1>3, <1>6, <1>7, <1>8 DEF Promise!CallOff, S

LEMMA DoneRefines ==
    ASSUME IInv, IInv', NEW r \in Runs, SetPayoutRunAsDone(r)
    PROVE  Promise!Settle({row.customer : row \in RowsOf(r)})
<1> DEFINE S == {row.customer : row \in RowsOf(r)}
           paid == {row.customer : row \in PayoutView(r)}
<1>1. /\ run[r] = "open" /\ run' = [run EXCEPT ![r] = "done"]
      /\ UNCHANGED payout
  BY DEF SetPayoutRunAsDone, Open
<1>2. \A row \in RowsOf(r) : row \in payout /\ row.run = r
  BY DEF RowsOf
<1>3. S \subseteq Customers /\ \A c \in S : Claim[c] = "scheduled"
  BY <1>1, <1>2, StandingFact
<1>4. paid \subseteq S
  BY DEF PayoutView
<1>5. UNCHANGED DueTo
  BY <1>1 DEF DueTo, InPayout, RowFor, Due
<1>6. ASSUME NEW c \in Customers
      PROVE  Claim'[c] = IF c \in S THEN "settled" ELSE Claim[c]
  <2>1. (InPayout(c))' <=> InPayout(c)
    BY <1>1 DEF InPayout
  <2>2. (RowFor(c))' = RowFor(c)
    BY <1>1 DEF RowFor
  <2>3. CASE ~InPayout(c)
    BY <1>2, <2>1, <2>3 DEF Claim, InPayout
  <2>4. CASE InPayout(c)
    <3>1. PICK row \in payout : row.customer = c
      BY <2>4 DEF InPayout
    <3>2. RowFor(c) = row /\ row.run \in Runs
      BY <3>1, RowForFact DEF IInv, TypeOK
    <3>3. c \in S <=> row.run = r
      BY <3>1 DEF RowsOf, OnePayoutPerCustomer, IInv
    <3>4. run'[row.run] = IF row.run = r THEN "done" ELSE run[row.run]
      BY <1>1, <3>2 DEF IInv, TypeOK
    <3> QED
      BY <2>1, <2>2, <2>4, <3>2, <3>3, <3>4 DEF Claim
  <2> QED
    BY <2>3, <2>4
\* Nothing had been booked before for whom the run is about.
<1>7. ASSUME NEW c \in S, NEW p \in Exits
      PROVE  BookedFor(c, p) = {}
  <2>1. PICK row \in RowsOf(r) : row.customer = c
    OBVIOUS
  <2> QED
    BY <1>1, <1>2, <2>1 DEF BookedFor, IInv, BookedAsScheduled, OnePayoutPerCustomer, RowsOf
<1>8. ASSUME NEW c \in Customers, NEW p \in Exits
      PROVE  Moved'[c][p] = IF c \in paid THEN DueTo[c][p] ELSE Moved[c][p]
  <2>1. CASE c \notin paid
    <3>1. (BookedFor(c, p))' = BookedFor(c, p)
      BY <2>1, DoneFact DEF BookedFor
    <3> QED
      BY <2>1, <3>1 DEF Moved
  <2>2. CASE c \in paid
    <3>1. PICK row \in PayoutView(r) : row.customer = c
      BY <2>2
    <3>2. row \in payout /\ DueTo[c][p] = Due(row, p) /\ Due(row, p) \in Nat
      BY <1>2, <3>1, StandingFact, DueFact DEF PayoutView, IInv
    <3>3. BookedFor(c, p) = {}
      BY <1>4, <1>7, <2>2
    <3>4. \A t \in (BookedFor(c, p))' : t.amount = Due(row, p) /\ t.amount > 0
      <4> SUFFICES ASSUME NEW t \in (BookedFor(c, p))'
                   PROVE  t.amount = Due(row, p) /\ t.amount > 0
        OBVIOUS
      <4>1. t \in transactions' \ transactions /\ t.customer = c /\ t.target = p
        BY <3>3 DEF BookedFor
      <4>2. PICK x \in PayoutView(r) : x.customer = c /\ t.amount = Due(x, p)
        BY <4>1, DoneFact
      <4>3. x = row
        BY <3>1, <4>2, <1>2 DEF PayoutView, OnePayoutPerCustomer, IInv
      <4> QED
        BY <4>1, <4>2, <4>3, DoneFact
    <3>5. Due(row, p) > 0 => (BookedFor(c, p))' # {}
      <4> DEFINE t == [run |-> r, customer |-> row.customer, target |-> p, amount |-> Due(row, p)]
      <4>1. Due(row, p) > 0 => t \in transactions'
        BY <3>1, DoneFact
      <4>2. t.customer = c /\ t.target = p
        BY <3>1
      <4> HIDE DEF t
      <4> QED
        BY <4>1, <4>2 DEF BookedFor
    <3>6. CASE Due(row, p) > 0
      <4>1. (BookedFor(c, p))' # {}
        BY <3>5, <3>6
      <4>2. Moved'[c][p] = (CHOOSE t \in (BookedFor(c, p))' : TRUE).amount
        BY <4>1 DEF Moved
      <4> QED
        BY <2>2, <3>2, <3>4, <4>1, <4>2
    <3>7. CASE Due(row, p) = 0
      <4>1. (BookedFor(c, p))' = {}
        BY <3>4, <3>7
      <4> QED
        BY <2>2, <3>2, <3>7, <4>1 DEF Moved
    <3> QED
      BY <3>2, <3>6, <3>7
  <2> QED
    BY <2>1, <2>2
<1> HIDE DEF S, paid
<1>9. Claim' = [c \in Customers |-> IF c \in S THEN "settled" ELSE Claim[c]]
  BY <1>6 DEF Claim
<1>10. Moved' = [c \in Customers |-> IF c \in paid THEN DueTo[c] ELSE Moved[c]]
  BY <1>8 DEF Moved, DueTo
<1> QED
  BY <1>3, <1>4, <1>5, <1>9, <1>10 DEF Promise!Settle, S

LEMMA StepRefines ==
    IInv /\ IInv' /\ [Next]_vars => [Promise!Next]_(Promise!vars)
<1> SUFFICES ASSUME IInv, IInv', [Next]_vars
             PROVE  Promise!Next \/ UNCHANGED <<Claim, DueTo, Moved>>
  BY DEF Promise!vars
<1>1. CASE CustomerStep \/ \E c \in Customers, export \in BOOLEAN : SetPayoutExport(c, export)
  BY <1>1, CustomerStepInvariant, UntouchedFact
<1>2. ASSUME NEW r \in Runs, NEW maxSum, NEW maxNum, CreatePayoutRun(r, maxSum, maxNum)
      PROVE  Promise!Next
  BY <1>2, CreateRefines, ScheduledFact DEF Promise!Next
<1>3. ASSUME NEW r \in Runs, GetSepaXml(r)
      PROVE  UNCHANGED <<Claim, DueTo, Moved>>
  BY <1>3, UntouchedFact DEF GetSepaXml
<1>4. ASSUME NEW r \in Runs, SetPayoutRunAsDone(r) \/ RevokePayoutRun(r)
      PROVE  Promise!Next
  <2>1. {row.customer : row \in RowsOf(r)} \subseteq Customers
    BY DEF RowsOf, IInv, TypeOK
  <2> QED
    BY <1>4, <2>1, DoneRefines, RevokeRefines DEF Promise!Next
<1>5. CASE UNCHANGED vars
  BY <1>5, UntouchedFact DEF vars
<1> QED
  BY <1>1, <1>2, <1>3, <1>4, <1>5 DEF Next, AdministratorStep

\* Payout runs implement PayoutPromise: scheduled, called off and settled as a whole,
\* and what moves is what was due, once.
THEOREM Refinement == Spec => ImplementsPromise
<1>1. Init => Promise!Init
  BY DEF Init, Promise!Init, Claim, DueTo, Moved, BookedFor, InPayout,
         Promise!Nothing, Promise!Purposes, Exits
<1> QED
  BY <1>1, InitInvariant, NextInvariant, StepRefines, PTL
     DEF Spec, ImplementsPromise, Promise!Spec
=============================================================================
