---------------------------- MODULE SumupTopUp -------------------------------
(***************************************************************************)
(* Card top-ups, from the terminal and from the customer portal.           *)
(*                                                                         *)
(* A top-up is announced to the backend as a pending order, paid at SumUp  *)
(* and then booked. Four actors race on it: the terminal app, which books  *)
(* or cancels it; the customer portal, which polls it; the backend worker, *)
(* which asks SumUp about pending orders it read a while ago; and SumUp,   *)
(* where the payment really happens.                                       *)
(*                                                                         *)
(* Every service call is one database transaction and one action here.     *)
(* The worker is the exception: it reads the pending orders outside any    *)
(* transaction and then processes them one transaction each.               *)
(***************************************************************************)
EXTENDS Ledger, Sequences

CONSTANTS
    Orders,         \* the uuids of the top-ups
    OnlineOrders,   \* those made in the customer portal
    Customers,      \* the customer accounts
    CustomerOf,     \* the customer an order tops up
    AmountOf,       \* the amount of an order
    MaxBalance,     \* event.max_account_balance
    Poison          \* orders whose processing keeps failing with an error

TerminalOrders == Orders \ OnlineOrders

Accounts == Customers \union {"sumup_entry", "sumup_online_entry"}

EntryOf == [o \in Orders |->
    IF o \in OnlineOrders THEN "sumup_online_entry" ELSE "sumup_entry"]

ASSUME OrdersAssumption == OnlineOrders \subseteq Orders /\ Poison \subseteq Orders
ASSUME CustomersAssumption ==
    {"sumup_entry", "sumup_online_entry"} \intersect Customers = {}
ASSUME ContentAssumption ==
    /\ CustomerOf \in [Orders -> Customers]
    /\ AmountOf \in [Orders -> Nat \ {0}]
    /\ MaxBalance \in Nat

VARIABLES
    pending,    \* status of an order's row in pending_sumup_order
    expired,    \* orders created longer than sumup_payment_timeout ago
    ordr,       \* uuids in the table ordr
    balance,    \* account balances
    sumup,      \* what became of the payment at SumUp
    client,     \* where the app or the portal is with an order
    batch       \* the rows the worker has read and not yet processed

vars == <<pending, expired, ordr, balance, sumup, client, batch>>

RowStatus == {"none", "pending", "booked", "cancelled"}

\* A payment is open until it is accepted or fails. SumUp reports an accepted
\* one as successful only after a while, and may have it refunded later.
PaymentState == {"none", "open", "accepted", "successful", "failed", "refunded"}
Paid == {"accepted", "successful", "refunded"}

ClientState == {"idle", "announced", "paying", "failing", "confirmed", "done"}

Init ==
    /\ pending = [o \in Orders |-> "none"]
    /\ expired = {}
    /\ ordr = {}
    /\ balance = [a \in Accounts |-> 0]
    /\ sumup = [o \in Orders |-> "none"]
    /\ client = [o \in Orders |-> "idle"]
    /\ batch = <<>>

-----------------------------------------------------------------------------
(* Mutated forms of definitions below, each a bug that is easy to write. They  *)
(* are not part of the specification; the properties have to tell them apart.  *)

\* The uuid is not looked up, or nothing is booked at all.
MakeTopupBookings_Again(o) ==
    /\ ordr' = ordr \union {o}
    /\ balance' = BookTransaction(balance, EntryOf[o], CustomerOf[o], AmountOf[o])
MakeTopupBookings_Nothing(o) == UNCHANGED <<ordr, balance>>

\* A booked row gets SumUp's word for it.
SetStatus_Raw(o, status) ==
    pending' = [pending EXCEPT ![o] = IF status = "booked" THEN sumup[o] ELSE status]

\* A payment that SumUp knows and that has not failed is taken for successful.
Confirmed_Known(o) == sumup[o] \in {"open", "accepted", "successful"}

\* Pending orders never time out.
TimedOut_Never(o) == FALSE

\* The row is cancelled whatever its status is.
CancelPendingOrder_Any(o) ==
    /\ client[o] = "failing"
    /\ pending' = [pending EXCEPT ![o] = "cancelled"]
    /\ client' = [client EXCEPT ![o] = "done"]
    /\ UNCHANGED <<expired, ordr, balance, sumup, batch>>

\* The worker leaves expired rows alone.
PendingRows_Recent == {o \in Orders \ expired: pending[o] = "pending"}

-----------------------------------------------------------------------------
(* Booking. *)

\* book_order looks the uuid up first: a second booking changes nothing.
MakeTopupBookings(o) ==
    /\ ordr' = ordr \union {o}
    /\ balance' = IF o \in ordr THEN balance
                  ELSE BookTransaction(balance, EntryOf[o], CustomerOf[o], AmountOf[o])

SetStatus(o, status) == pending' = [pending EXCEPT ![o] = status]

\* The balance limit is checked when an order is announced and when it is
\* booked by the app, never when a pending order is booked.
WithinLimit(o) == balance[CustomerOf[o]] + AmountOf[o] <= MaxBalance

CheckTopup(o) == o \notin ordr /\ WithinLimit(o)

\* What SumUp has to say of a payment. The portal's are looked up by their
\* checkout, which knows nothing of a refund; a terminal payment is looked up by
\* its transaction, and counts as failed once it is refunded.
Confirmed(o) ==
    sumup[o] = "successful" \/ (o \in OnlineOrders /\ sumup[o] = "refunded")
Rejected(o) ==
    sumup[o] = "failed" \/ (o \in TerminalOrders /\ sumup[o] = "refunded")
TimedOut(o) == o \in expired

\* process_pending_order: it trusts the caller's copy of the row and never
\* looks at the row's status again.
ProcessPendingOrder(o) ==
    \/ /\ Confirmed(o)
       /\ MakeTopupBookings(o)
       /\ SetStatus(o, "booked")
    \/ /\ ~Confirmed(o)
       /\ IF Rejected(o) \/ TimedOut(o) THEN SetStatus(o, "cancelled") ELSE UNCHANGED pending
       /\ UNCHANGED <<ordr, balance>>

-----------------------------------------------------------------------------
(* The terminal app and the calls it makes. *)

\* book_topup(pending=True): the row is inserted. The answer may get lost, and
\* the app then gives up without starting the payment.
Announce(o) ==
    /\ client[o] = "idle" /\ o \in TerminalOrders
    /\ pending[o] = "none"
    /\ CheckTopup(o)
    /\ SetStatus(o, "pending")
    /\ \E next \in {"announced", "done"}: client' = [client EXCEPT ![o] = next]
    /\ UNCHANGED <<expired, ordr, balance, sumup, batch>>

StartPayment(o) ==
    /\ client[o] = "announced"
    /\ client' = [client EXCEPT ![o] = "paying"]
    /\ sumup' = [sumup EXCEPT ![o] = "open"]
    /\ UNCHANGED <<pending, expired, ordr, balance, batch>>

PaymentReportedSuccess(o) ==
    /\ client[o] = "paying" /\ o \in TerminalOrders
    /\ sumup[o] \in Paid
    /\ client' = [client EXCEPT ![o] = "confirmed"]
    /\ UNCHANGED <<pending, expired, ordr, balance, sumup, batch>>

\* The SumUp activity returns an error, no result at all or the result of
\* another payment. None of these says that the payment did not happen.
PaymentReportedFailure(o) ==
    /\ client[o] = "paying" /\ o \in TerminalOrders
    /\ client' = [client EXCEPT ![o] = "failing"]
    /\ UNCHANGED <<pending, expired, ordr, balance, sumup, batch>>

\* cancel_pending_order. It asks SumUp whether the payment exists, but the
\* answer is a boolean and is compared with None: the order is cancelled
\* either way.
CancelPendingOrder(o) ==
    /\ client[o] = "failing"
    /\ IF pending[o] = "pending" THEN SetStatus(o, "cancelled") ELSE UNCHANGED pending
    /\ client' = [client EXCEPT ![o] = "done"]
    /\ UNCHANGED <<expired, ordr, balance, sumup, batch>>

\* book_topup(pending=False) of a sumup order. A pending row is processed
\* first and settles the matter if SumUp reports success; otherwise the app is
\* believed and the order is booked directly. The call is one transaction: when
\* check_topup refuses, nothing of it remains. The app keeps the request until
\* an answer arrives, so the call may be repeated.
BookTopup(o) ==
    /\ client[o] = "confirmed"
    /\ \/ /\ pending[o] = "pending" /\ Confirmed(o)
          /\ ProcessPendingOrder(o)
       \/ /\ pending[o] = "pending" /\ ~Confirmed(o)
          /\ CheckTopup(o)
          /\ IF Rejected(o) \/ TimedOut(o) THEN SetStatus(o, "cancelled") ELSE UNCHANGED pending
          /\ MakeTopupBookings(o)
       \/ /\ pending[o] # "pending"
          /\ CheckTopup(o)
          /\ MakeTopupBookings(o)
          /\ UNCHANGED pending
    /\ \E next \in {"confirmed", "done"}: client' = [client EXCEPT ![o] = next]
    /\ UNCHANGED <<expired, sumup, batch>>

\* The app crashes, loses the network or its user dismisses the request.
GiveUp(o) ==
    /\ client[o] \in {"announced", "paying", "failing", "confirmed"}
    /\ client' = [client EXCEPT ![o] = "done"]
    /\ UNCHANGED <<pending, expired, ordr, balance, sumup, batch>>

-----------------------------------------------------------------------------
(* The customer portal. *)

\* create_online_topup_checkout: the checkout is opened at SumUp, then the row
\* is inserted.
CreateOnlineCheckout(o) ==
    /\ client[o] = "idle" /\ o \in OnlineOrders
    /\ WithinLimit(o)
    /\ sumup' = [sumup EXCEPT ![o] = "open"]
    /\ SetStatus(o, "pending")
    /\ client' = [client EXCEPT ![o] = "paying"]
    /\ UNCHANGED <<expired, ordr, balance, batch>>

\* check_online_topup_checkout of the portal and check_pending_topup of the
\* terminal: both process the row if it is still pending.
CheckPending(o) ==
    /\ client[o] = "paying" /\ pending[o] = "pending"
    /\ ProcessPendingOrder(o)
    /\ UNCHANGED <<expired, sumup, client, batch>>

-----------------------------------------------------------------------------
(* SumUp and the passing of time. *)

SumupMoves == {<<"open", "accepted">>, <<"open", "failed">>,
               <<"accepted", "successful">>, <<"successful", "refunded">>}

SumupStep(o) ==
    /\ \E move \in SumupMoves:
          sumup[o] = move[1] /\ sumup' = [sumup EXCEPT ![o] = move[2]]
    /\ UNCHANGED <<pending, expired, ordr, balance, client, batch>>

Expire(o) ==
    /\ pending[o] # "none" /\ o \notin expired
    /\ expired' = expired \union {o}
    /\ UNCHANGED <<pending, ordr, balance, sumup, client, batch>>

-----------------------------------------------------------------------------
(* The worker of run_sumup_pending_order_processing. *)

PendingRows == {o \in Orders: pending[o] = "pending"}

\* The results of fetch_pending_orders: pending rows whose check is due, in any
\* order. When a check is due is left open.
Scans == UNION {Injection(1..n, PendingRows) : n \in 1..Cardinality(PendingRows)}

WorkerFetch(s) ==
    /\ batch = <<>>
    /\ batch' = s
    /\ UNCHANGED <<pending, expired, ordr, balance, sumup, client>>

WorkerProcess(o) ==
    /\ batch # <<>> /\ Head(batch) = o
    /\ ProcessPendingOrder(o)
    /\ batch' = Tail(batch)
    /\ UNCHANGED <<expired, sumup, client>>

\* The try block is around the whole loop: an error in one order (SumUp does
\* not answer, the till is gone) rolls its transaction back and drops the rest
\* of the batch. So does a restart of the process.
WorkerRaise ==
    /\ batch # <<>>
    /\ batch' = <<>>
    /\ UNCHANGED <<pending, expired, ordr, balance, sumup, client>>

-----------------------------------------------------------------------------
TerminalStep(o) ==
    \/ Announce(o) \/ StartPayment(o)
    \/ PaymentReportedSuccess(o) \/ PaymentReportedFailure(o)
    \/ CancelPendingOrder(o) \/ BookTopup(o) \/ GiveUp(o)

PortalStep(o) == CreateOnlineCheckout(o) \/ CheckPending(o)

WorkerAdvance == WorkerRaise \/ \E o \in Orders: WorkerProcess(o)

WorkerStep == WorkerAdvance \/ \E s \in Scans: WorkerFetch(s)

Next == \/ \E o \in Orders: TerminalStep(o) \/ PortalStep(o) \/ SumupStep(o) \/ Expire(o)
        \/ WorkerStep

Spec == Init /\ [][Next]_vars

\* The worker polls for ever, a round always ends, and an order is not left out
\* of the rounds for ever: its check_interval is bounded. Processing an order
\* that is tried again and again succeeds in the end, unless it is poison.
\* Time passes, and SumUp reports an accepted payment as successful. Nobody is
\* obliged to pay, and no app or portal is obliged to do anything.
Fairness ==
    /\ \A o \in Orders:
          /\ SF_vars(\E s \in Scans: o \in Range(s) /\ WorkerFetch(s))
          /\ WF_vars(Expire(o))
          /\ WF_vars(sumup[o] = "accepted" /\ SumupStep(o))
    /\ WF_vars(WorkerAdvance)
    /\ \A o \in Orders \ Poison: SF_vars(WorkerProcess(o))

FairSpec == Spec /\ Fairness

-----------------------------------------------------------------------------
(* Properties. *)

\* Every variable stays in its range, and the worker holds existing rows only.
TypeOK ==
    /\ pending \in [Orders -> RowStatus]
    /\ expired \subseteq Orders
    /\ ordr \subseteq Orders
    /\ balance \in [Accounts -> Int]
    /\ sumup \in [Orders -> PaymentState]
    /\ client \in [Orders -> ClientState]
    /\ batch \in Seq(Orders)

\* An order is credited only if its payment went through at SumUp, although
\* the app's word is taken for it when SumUp does not confirm it yet.
CreditOnlyIfPaid == \A o \in ordr: sumup[o] \in Paid

\* A row marked booked has its order in the ledger.
BookedHasOrder == \A o \in Orders: pending[o] = "booked" => o \in ordr

\* Whoever books an order, and however often, a customer owns the sum of the
\* customer's booked orders, and the entry accounts owe exactly that.
LedgerMatchesOrders ==
    /\ \A c \in Customers:
          balance[c] = SumOver(AmountOf, {o \in ordr: CustomerOf[o] = c})
    /\ \A e \in Accounts \ Customers:
          balance[e] = -SumOver(AmountOf, {o \in ordr: EntryOf[o] = e})

\* A row leaves booked or cancelled only through a worker that read it while
\* it was pending.
SettledUnlessStale ==
    [][\A o \in Orders:
          pending[o] \in {"booked", "cancelled"} /\ pending'[o] # pending[o]
             => o \in Range(batch)]_vars

\* Every order and every credit goes the way TopUpPromise says.
PaidOrders == {o \in Orders: sumup[o] \in Paid}
Promise == INSTANCE TopUpPromise WITH paid <- PaidOrders, credited <- ordr
ImplementsPromise == Promise!Spec

\* No row is polled for ever: the worker settles it, at the latest after the
\* payment timeout.
PendingRowsSettle ==
    \A o \in Orders \ Poison: pending[o] = "pending" ~> pending[o] # "pending"

\* If the app's booking does not reach the backend, the backend books a paid
\* order on its own, as long as nobody cancels it and it is not refunded first.
PaidPendingIsBooked ==
    \A o \in Orders \ Poison:
        (sumup[o] = "successful" /\ pending[o] = "pending")
            ~> \/ o \in ordr
               \/ sumup[o] = "refunded"
               \/ client[o] = "done" /\ pending[o] = "cancelled"

\* An announced terminal payment that SumUp reports as successful within the
\* timeout is booked, whatever the terminal gets to hear of it.
PaidIsBooked ==
    \A o \in TerminalOrders:
        (sumup[o] = "successful" /\ o \notin expired)
            ~> (o \in ordr \/ sumup[o] = "refunded")

\* No customer account goes above the limit of the event.
BalanceLimited == \A c \in Customers: balance[c] <= MaxBalance
=============================================================================
