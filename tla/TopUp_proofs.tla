---------------------------- MODULE TopUp_proofs -----------------------------
(***************************************************************************)
(* Proofs about SumupTopUp and about TopUpPage, which is composed with it, *)
(* for any number of orders, customers, amounts and requests under way.    *)
(***************************************************************************)
EXTENDS TopUpPage, Ledger_proofs

\* The app only believes in payments that went through. This is what the direct
\* booking in book_topup rests on, and so part of the inductive invariant.
ConfirmedIsPaid == \A o \in Orders: client[o] = "confirmed" => sumup[o] \in Paid

\* SumUp knows nothing of a payment before it is started, so starting it cannot
\* undo one that went through.
UnstartedIsUnknown ==
    \A o \in Orders: client[o] \in {"idle", "announced"} => sumup[o] = "none"

IInv ==
    /\ TypeOK
    /\ CreditOnlyIfPaid
    /\ BookedHasOrder
    /\ ConfirmedIsPaid
    /\ UnstartedIsUnknown

-----------------------------------------------------------------------------
\* Booking a transaction keeps every balance an integer.
LEMMA BookingType ==
    ASSUME NEW S, NEW b \in [S -> Int], NEW s, NEW t, NEW n \in Int
    PROVE  BookTransaction(b, s, t, n) \in [S -> Int]
BY DEF BookTransaction, Post, Transaction

\* The bookings of an order only ever add that order to the ledger.
LEMMA MakeBookingsType ==
    ASSUME TypeOK, NEW o \in Orders, MakeTopupBookings(o)
    PROVE  /\ ordr' = ordr \union {o}
           /\ ordr' \subseteq Orders
           /\ balance' \in [Accounts -> Int]
<1>1. AmountOf[o] \in Int
  BY ContentAssumption
<1>2. BookTransaction(balance, EntryOf[o], CustomerOf[o], AmountOf[o]) \in [Accounts -> Int]
  BY <1>1, BookingType DEF TypeOK
<1> QED
  BY <1>2 DEF TypeOK, MakeTopupBookings

\* Processing a pending order credits it only if SumUp reports success, and
\* marks no other row than its own.
LEMMA ProcessFacts ==
    ASSUME TypeOK, BookedHasOrder, NEW o \in Orders, ProcessPendingOrder(o)
    PROVE  /\ pending' \in [Orders -> RowStatus]
           /\ ordr' \subseteq Orders
           /\ balance' \in [Accounts -> Int]
           /\ ordr' \subseteq ordr \union {x \in {o} : sumup[x] \in Paid}
           /\ \A x \in Orders: pending'[x] = "booked" => x \in ordr'
<1>1. CASE ~Confirmed(o)
  BY <1>1 DEF ProcessPendingOrder, SetStatus, TypeOK, RowStatus, BookedHasOrder
<1>2. CASE Confirmed(o)
  <2>1. MakeTopupBookings(o) /\ SetStatus(o, "booked")
    BY <1>2 DEF ProcessPendingOrder
  <2> QED
    BY <1>2, <2>1, MakeBookingsType DEF Confirmed, Paid, SetStatus, TypeOK, RowStatus, BookedHasOrder
<1> QED
  BY <1>1, <1>2

\* A booking call of the app credits only the app's own, paid order.
LEMMA BookFacts ==
    ASSUME IInv, NEW o \in Orders, BookTopup(o)
    PROVE  /\ pending' \in [Orders -> RowStatus]
           /\ ordr' \subseteq Orders
           /\ balance' \in [Accounts -> Int]
           /\ ordr' \subseteq ordr \union {o}
           /\ \A x \in Orders: pending'[x] = "booked" => x \in ordr'
<1> USE DEF IInv
<1>1. CASE pending[o] = "pending" /\ Confirmed(o) /\ ProcessPendingOrder(o)
  BY <1>1, ProcessFacts DEF Confirmed
<1>2. CASE /\ MakeTopupBookings(o)
           /\ SetStatus(o, "cancelled") \/ UNCHANGED pending
  BY <1>2, MakeBookingsType DEF SetStatus, TypeOK, RowStatus, BookedHasOrder
<1> QED
  BY <1>1, <1>2 DEF BookTopup

LEMMA InitInvariant == Init => IInv
BY DEF Init, IInv, TypeOK, CreditOnlyIfPaid, BookedHasOrder, ConfirmedIsPaid,
       UnstartedIsUnknown, RowStatus, PaymentState, ClientState

\* Every step keeps the inductive invariant.
LEMMA NextInvariant == IInv /\ [Next]_vars => IInv'
<1> SUFFICES ASSUME IInv, [Next]_vars PROVE IInv'
  OBVIOUS
<1> USE DEF IInv
<1>1. ASSUME NEW o \in Orders, Announce(o) PROVE IInv'
  BY <1>1 DEF Announce, SetStatus, TypeOK, CreditOnlyIfPaid, BookedHasOrder,
              ConfirmedIsPaid, UnstartedIsUnknown, RowStatus, ClientState
<1>2. ASSUME NEW o \in Orders, StartPayment(o) PROVE IInv'
  <2>1. sumup[o] = "none" /\ o \notin ordr
    BY <1>2 DEF StartPayment, UnstartedIsUnknown, CreditOnlyIfPaid, Paid
  <2> QED
    BY <1>2, <2>1 DEF StartPayment, TypeOK, CreditOnlyIfPaid, BookedHasOrder,
              ConfirmedIsPaid, UnstartedIsUnknown, PaymentState, ClientState
<1>3. ASSUME NEW o \in Orders, PaymentReportedSuccess(o) PROVE IInv'
  BY <1>3 DEF PaymentReportedSuccess, TypeOK, CreditOnlyIfPaid, BookedHasOrder,
              ConfirmedIsPaid, UnstartedIsUnknown, ClientState
<1>4. ASSUME NEW o \in Orders, PaymentReportedFailure(o) PROVE IInv'
  BY <1>4 DEF PaymentReportedFailure, TypeOK, CreditOnlyIfPaid, BookedHasOrder,
              ConfirmedIsPaid, UnstartedIsUnknown, ClientState
<1>5. ASSUME NEW o \in Orders, CancelPendingOrder(o) PROVE IInv'
  BY <1>5 DEF CancelPendingOrder, SetStatus, TypeOK, CreditOnlyIfPaid, BookedHasOrder,
              ConfirmedIsPaid, UnstartedIsUnknown, RowStatus, ClientState
<1>6. ASSUME NEW o \in Orders, BookTopup(o) PROVE IInv'
  <2>1. client[o] = "confirmed" /\ sumup[o] \in Paid
    BY <1>6 DEF BookTopup, ConfirmedIsPaid
  <2>2. PICK next \in {"confirmed", "done"} : client' = [client EXCEPT ![o] = next]
    BY <1>6 DEF BookTopup
  <2>3. UNCHANGED <<expired, sumup, batch>>
    BY <1>6 DEF BookTopup
  <2> QED
    BY <1>6, <2>1, <2>2, <2>3, BookFacts
       DEF TypeOK, CreditOnlyIfPaid, BookedHasOrder, ConfirmedIsPaid, UnstartedIsUnknown,
              ClientState
<1>7. ASSUME NEW o \in Orders, GiveUp(o) PROVE IInv'
  BY <1>7 DEF GiveUp, TypeOK, CreditOnlyIfPaid, BookedHasOrder, ConfirmedIsPaid, UnstartedIsUnknown,
              ClientState
<1>8. ASSUME NEW o \in Orders, CreateOnlineCheckout(o) PROVE IInv'
  <2>1. sumup[o] = "none" /\ o \notin ordr
    BY <1>8 DEF CreateOnlineCheckout, UnstartedIsUnknown, CreditOnlyIfPaid, Paid
  <2> QED
    BY <1>8, <2>1 DEF CreateOnlineCheckout, SetStatus, TypeOK, CreditOnlyIfPaid,
              BookedHasOrder, ConfirmedIsPaid, UnstartedIsUnknown, RowStatus,
              PaymentState, ClientState
<1>9. ASSUME NEW o \in Orders, CheckPending(o) PROVE IInv'
  BY <1>9, ProcessFacts
     DEF CheckPending, TypeOK, CreditOnlyIfPaid, BookedHasOrder, ConfirmedIsPaid,
         UnstartedIsUnknown, Paid
<1>10. ASSUME NEW o \in Orders, SumupStep(o) PROVE IInv'
  BY <1>10 DEF SumupStep, SumupMoves, TypeOK, CreditOnlyIfPaid, BookedHasOrder,
               ConfirmedIsPaid, UnstartedIsUnknown, UnstartedIsUnknown, PaymentState, Paid
<1>11. ASSUME NEW o \in Orders, Expire(o) PROVE IInv'
  BY <1>11 DEF Expire, TypeOK, CreditOnlyIfPaid, BookedHasOrder, ConfirmedIsPaid,
              UnstartedIsUnknown
<1>12. ASSUME NEW s \in Scans, WorkerFetch(s) PROVE IInv'
  <2>1. PICK n \in 1..Cardinality(PendingRows) : s \in Injection(1..n, PendingRows)
    BY <1>12 DEF Scans
  <2>2. n \in Nat /\ s \in [1..n -> Orders]
    <3>1. PendingRows \subseteq Orders
      BY DEF PendingRows
    <3>2. s \in [1..n -> PendingRows]
      BY <2>1 DEF Injection
    <3>3. n \in Nat
      OBVIOUS
    <3> QED
      BY <3>1, <3>2, <3>3
  <2>3. s \in Seq(Orders)
    BY <2>2
  <2> QED
    BY <1>12, <2>3 DEF WorkerFetch, TypeOK, CreditOnlyIfPaid, BookedHasOrder,
              ConfirmedIsPaid, UnstartedIsUnknown
<1>13. ASSUME NEW o \in Orders, WorkerProcess(o) PROVE IInv'
  <2>1. batch' \in Seq(Orders)
    BY <1>13 DEF WorkerProcess, TypeOK
  <2> QED
    BY <1>13, <2>1, ProcessFacts
       DEF WorkerProcess, TypeOK, CreditOnlyIfPaid, BookedHasOrder, ConfirmedIsPaid,
         UnstartedIsUnknown, Paid
<1>14. CASE WorkerRaise
  BY <1>14 DEF WorkerRaise, TypeOK, CreditOnlyIfPaid, BookedHasOrder, ConfirmedIsPaid,
              UnstartedIsUnknown
<1>15. CASE UNCHANGED vars
  BY <1>15 DEF vars, TypeOK, CreditOnlyIfPaid, BookedHasOrder, ConfirmedIsPaid,
              UnstartedIsUnknown
<1> QED
  BY <1>1, <1>2, <1>3, <1>4, <1>5, <1>6, <1>7, <1>8, <1>9, <1>10, <1>11, <1>12, <1>13,
     <1>14, <1>15 DEF Next, TerminalStep, PortalStep, WorkerStep, WorkerAdvance

\* Every variable keeps its type, whatever the order of the actors' steps.
THEOREM TypeCorrect == Spec => []TypeOK
<1>1. IInv => TypeOK
  BY DEF IInv
<1> QED
  BY <1>1, InitInvariant, NextInvariant, PTL DEF Spec

\* No customer is credited for a payment that did not go through: neither by a
\* stale worker nor by the direct booking of an app that SumUp does not confirm.
THEOREM NoCreditWithoutPayment == Spec => []CreditOnlyIfPaid
<1>1. IInv => CreditOnlyIfPaid
  BY DEF IInv
<1> QED
  BY <1>1, InitInvariant, NextInvariant, PTL DEF Spec

\* A row says booked only if the order is in the ledger.
THEOREM BookedRowsHaveOrders == Spec => []BookedHasOrder
<1>1. IInv => BookedHasOrder
  BY DEF IInv
<1> QED
  BY <1>1, InitInvariant, NextInvariant, PTL DEF Spec

-----------------------------------------------------------------------------
(* The ledger. The sums it speaks of are sums over finitely many orders, as    *)
(* every step books one at most.                                               *)

LedgerInv == IsFiniteSet(ordr) /\ LedgerMatchesOrders

\* What a booking does to the customers and to the entry accounts.
LEMMA BookingFacts ==
    ASSUME TypeOK, NEW o \in Orders
    PROVE  LET b == BookTransaction(balance, EntryOf[o], CustomerOf[o], AmountOf[o]) IN
           /\ \A a \in Customers :
                 b[a] = balance[a] + (IF CustomerOf[o] = a THEN AmountOf[o] ELSE 0)
           /\ \A a \in Accounts \ Customers :
                 b[a] = balance[a] - (IF EntryOf[o] = a THEN AmountOf[o] ELSE 0)
<1>1. AmountOf[o] \in Nat /\ CustomerOf[o] \in Customers
  BY ContentAssumption
<1>2. EntryOf[o] \in Accounts \ Customers
  BY CustomersAssumption DEF EntryOf, Accounts
<1>3. \A a \in Accounts : balance[a] \in Int
  BY DEF TypeOK
<1>4. DOMAIN balance = Accounts /\ Customers \subseteq Accounts
  BY DEF TypeOK, Accounts
<1> HIDE DEF Accounts
<1> QED
  BY <1>1, <1>2, <1>3, <1>4 DEF BookTransaction, Transaction, Post

\* Booking an order adds its amount to both sides, once.
LEMMA MakeBookingsMatch ==
    ASSUME TypeOK, LedgerInv, NEW o \in Orders, MakeTopupBookings(o)
    PROVE  LedgerInv'
<1>1. CASE o \in ordr
  <2>1. UNCHANGED <<ordr, balance>>
    BY <1>1 DEF MakeTopupBookings
  <2> QED
    BY <2>1 DEF LedgerInv, LedgerMatchesOrders
<1>2. CASE o \notin ordr
  <2>1. /\ ordr' = ordr \union {o}
        /\ balance' = BookTransaction(balance, EntryOf[o], CustomerOf[o], AmountOf[o])
    BY <1>2 DEF MakeTopupBookings
  <2>2. IsFiniteSet(ordr) /\ IsFiniteSet(ordr')
    BY <2>1, FS_AddElement DEF LedgerInv
  <2>3. IntOn(AmountOf, ordr \union {o})
    BY ContentAssumption DEF TypeOK, IntOn
  <2>4. \A a : /\ SumOver(AmountOf, {x \in ordr : CustomerOf[x] = a}) \in Int
               /\ SumOver(AmountOf, {x \in ordr : EntryOf[x] = a}) \in Int
    <3> SUFFICES ASSUME NEW S \in SUBSET ordr PROVE SumOver(AmountOf, S) \in Int
      OBVIOUS
    <3> QED
      BY <2>2, <2>3, FS_Subset, SumOverInt DEF IntOn
  <2>5. AmountOf[o] \in Int
    BY ContentAssumption
  <2>6. \A key, k : SumOver(AmountOf, Group(key, k, ordr \union {o}))
                       = SumOver(AmountOf, Group(key, k, ordr))
                            + (IF key[o] = k THEN AmountOf[o] ELSE 0)
    BY <1>2, <2>2, <2>3, SumOverGroup
  <2>7. ASSUME NEW a \in Customers
        PROVE  balance'[a] = SumOver(AmountOf, {x \in ordr' : CustomerOf[x] = a})
    <3>1. SumOver(AmountOf, {x \in ordr' : CustomerOf[x] = a})
             = SumOver(AmountOf, {x \in ordr : CustomerOf[x] = a})
                  + (IF CustomerOf[o] = a THEN AmountOf[o] ELSE 0)
      BY <2>1, <2>6 DEF Group
    <3>2. balance'[a] = balance[a] + (IF CustomerOf[o] = a THEN AmountOf[o] ELSE 0)
      BY <2>1, BookingFacts
    <3> QED
      BY <3>1, <3>2 DEF LedgerInv, LedgerMatchesOrders
  <2>8. ASSUME NEW a \in Accounts \ Customers
        PROVE  balance'[a] = -SumOver(AmountOf, {x \in ordr' : EntryOf[x] = a})
    <3>1. SumOver(AmountOf, {x \in ordr' : EntryOf[x] = a})
             = SumOver(AmountOf, {x \in ordr : EntryOf[x] = a})
                  + (IF EntryOf[o] = a THEN AmountOf[o] ELSE 0)
      BY <2>1, <2>6 DEF Group
    <3>2. balance'[a] = balance[a] - (IF EntryOf[o] = a THEN AmountOf[o] ELSE 0)
      BY <2>1, BookingFacts
    <3>3. balance[a] = -SumOver(AmountOf, {x \in ordr : EntryOf[x] = a})
      BY DEF LedgerInv, LedgerMatchesOrders
    <3>4. SumOver(AmountOf, {x \in ordr : EntryOf[x] = a}) \in Int
      BY <2>4
    <3> QED
      BY <2>5, <3>1, <3>2, <3>3, <3>4
  <2> QED
    BY <2>2, <2>7, <2>8 DEF LedgerInv, LedgerMatchesOrders
<1> QED
  BY <1>1, <1>2

\* A step books an order or leaves ledger and balances alone.
LEMMA BookingSteps ==
    ASSUME [Next]_vars
    PROVE  UNCHANGED <<ordr, balance>> \/ \E o \in Orders : MakeTopupBookings(o)
<1>1. ASSUME NEW o \in Orders, BookTopup(o) \/ CheckPending(o) \/ WorkerProcess(o)
      PROVE  UNCHANGED <<ordr, balance>> \/ MakeTopupBookings(o)
  BY <1>1 DEF BookTopup, CheckPending, WorkerProcess, ProcessPendingOrder
<1>2. ASSUME NEW o \in Orders,
             \/ Announce(o) \/ StartPayment(o) \/ PaymentReportedSuccess(o)
             \/ PaymentReportedFailure(o) \/ CancelPendingOrder(o) \/ GiveUp(o)
             \/ CreateOnlineCheckout(o) \/ SumupStep(o) \/ Expire(o)
      PROVE  UNCHANGED <<ordr, balance>>
  BY <1>2 DEF Announce, StartPayment, PaymentReportedSuccess, PaymentReportedFailure,
              CancelPendingOrder, GiveUp, CreateOnlineCheckout, SumupStep, Expire
<1>3. ASSUME WorkerRaise \/ \E s \in Scans : WorkerFetch(s)
      PROVE  UNCHANGED <<ordr, balance>>
  BY <1>3 DEF WorkerRaise, WorkerFetch
<1>4. UNCHANGED vars => UNCHANGED <<ordr, balance>>
  BY DEF vars
<1> QED
  BY <1>1, <1>2, <1>3, <1>4 DEF Next, TerminalStep, PortalStep, WorkerStep, WorkerAdvance

\* Before the first order, nobody owns anything.
LEMMA LedgerInit == Init => LedgerInv
<1> SUFFICES ASSUME Init PROVE LedgerInv
  OBVIOUS
<1>1. ordr = {} /\ \A a \in Accounts : balance[a] = 0
  BY DEF Init
<1>2. \A a : {o \in ordr : CustomerOf[o] = a} = {} /\ {o \in ordr : EntryOf[o] = a} = {}
  BY <1>1
<1>3. SumOver(AmountOf, {}) = 0
  BY SumOverEmpty
<1>4. IsFiniteSet(ordr)
  BY <1>1, FS_EmptySet
<1>5. Customers \subseteq Accounts
  BY DEF Accounts
<1> QED
  BY <1>1, <1>2, <1>3, <1>4, <1>5 DEF LedgerInv, LedgerMatchesOrders

\* No other step touches the ledger.
LEMMA LedgerNext == IInv /\ LedgerInv /\ [Next]_vars => LedgerInv'
<1> SUFFICES ASSUME IInv, LedgerInv, [Next]_vars PROVE LedgerInv'
  OBVIOUS
<1>1. CASE UNCHANGED <<ordr, balance>>
  BY <1>1 DEF LedgerInv, LedgerMatchesOrders
<1>2. ASSUME NEW o \in Orders, MakeTopupBookings(o) PROVE LedgerInv'
  BY <1>2, MakeBookingsMatch DEF IInv
<1> QED
  BY <1>1, <1>2, BookingSteps

\* A customer owns the sum of the booked orders and the entry accounts owe it,
\* whoever booked each of them and however often it was tried.
THEOREM LedgerFollowsOrders == Spec => []LedgerMatchesOrders
<1>1. LedgerInv => LedgerMatchesOrders
  BY DEF LedgerInv
<1> QED
  BY <1>1, InitInvariant, NextInvariant, LedgerInit, LedgerNext, PTL DEF Spec

-----------------------------------------------------------------------------
(* Settled rows. *)

\* A row is only made by a client that has left its start, and the worker only
\* holds rows that were made.
RowsAreMade ==
    /\ \A o \in Orders : client[o] = "idle" => pending[o] = "none"
    /\ \A i \in 1..Len(batch) : pending[batch[i]] # "none"

\* No row is unmade.
LEMMA ProcessKeepsRows ==
    ASSUME TypeOK, NEW o \in Orders, ProcessPendingOrder(o)
    PROVE  /\ \A x \in Orders \ {o} : pending'[x] = pending[x]
           /\ pending'[o] # "none" \/ pending'[o] = pending[o]
BY DEF ProcessPendingOrder, SetStatus, TypeOK

\* There are no rows at first.
LEMMA RowsInit == Init => RowsAreMade
BY DEF Init, RowsAreMade

\* A row is made with its order and stays.
LEMMA RowsNext == IInv /\ RowsAreMade /\ [Next]_vars => RowsAreMade'
<1> SUFFICES ASSUME TypeOK, RowsAreMade, [Next]_vars PROVE RowsAreMade'
  BY DEF IInv
<1> DEFINE NoneUnmade == \A x \in Orders : pending'[x] = "none" => pending[x] = "none"
           Held(b) == \A i \in 1..Len(b) : pending[b[i]] # "none"
<1>0. batch \in Seq(Orders)
  BY DEF TypeOK
<1>1. ASSUME NoneUnmade, UNCHANGED batch,
             \A x \in Orders : client'[x] = "idle" => client[x] = "idle" /\ pending'[x] = pending[x]
      PROVE  RowsAreMade'
  BY <1>0, <1>1 DEF RowsAreMade
<1>2. ASSUME NEW o \in Orders, TerminalStep(o) PROVE RowsAreMade'
  <2>1. ASSUME Announce(o) PROVE RowsAreMade'
    BY <1>1, <2>1 DEF Announce, SetStatus, TypeOK
  <2>2. ASSUME BookTopup(o) PROVE RowsAreMade'
    BY <1>1, <2>2, ProcessKeepsRows DEF BookTopup, SetStatus, TypeOK
  <2>3. ASSUME CancelPendingOrder(o) PROVE RowsAreMade'
    BY <1>1, <2>3 DEF CancelPendingOrder, SetStatus, TypeOK
  <2>4. ASSUME \/ StartPayment(o) \/ PaymentReportedSuccess(o)
               \/ PaymentReportedFailure(o) \/ GiveUp(o)
        PROVE  RowsAreMade'
    BY <1>1, <2>4 DEF StartPayment, PaymentReportedSuccess, PaymentReportedFailure, GiveUp,
                      TypeOK
  <2> QED
    BY <1>2, <2>1, <2>2, <2>3, <2>4 DEF TerminalStep
<1>3. ASSUME NEW o \in Orders, CreateOnlineCheckout(o) PROVE RowsAreMade'
  BY <1>1, <1>3 DEF CreateOnlineCheckout, SetStatus, TypeOK
<1>4. ASSUME NEW o \in Orders, CheckPending(o) PROVE RowsAreMade'
  <2>1. client[o] # "idle" /\ UNCHANGED <<client, batch>> /\ ProcessPendingOrder(o)
    BY <1>4 DEF CheckPending
  <2> QED
    BY <1>1, <2>1, ProcessKeepsRows
<1>5. ASSUME NEW o \in Orders, SumupStep(o) \/ Expire(o) PROVE RowsAreMade'
  BY <1>1, <1>5 DEF SumupStep, Expire
<1>6. ASSUME NEW s \in Scans, WorkerFetch(s) PROVE RowsAreMade'
  <2>1. PICK n \in 1..Cardinality(PendingRows) : s \in Injection(1..n, PendingRows)
    BY DEF Scans
  <2>2. s \in [1..n -> PendingRows] /\ n \in Nat
    <3>1. n \in Nat
      OBVIOUS
    <3> QED
      BY <2>1, <3>1 DEF Injection
  <2>3. Len(s) = n
    <3>1. s \in Seq(PendingRows)
      BY <2>2
    <3> QED
      BY <2>2, <3>1
  <2> QED
    BY <1>6, <2>2, <2>3 DEF WorkerFetch, RowsAreMade, PendingRows
<1>7. ASSUME NEW o \in Orders, WorkerProcess(o) PROVE RowsAreMade'
  <2>1. /\ batch # <<>> /\ Head(batch) = o /\ batch' = Tail(batch)
        /\ ProcessPendingOrder(o) /\ UNCHANGED client
    BY <1>7 DEF WorkerProcess
  <2>2. batch[1] = o /\ 1 \in 1..Len(batch)
    BY <1>0, <2>1
  <2>3. pending[o] # "none" /\ client[o] # "idle"
    BY <2>2 DEF RowsAreMade
  <2>4. /\ pending'[o] # "none"
        /\ \A x \in Orders \ {o} : pending'[x] = pending[x]
    BY <2>1, <2>3, ProcessKeepsRows
  <2>5. \A i \in 1..Len(batch') :
           i + 1 \in 1..Len(batch) /\ batch'[i] = batch[i + 1] /\ batch'[i] \in Orders
    BY <1>0, <2>1
  <2> QED
    BY <2>1, <2>3, <2>4, <2>5 DEF RowsAreMade
<1>8. CASE WorkerRaise
  BY <1>8 DEF WorkerRaise, RowsAreMade
<1>9. CASE UNCHANGED vars
  BY <1>9 DEF vars, RowsAreMade
<1> QED
  BY <1>2, <1>3, <1>4, <1>5, <1>6, <1>7, <1>8, <1>9
     DEF Next, PortalStep, WorkerStep, WorkerAdvance

\* What SettledUnlessStale says of a step.
SettledStep ==
    \A o \in Orders : pending[o] \in {"booked", "cancelled"} /\ pending'[o] # pending[o]
                       => o \in Range(batch)

\* A row is settled for good, but by a worker that decides on a stale read.
LEMMA StepSettles == IInv /\ RowsAreMade /\ [Next]_vars => SettledStep
<1> SUFFICES ASSUME TypeOK, RowsAreMade, [Next]_vars,
                    NEW o \in Orders, pending[o] \in {"booked", "cancelled"},
                    pending'[o] # pending[o]
             PROVE  o \in Range(batch)
  BY DEF IInv, SettledStep
<1>1. ASSUME NEW x \in Orders, WorkerProcess(x) PROVE o \in Range(batch)
  <2>1. batch \in Seq(Orders) /\ batch # <<>> /\ Head(batch) = x /\ ProcessPendingOrder(x)
    BY <1>1 DEF WorkerProcess, TypeOK
  <2>2. x = o
    BY <2>1, ProcessKeepsRows
  <2>3. 1 \in DOMAIN batch /\ batch[1] = x
    BY <2>1
  <2> QED
    BY <2>2, <2>3 DEF Range
<1>2. ASSUME NEW x \in Orders, CheckPending(x) PROVE FALSE
  <2>1. pending[x] = "pending" /\ ProcessPendingOrder(x)
    BY <1>2 DEF CheckPending
  <2> QED
    BY <2>1, ProcessKeepsRows
<1>3. ASSUME NEW x \in Orders, BookTopup(x) PROVE FALSE
  <2>1. CASE pending[x] = "pending" /\ ProcessPendingOrder(x)
    BY <2>1, ProcessKeepsRows
  <2>2. CASE pending[x] = "pending" /\ (SetStatus(x, "cancelled") \/ UNCHANGED pending)
    BY <2>2 DEF SetStatus, TypeOK
  <2>3. CASE UNCHANGED pending
    BY <2>3
  <2> QED
    BY <1>3, <2>1, <2>2, <2>3 DEF BookTopup
<1>4. ASSUME NEW x \in Orders, Announce(x) \/ CreateOnlineCheckout(x) \/ CancelPendingOrder(x)
      PROVE  FALSE
  BY <1>4 DEF Announce, CreateOnlineCheckout, CancelPendingOrder, SetStatus, TypeOK, RowsAreMade
<1>5. ASSUME NEW x \in Orders,
             \/ StartPayment(x) \/ PaymentReportedSuccess(x) \/ PaymentReportedFailure(x)
             \/ GiveUp(x) \/ SumupStep(x) \/ Expire(x)
      PROVE  FALSE
  BY <1>5 DEF StartPayment, PaymentReportedSuccess, PaymentReportedFailure, GiveUp, SumupStep,
              Expire
<1>6. ASSUME WorkerRaise \/ \E s \in Scans : WorkerFetch(s) PROVE FALSE
  BY <1>6 DEF WorkerRaise, WorkerFetch
<1>7. ~UNCHANGED vars
  BY DEF vars
<1> QED
  BY <1>1, <1>2, <1>3, <1>4, <1>5, <1>6, <1>7
     DEF Next, TerminalStep, PortalStep, WorkerStep, WorkerAdvance

\* A settled row stays what it is, but for a worker that read it before it was settled.
THEOREM OnlyStaleReadsUnsettle == Spec => SettledUnlessStale
<1>1. SettledStep => (\A o \in Orders :
          pending[o] \in {"booked", "cancelled"} /\ pending'[o] # pending[o]
             => o \in Range(batch))
  BY DEF SettledStep
<1>2. IInv /\ RowsAreMade /\ [Next]_vars
         => [\A o \in Orders :
                pending[o] \in {"booked", "cancelled"} /\ pending'[o] # pending[o]
                   => o \in Range(batch)]_vars
  BY <1>1, StepSettles
<1> QED
  BY <1>2, InitInvariant, NextInvariant, RowsInit, RowsNext, PTL DEF Spec, SettledUnlessStale

-----------------------------------------------------------------------------
(* The refinement. *)

\* The first booking of a paid order is the abstract Credit, any later one is a
\* stutter.
LEMMA BookingIsCredit ==
    ASSUME NEW o \in Orders, MakeTopupBookings(o), sumup[o] \in Paid, UNCHANGED sumup
    PROVE  Promise!Credit(o) \/ UNCHANGED <<PaidOrders, ordr, balance>>
<1>1. UNCHANGED PaidOrders
  BY DEF PaidOrders
<1>2. CASE o \in ordr
  BY <1>1, <1>2 DEF MakeTopupBookings
<1>3. CASE o \notin ordr
  <2>1. o \in PaidOrders \ ordr
    BY <1>3 DEF PaidOrders
  <2>2. balance' = Promise!BookTransaction(balance, EntryOf[o], CustomerOf[o], AmountOf[o])
    BY <1>3 DEF MakeTopupBookings, BookTransaction, Post, Transaction,
                Promise!BookTransaction, Promise!Post, Promise!Transaction
  <2> QED
    BY <1>1, <2>1, <2>2 DEF MakeTopupBookings, Promise!Credit
<1> QED
  BY <1>2, <1>3

\* Processing a pending row is a credit or a stutter.
LEMMA ProcessIsCredit ==
    ASSUME NEW o \in Orders, ProcessPendingOrder(o), UNCHANGED sumup
    PROVE  Promise!Credit(o) \/ UNCHANGED <<PaidOrders, ordr, balance>>
<1>1. CASE Confirmed(o) /\ MakeTopupBookings(o)
  BY <1>1, BookingIsCredit DEF Confirmed, Paid
<1>2. CASE UNCHANGED <<ordr, balance>>
  BY <1>2 DEF PaidOrders
<1> QED
  BY <1>1, <1>2 DEF ProcessPendingOrder

\* A step of SumUp that accepts a payment is the abstract Pay.
LEMMA SumupStepIsPay ==
    ASSUME TypeOK, NEW o \in Orders, SumupStep(o)
    PROVE  Promise!Pay(o) \/ UNCHANGED <<PaidOrders, ordr, balance>>
<1>1. PICK move \in SumupMoves :
          sumup[o] = move[1] /\ sumup' = [sumup EXCEPT ![o] = move[2]]
  BY DEF SumupStep
<1>2. UNCHANGED <<ordr, balance>>
  BY DEF SumupStep
<1>3. \A x \in Orders : x # o => sumup'[x] = sumup[x]
  BY <1>1 DEF TypeOK
<1>4. CASE move = <<"open", "accepted">>
  <2>1. sumup[o] = "open" /\ sumup'[o] = "accepted"
    BY <1>1, <1>4 DEF TypeOK
  <2>2. o \notin PaidOrders /\ PaidOrders' = PaidOrders \union {o}
    BY <1>3, <2>1 DEF PaidOrders, Paid
  <2> QED
    BY <1>2, <2>2 DEF Promise!Pay
<1>5. CASE move # <<"open", "accepted">>
  <2>1. sumup[o] \in Paid <=> sumup'[o] \in Paid
    BY <1>1, <1>5 DEF SumupMoves, Paid, TypeOK
  <2> QED
    BY <1>2, <1>3, <2>1 DEF PaidOrders
<1> QED
  BY <1>4, <1>5

\* Every step is one of TopUpPromise or changes nothing it speaks of.
LEMMA StepRefines ==
    IInv /\ [Next]_vars => [Promise!Next]_(Promise!vars)
<1> SUFFICES ASSUME IInv, [Next]_vars
             PROVE  Promise!Next \/ UNCHANGED <<PaidOrders, ordr, balance>>
  BY DEF Promise!vars
<1> USE DEF IInv
<1>1. CASE UNCHANGED <<sumup, ordr, balance>>
  BY <1>1 DEF PaidOrders
<1>2. ASSUME NEW o \in Orders, StartPayment(o) \/ CreateOnlineCheckout(o)
      PROVE  UNCHANGED <<PaidOrders, ordr, balance>>
  <2>1. sumup[o] = "none" /\ sumup' = [sumup EXCEPT ![o] = "open"]
    BY <1>2 DEF StartPayment, CreateOnlineCheckout, UnstartedIsUnknown
  <2> QED
    BY <1>2, <2>1 DEF StartPayment, CreateOnlineCheckout, PaidOrders, Paid, TypeOK
<1>3. ASSUME NEW o \in Orders, BookTopup(o)
      PROVE  Promise!Next \/ UNCHANGED <<PaidOrders, ordr, balance>>
  <2>1. sumup[o] \in Paid /\ UNCHANGED sumup
    BY <1>3 DEF BookTopup, ConfirmedIsPaid
  <2>2. MakeTopupBookings(o) \/ ProcessPendingOrder(o)
    BY <1>3 DEF BookTopup
  <2> QED
    BY <2>1, <2>2, BookingIsCredit, ProcessIsCredit DEF Promise!Next
<1>4. ASSUME NEW o \in Orders, CheckPending(o) \/ WorkerProcess(o)
      PROVE  Promise!Next \/ UNCHANGED <<PaidOrders, ordr, balance>>
  BY <1>4, ProcessIsCredit DEF CheckPending, WorkerProcess, Promise!Next
<1>5. ASSUME NEW o \in Orders, SumupStep(o)
      PROVE  Promise!Next \/ UNCHANGED <<PaidOrders, ordr, balance>>
  BY <1>5, SumupStepIsPay DEF Promise!Next
<1>6. ASSUME NEW o \in Orders,
             \/ Announce(o) \/ PaymentReportedSuccess(o) \/ PaymentReportedFailure(o)
             \/ CancelPendingOrder(o) \/ GiveUp(o) \/ Expire(o)
      PROVE  UNCHANGED <<sumup, ordr, balance>>
  BY <1>6 DEF Announce, PaymentReportedSuccess, PaymentReportedFailure,
              CancelPendingOrder, GiveUp, Expire
<1>7. ASSUME WorkerRaise \/ \E s \in Scans : WorkerFetch(s)
      PROVE  UNCHANGED <<sumup, ordr, balance>>
  BY <1>7 DEF WorkerRaise, WorkerFetch
<1>8. UNCHANGED vars => UNCHANGED <<sumup, ordr, balance>>
  BY DEF vars
<1> QED
  BY <1>1, <1>2, <1>3, <1>4, <1>5, <1>6, <1>7, <1>8
     DEF Next, TerminalStep, PortalStep, WorkerStep, WorkerAdvance

\* However terminal, portal and worker race, they keep the promise: an order is
\* credited after its payment, in full and at most once.
THEOREM Refinement == Spec => ImplementsPromise
<1>1. Init => Promise!Init
  BY DEF Init, Promise!Init, PaidOrders, Paid
<1> QED
  BY <1>1, InitInvariant, NextInvariant, StepRefines, PTL
     DEF Spec, ImplementsPromise, Promise!Spec

-----------------------------------------------------------------------------
(* The page of the customer portal. Every step of it is one of SumupTopUp or   *)
(* none; to its invariant is added what the answers under way may say.         *)

\* An answer PAID is about an order that is booked, and stays so.
PaidAnswerIsBooked == \A i \in Checks : checks[i].answer = "PAID" => checks[i].order \in ordr

\* The page only knows orders of the portal. An answer is an answer about one.
KnowsItsOrders ==
    /\ state.order \in OnlineOrders \union {NoOrder}
    /\ creating \in OnlineOrders \union {NoOrder}
    /\ widget \in OnlineOrders \union {NoOrder}
    /\ \A i \in Checks : /\ checks[i].order \in OnlineOrders \union {NoOrder}
                         /\ checks[i].answer # "none" => checks[i].order # NoOrder

PageInv ==
    /\ PageTypeOK
    /\ KnowsItsOrders
    /\ PaidAnswerIsBooked
    /\ SuccessMeansCredit
    /\ WidgetIsForThisOrder

\* The page acts on the server by the server's operations only.
LEMMA PageStepIsServerStep ==
    PageTypeOK /\ KnowsItsOrders /\ [PageNext]_allVars => [Next]_vars
<1>1. ASSUME NEW o \in Orders, Submit(o) PROVE [Next]_vars
  BY <1>1 DEF Submit, Next, PortalStep
<1>2. ASSUME NEW i \in Checks, PageTypeOK, KnowsItsOrders, ServerChecks(i)
      PROVE  [Next]_vars
  <2>1. checks[i].order \in Orders
    BY <1>2, OrdersAssumption DEF ServerChecks, PageTypeOK, KnowsItsOrders, Idle
  <2> QED
    BY <1>2, <2>1 DEF ServerChecks, Next, PortalStep
<1>3. ASSUME CheckoutCreated \/ CheckoutLost \/ Reset \/ Leave PROVE UNCHANGED vars
  BY <1>3 DEF CheckoutCreated, CheckoutLost, Reset, Leave
<1>4. ASSUME NEW i \in Checks, WidgetResponds(i) \/ CheckAnswered(i) \/ CheckLost(i)
      PROVE  UNCHANGED vars
  BY <1>4 DEF WidgetResponds, CheckAnswered, CheckLost
<1>5. ASSUME ElsewhereStep PROVE [Next]_vars
  BY <1>5 DEF ElsewhereStep, Next, PortalStep
<1> QED
  BY <1>1, <1>2, <1>3, <1>4, <1>5 DEF PageNext, PageStep, allVars

\* Orders are never unbooked.
LEMMA BookedForGood == [Next]_vars => ordr \subseteq ordr'
BY DEF Next, TerminalStep, PortalStep, WorkerStep, WorkerAdvance, Announce, StartPayment,
       PaymentReportedSuccess, PaymentReportedFailure, CancelPendingOrder, BookTopup, GiveUp,
       CreateOnlineCheckout, CheckPending, SumupStep, Expire, WorkerFetch, WorkerProcess,
       WorkerRaise, ProcessPendingOrder, MakeTopupBookings, vars

\* PAID is only said of an order that this very request books.
LEMMA AnswerFact ==
    ASSUME NEW o \in Orders, AnswerFor(o) = "PAID",
           IF pending[o] = "pending" THEN CheckPending(o) ELSE UNCHANGED vars
    PROVE  o \in ordr'
BY DEF AnswerFor, CheckPending, ProcessPendingOrder, MakeTopupBookings

LEMMA PageInitInvariant == PageInit => PageInv
BY DEF PageInit, PageInv, PageTypeOK, KnowsItsOrders, PaidAnswerIsBooked, SuccessMeansCredit,
       WidgetIsForThisOrder, InitialState, Idle, Stages

\* One step for each of the page's actions.
LEMMA PageNextInvariant == IInv /\ PageInv /\ [PageNext]_allVars => PageInv'
<1> SUFFICES ASSUME IInv, PageInv, [PageNext]_allVars PROVE PageInv'
  OBVIOUS
<1> USE OrdersAssumption, NoOrderAssumption DEF PageInv
<1>0. ordr \subseteq ordr'
  BY PageStepIsServerStep, BookedForGood
<1>1. ASSUME NEW o \in Orders, Submit(o) PROVE PageInv'
  BY <1>0, <1>1 DEF Submit, CreateOnlineCheckout, PageTypeOK, KnowsItsOrders, PaidAnswerIsBooked,
     SuccessMeansCredit, WidgetIsForThisOrder
<1>2. ASSUME CheckoutCreated PROVE PageInv'
  BY <1>0, <1>2 DEF CheckoutCreated, Reduce, PageTypeOK, KnowsItsOrders, PaidAnswerIsBooked,
     SuccessMeansCredit, WidgetIsForThisOrder, Stages
<1>3. ASSUME CheckoutLost PROVE PageInv'
  BY <1>0, <1>3 DEF CheckoutLost, PageTypeOK, KnowsItsOrders, PaidAnswerIsBooked,
     SuccessMeansCredit, WidgetIsForThisOrder
<1>4. ASSUME NEW i \in Checks, WidgetResponds(i) PROVE PageInv'
  BY <1>0, <1>4 DEF WidgetResponds, Idle, PageTypeOK, KnowsItsOrders, PaidAnswerIsBooked,
     SuccessMeansCredit, WidgetIsForThisOrder
<1>5. ASSUME NEW i \in Checks, ServerChecks(i) PROVE PageInv'
  <2> DEFINE o == checks[i].order
  <2>1. o \in OnlineOrders /\ o \in Orders
    BY <1>5 DEF ServerChecks, Idle, PageTypeOK, KnowsItsOrders
  <2>2. AnswerFor(o) = "PAID" => o \in ordr'
    BY <1>5, <2>1, AnswerFact DEF ServerChecks
  <2>3. AnswerFor(o) \in {"PAID", "FAILED", "raised"}
    BY DEF AnswerFor
  <2>4. /\ checks' = [checks EXCEPT ![i].answer = AnswerFor(o)]
        /\ UNCHANGED <<state, creating, widget>>
    BY <1>5 DEF ServerChecks
  <2>5. PageTypeOK' /\ WidgetIsForThisOrder' /\ SuccessMeansCredit'
    BY <1>0, <2>3, <2>4 DEF PageTypeOK, WidgetIsForThisOrder, SuccessMeansCredit
  <2>6. KnowsItsOrders' /\ PaidAnswerIsBooked'
    BY <1>0, <2>1, <2>2, <2>3, <2>4, NoOrderAssumption
       DEF PageTypeOK, KnowsItsOrders, PaidAnswerIsBooked
  <2> QED
    BY <2>5, <2>6
<1>6. ASSUME NEW i \in Checks, CheckAnswered(i) PROVE PageInv'
  BY <1>0, <1>6 DEF CheckAnswered, Reduce, Unmounted, Idle, PageTypeOK, KnowsItsOrders,
     PaidAnswerIsBooked, SuccessMeansCredit, WidgetIsForThisOrder, Stages
<1>7. ASSUME NEW i \in Checks, CheckLost(i) PROVE PageInv'
  BY <1>0, <1>7 DEF CheckLost, Idle, PageTypeOK, KnowsItsOrders, PaidAnswerIsBooked,
     SuccessMeansCredit, WidgetIsForThisOrder
<1>8. ASSUME Reset \/ Leave PROVE PageInv'
  BY <1>0, <1>8 DEF Reset, Leave, InitialState, Idle, PageTypeOK, KnowsItsOrders,
     PaidAnswerIsBooked, SuccessMeansCredit, WidgetIsForThisOrder, Stages
<1>9. ASSUME UNCHANGED pageVars PROVE PageInv'
  BY <1>0, <1>9 DEF pageVars, PageTypeOK, KnowsItsOrders, PaidAnswerIsBooked,
     SuccessMeansCredit, WidgetIsForThisOrder
<1> QED
  BY <1>1, <1>2, <1>3, <1>4, <1>5, <1>6, <1>7, <1>8, <1>9
     DEF PageNext, PageStep, ElsewhereStep, allVars

LEMMA PageInvariance == PageSpec => [](IInv /\ PageInv)
<1>1. PageInit => IInv
  BY InitInvariant DEF PageInit
<1>2. IInv /\ PageInv /\ [PageNext]_allVars => IInv'
  BY NextInvariant, PageStepIsServerStep DEF PageInv
<1> QED
  BY <1>1, <1>2, PageInitInvariant, PageNextInvariant, PTL DEF PageSpec

\* However answers are delayed, the page is at an order whenever it is not at its form.
THEOREM PageTypeCorrect == PageSpec => []PageTypeOK
BY PageInvariance, PTL DEF PageInv

\* The page never shows a success that the ledger does not back.
THEOREM SuccessIsBacked == PageSpec => []SuccessMeansCredit
BY PageInvariance, PTL DEF PageInv

\* Card data is only ever asked for the order the page is at.
THEOREM WidgetFollowsPage == PageSpec => []WidgetIsForThisOrder
BY PageInvariance, PTL DEF PageInv

\* The page, with all it may do to the server, keeps what is proved of SumupTopUp: in
\* particular, only orders that are paid are credited.
THEOREM PageKeepsCreditPaid == PageSpec => []CreditOnlyIfPaid
BY PageInvariance, PTL DEF IInv

\* Whatever the page does and whatever answers it gets, server, worker and SumUp see
\* nothing that SumupTopUp does not have: what is proved of Spec holds with the page too.
THEOREM PageKeepsServerSpec == PageSpec => Spec
<1>1. PageInit => Init
  BY DEF PageInit
<1>2. IInv /\ PageInv /\ [PageNext]_allVars => [Next]_vars
  BY PageStepIsServerStep DEF PageInv
<1> QED
  BY <1>1, <1>2, PageInvariance, PTL DEF PageSpec, Spec
=============================================================================
