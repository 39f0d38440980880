------------------------ MODULE TseSigning_proofs ----------------------------
(***************************************************************************)
(* Proofs about TseSigning, for any number of devices, tills, orders and   *)
(* restarts.                                                               *)
(***************************************************************************)
EXTENDS TseSigning, TLAPS

\* The request a wrapper is having signed is pending, was grabbed by this
\* wrapper, and its device has signed it exactly if the wrapper holds the answer.
RequestsArePending ==
    \A d \in Tses : request[d] # NULL =>
        /\ status[request[d]] = "pending"
        /\ signer[request[d]] = d
        /\ tseOf[TillOf[request[d]]] = d
        /\ signatures[request[d]] = IF wrapper[d] = "signed" THEN 1 ELSE 0

\* A request beyond "new" has the TSE that grabbed it, or failed it.
SignerIsTse ==
    \A o \in Orders : status[o] \in {"pending", "done"} => signer[o] \in Tses

\* No device has seen an order nobody has grabbed.
UngrabbedIsUnsigned ==
    \A o \in Orders : status[o] \in {"none", "new"} => signatures[o] = 0

\* What a wrapper has read is still as it was: only this wrapper grabs the
\* requests of its tills, and not while it is failing them.
OverdueIsNew ==
    \A d \in Tses : \A o \in overdue[d] :
        wrapper[d] = "failing" /\ status[o] = "new" /\ tseOf[TillOf[o]] = d

\* The hook only gives a TSE to tills that have none.
FeralHasNone == \A t \in feral : tseOf[t] = NULL

IInv ==
    /\ TypeOK
    /\ NeverSignedTwice
    /\ OneAtATime
    /\ SignedByItsTse
    /\ RequestsArePending
    /\ SignerIsTse
    /\ UngrabbedIsUnsigned
    /\ OverdueIsNew
    /\ FeralHasNone

-----------------------------------------------------------------------------
LEMMA InitInvariant == Init => IInv
BY OrdersAssumption, NullAssumption, RestartsAssumption
   DEF Init, IInv, TypeOK, NeverSignedTwice, OneAtATime, SignedByItsTse,
       RequestsArePending, SignerIsTse, UngrabbedIsUnsigned, OverdueIsNew, FeralHasNone,
       SignatureStatus, WrapperState

\* Every step keeps the inductive invariant.
LEMMA NextInvariant == IInv /\ [Next]_vars => IInv'
<1> SUFFICES ASSUME IInv, [Next]_vars PROVE IInv'
  OBVIOUS
<1> USE OrdersAssumption, NullAssumption, RestartsAssumption
    DEF IInv, SignatureStatus, WrapperState, wrapperVars, hookVars
<1>1. ASSUME NEW o \in Orders, NewOrder(o) PROVE IInv'
  BY <1>1 DEF NewOrder, TypeOK, NeverSignedTwice, OneAtATime, SignedByItsTse,
              RequestsArePending, SignerIsTse, UngrabbedIsUnsigned, OverdueIsNew, FeralHasNone
<1>2. ASSUME NEW o \in Orders, Expire(o) PROVE IInv'
  BY <1>2 DEF Expire, TypeOK, NeverSignedTwice, OneAtATime, SignedByItsTse,
              RequestsArePending, SignerIsTse, UngrabbedIsUnsigned, OverdueIsNew, FeralHasNone
<1>3. CASE HandleHook
  <2>1. /\ feral' \subseteq Tills /\ notified' \in BOOLEAN
        /\ \A t \in feral' : tseOf[t] = NULL
    BY <1>3 DEF HandleHook, FeralTills
  <2>2. UNCHANGED <<status, signer, late, tseOf, tseStatus, wrapperVars, signatures, restarts>>
    BY <1>3 DEF HandleHook
  <2>3. TypeOK'
    BY <2>1, <2>2 DEF TypeOK
  <2>4. NeverSignedTwice' /\ OneAtATime' /\ SignedByItsTse' /\ SignerIsTse' /\ UngrabbedIsUnsigned'
    BY <2>2 DEF SignerIsTse, NeverSignedTwice, OneAtATime, SignedByItsTse, UngrabbedIsUnsigned
  <2>5. RequestsArePending' /\ OverdueIsNew' /\ FeralHasNone'
    BY <2>1, <2>2 DEF RequestsArePending, OverdueIsNew, FeralHasNone
  <2> QED
    BY <2>3, <2>4, <2>5
<1>4. ASSUME NEW t \in Tills, HandleFeralTill(t) PROVE IInv'
  <2>1. /\ feral' = feral \ {t} /\ tseOf[t] = NULL
        /\ tseOf' \in [Tills -> Tses \union {NULL}]
        /\ \A x \in Tills : x # t => tseOf'[x] = tseOf[x]
    BY <1>4 DEF HandleFeralTill, ActiveTses, TypeOK, FeralHasNone
  <2>2. UNCHANGED <<status, signer, late, tseStatus, wrapperVars, notified, signatures, restarts>>
    BY <1>4 DEF HandleFeralTill
  <2>3. TypeOK'
    BY <2>1, <2>2 DEF TypeOK
  <2>4. NeverSignedTwice' /\ OneAtATime' /\ UngrabbedIsUnsigned' /\ FeralHasNone'
    BY <2>1, <2>2 DEF NeverSignedTwice, OneAtATime, UngrabbedIsUnsigned, FeralHasNone, TypeOK
  <2>5. SignedByItsTse' /\ SignerIsTse'
    BY <2>1, <2>2 DEF SignedByItsTse, SignerIsTse
  <2>6. \A o \in Orders : tseOf[TillOf[o]] # NULL => tseOf'[TillOf[o]] = tseOf[TillOf[o]]
    BY <2>1
  <2>7. RequestsArePending'
    <3> SUFFICES ASSUME NEW e \in Tses, request[e] # NULL
                 PROVE  /\ status[request[e]] = "pending" /\ signer[request[e]] = e
                        /\ tseOf'[TillOf[request[e]]] = e
                        /\ signatures[request[e]] = IF wrapper[e] = "signed" THEN 1 ELSE 0
      BY <2>2 DEF RequestsArePending
    <3>1. request[e] \in Orders
      BY DEF TypeOK
    <3>2. /\ status[request[e]] = "pending" /\ signer[request[e]] = e
          /\ tseOf[TillOf[request[e]]] = e
          /\ signatures[request[e]] = IF wrapper[e] = "signed" THEN 1 ELSE 0
      BY DEF RequestsArePending
    <3>3. tseOf[TillOf[request[e]]] # NULL
      BY <3>2
    <3>4. tseOf'[TillOf[request[e]]] = e
      BY <2>6, <3>1, <3>2, <3>3
    <3> QED
      BY <3>2, <3>4
  <2>8. OverdueIsNew'
    BY <2>2, <2>6 DEF OverdueIsNew, TypeOK
  <2> QED
    BY <2>3, <2>4, <2>5, <2>7, <2>8
<1>5. ASSUME NEW d \in Tses, Connect(d) PROVE IInv'
  BY <1>5 DEF Connect, TypeOK, NeverSignedTwice, OneAtATime, SignedByItsTse,
              RequestsArePending, SignerIsTse, UngrabbedIsUnsigned, OverdueIsNew, FeralHasNone
<1>6. ASSUME NEW d \in Tses, GrabNextRequest(d) PROVE IInv'
  <2>1. PICK o \in Requests(d) :
          /\ status' = [status EXCEPT ![o] = "pending"]
          /\ signer' = [signer EXCEPT ![o] = d]
          /\ request' = [request EXCEPT ![d] = o]
    BY <1>6 DEF GrabNextRequest, First
  <2>2. /\ o \in Orders /\ status[o] = "new" /\ signatures[o] = 0
        /\ tseOf[TillOf[o]] = d
        /\ \A p \in Orders : status[p] = "pending" => TillOf[p] # TillOf[o]
    BY DEF Requests, CurrentlySigning, UngrabbedIsUnsigned
  <2>3. /\ wrapper[d] = "ready"
        /\ wrapper' = [wrapper EXCEPT ![d] = "signing"]
        /\ UNCHANGED <<late, tseOf, tseStatus, overdue, hookVars, signatures, restarts>>
    BY <1>6 DEF GrabNextRequest
  <2>8. \A e \in Tses : o \notin overdue[e]
    BY <2>2, <2>3 DEF OverdueIsNew
  <2>4. TypeOK'
    BY <2>1, <2>2, <2>3 DEF TypeOK
  <2>5. OneAtATime' /\ SignedByItsTse' /\ SignerIsTse' /\ NeverSignedTwice' /\ UngrabbedIsUnsigned' /\ FeralHasNone'
    BY <2>1, <2>2, <2>3 DEF TypeOK, OneAtATime, SignedByItsTse, SignerIsTse, NeverSignedTwice,
                            UngrabbedIsUnsigned, FeralHasNone
  <2>6. RequestsArePending'
    BY <2>1, <2>2, <2>3 DEF TypeOK, RequestsArePending
  <2>7. OverdueIsNew'
    BY <2>1, <2>2, <2>3, <2>8 DEF TypeOK, OverdueIsNew
  <2> QED
    BY <2>4, <2>5, <2>6, <2>7
<1>7. ASSUME NEW d \in Tses, DeviceSigns(d) PROVE IInv'
  BY <1>7 DEF DeviceSigns, TypeOK, NeverSignedTwice, OneAtATime, SignedByItsTse,
              RequestsArePending, SignerIsTse, UngrabbedIsUnsigned, OverdueIsNew, FeralHasNone
<1>8. ASSUME NEW d \in Tses, RequestDone(d) PROVE IInv'
  BY <1>8 DEF RequestDone, Finish, TypeOK, NeverSignedTwice, OneAtATime, SignedByItsTse,
              RequestsArePending, SignerIsTse, UngrabbedIsUnsigned, OverdueIsNew, FeralHasNone
<1>9. ASSUME NEW d \in Tses, FailRequest(d) PROVE IInv'
  <2> DEFINE o == request[d]
  <2>1. /\ o \in Orders /\ status[o] = "pending" /\ signatures[o] = 0 /\ wrapper[d] = "signing"
        /\ \A e \in Tses : request[e] = o => e = d
    BY <1>9 DEF FailRequest, TypeOK, RequestsArePending
  <2>2. /\ status' = [status EXCEPT ![o] = "failure"]
        /\ request' = [request EXCEPT ![d] = NULL]
        /\ wrapper' = [wrapper EXCEPT ![d] = "ready"]
        /\ UNCHANGED <<signer, late, tseOf, tseStatus, overdue, hookVars, restarts>>
    BY <1>9 DEF FailRequest, Finish
  <2>3. /\ signatures' \in [Orders -> Nat] /\ signatures'[o] \in {0, 1}
        /\ \A p \in Orders : p # o => signatures'[p] = signatures[p]
    BY <1>9, <2>1 DEF FailRequest, TypeOK
  <2> HIDE DEF o
  <2>4. TypeOK'
    BY <2>1, <2>2, <2>3 DEF TypeOK
  <2>5. OneAtATime' /\ SignedByItsTse' /\ SignerIsTse' /\ FeralHasNone'
    BY <2>1, <2>2, <2>3 DEF TypeOK, OneAtATime, SignedByItsTse, SignerIsTse, FeralHasNone
  <2>6. NeverSignedTwice' /\ UngrabbedIsUnsigned'
    BY <2>1, <2>2, <2>3 DEF TypeOK, NeverSignedTwice, UngrabbedIsUnsigned
  <2>7. RequestsArePending'
    <3>1. o = request[d]
      BY DEF o
    <3> QED
      BY <2>1, <2>2, <2>3, <3>1 DEF TypeOK, RequestsArePending
  <2>8. OverdueIsNew'
    BY <2>1, <2>2, <2>3 DEF TypeOK, OverdueIsNew
  <2> QED
    BY <2>4, <2>5, <2>6, <2>7, <2>8
<1>10. ASSUME NEW d \in Tses, LoseConnection(d) PROVE IInv'
  BY <1>10 DEF LoseConnection, Requests, TypeOK, NeverSignedTwice, OneAtATime, SignedByItsTse,
              RequestsArePending, SignerIsTse, UngrabbedIsUnsigned, OverdueIsNew, FeralHasNone
<1>11. ASSUME NEW d \in Tses, FailOverdue(d) PROVE IInv'
  <2>1. PICK o \in overdue[d] :
          /\ overdue' = [overdue EXCEPT ![d] = @ \ {o}]
          /\ IF o \in late
             THEN /\ status' = [status EXCEPT ![o] = "failure"]
                  /\ signer' = [signer EXCEPT ![o] = d]
                  /\ tseStatus' = [tseStatus EXCEPT ![d] = IF @ = "active" THEN "failed" ELSE @]
             ELSE UNCHANGED <<status, signer, tseStatus>>
    BY <1>11 DEF FailOverdue, First
  <2>2. /\ o \in Orders /\ status[o] = "new" /\ tseOf[TillOf[o]] = d
        /\ \A e \in Tses : o \in overdue[e] => e = d
    BY DEF TypeOK, OverdueIsNew
  <2>3. /\ wrapper[d] = "failing"
        /\ UNCHANGED <<late, tseOf, wrapper, request, hookVars, signatures, restarts>>
    BY <1>11 DEF FailOverdue
  <2>4. TypeOK'
    BY <2>1, <2>2, <2>3 DEF TypeOK
  <2>5. OneAtATime' /\ SignedByItsTse' /\ SignerIsTse' /\ NeverSignedTwice' /\ UngrabbedIsUnsigned' /\ FeralHasNone'
    BY <2>1, <2>2, <2>3 DEF TypeOK, OneAtATime, SignedByItsTse, SignerIsTse, NeverSignedTwice,
                            UngrabbedIsUnsigned, FeralHasNone
  <2>6. RequestsArePending'
    <3>1. \A e \in Tses : request[e] # NULL => request[e] # o
      BY <2>2 DEF RequestsArePending
    <3>2. \A p \in Orders : p # o => status'[p] = status[p] /\ signer'[p] = signer[p]
      BY <2>1, <2>2 DEF TypeOK
    <3>3. \A e \in Tses : request[e] # NULL => request[e] \in Orders
      BY DEF TypeOK
    <3> QED
      BY <2>3, <3>1, <3>2, <3>3 DEF RequestsArePending
  <2>7. OverdueIsNew'
    BY <2>1, <2>2, <2>3 DEF TypeOK, OverdueIsNew
  <2> QED
    BY <2>4, <2>5, <2>6, <2>7
<1>12. ASSUME NEW d \in Tses, Reconnect(d) PROVE IInv'
  BY <1>12 DEF Reconnect, TypeOK, NeverSignedTwice, OneAtATime, SignedByItsTse,
              RequestsArePending, SignerIsTse, UngrabbedIsUnsigned, OverdueIsNew, FeralHasNone
<1>13. CASE Restart
  BY <1>13 DEF Restart, CleanedUp, TypeOK, NeverSignedTwice, OneAtATime, SignedByItsTse,
              RequestsArePending, SignerIsTse, UngrabbedIsUnsigned, OverdueIsNew, FeralHasNone
<1>14. CASE UNCHANGED vars
  BY <1>14 DEF vars, TypeOK, NeverSignedTwice, OneAtATime, SignedByItsTse,
              RequestsArePending, SignerIsTse, UngrabbedIsUnsigned, OverdueIsNew, FeralHasNone
<1> QED
  BY <1>1, <1>2, <1>3, <1>4, <1>5, <1>6, <1>7, <1>8, <1>9, <1>10, <1>11, <1>12, <1>13, <1>14
     DEF Next, HookStep, WrapperStep, SigningStep

LEMMA Invariance == Spec => []IInv
<1> QED
  BY InitInvariant, NextInvariant, PTL DEF Spec

-----------------------------------------------------------------------------
\* Statuses, devices and wrappers stay in their ranges, and a wrapper holds a
\* request exactly while it is having one signed.
THEOREM TypeCorrect == Spec => []TypeOK
<1>1. IInv => TypeOK
  BY DEF IInv
<1> QED
  BY <1>1, Invariance, PTL

\* However often devices fail to answer, connections break and the process is
\* restarted, no order is signed twice.
THEOREM SignedAtMostOnce == Spec => []NeverSignedTwice
<1>1. IInv => NeverSignedTwice
  BY DEF IInv
<1> QED
  BY <1>1, Invariance, PTL

\* Two wrappers never have orders of the same till signed, and none signs on
\* while one of the till's orders is left behind.
THEOREM TillSignsInSequence == Spec => []OneAtATime
<1>1. IInv => OneAtATime
  BY DEF IInv
<1> QED
  BY <1>1, Invariance, PTL

\* A request is done only with a signature of the TSE its till was given.
THEOREM DoneIsSigned == Spec => []SignedByItsTse
<1>1. IInv => SignedByItsTse
  BY DEF IInv
<1> QED
  BY <1>1, Invariance, PTL

-----------------------------------------------------------------------------
\* Changing one status changes one outcome.
LEMMA OutcomeChanges ==
    ASSUME status \in [Orders -> SignatureStatus], NEW o \in Orders, NEW s \in SignatureStatus,
           status' = [status EXCEPT ![o] = s]
    PROVE  Outcome' = [Outcome EXCEPT ![o] = OutcomeOf[s]]
<1>1. \A p \in Orders : OutcomeOf[status'[p]] = IF p = o THEN OutcomeOf[s] ELSE OutcomeOf[status[p]]
  OBVIOUS
<1> QED
  BY <1>1 DEF Outcome

\* What a step does to an order whose request it changes, in terms of the
\* inductive invariant: the facts the next two theorems rest on.
LEMMA StepFacts ==
    ASSUME IInv, [Next]_vars
    PROVE  /\ \A o \in Orders : status[o] \in Final => status'[o] = status[o]
           /\ [Promise!Next]_(Promise!vars)
<1> USE OrdersAssumption, NullAssumption DEF Final
<1>type. /\ status \in [Orders -> SignatureStatus] /\ signatures \in [Orders -> Nat]
         /\ request \in [Tses -> Orders \union {NULL}] /\ overdue \in [Tses -> SUBSET Orders]
         /\ \A d \in Tses : request[d] # NULL <=> wrapper[d] \in {"signing", "signed"}
  BY DEF IInv, TypeOK
<1> DEFINE Goal == /\ \A o \in Orders : status[o] \in Final => status'[o] = status[o]
                   /\ [Promise!Next]_(Promise!vars)
<1>0. ASSUME UNCHANGED <<status, signatures>> PROVE Goal
  BY <1>0 DEF Promise!vars, Outcome, OutcomeOf
<1>1. ASSUME NEW o \in Orders, NewOrder(o) PROVE Goal
  <2>1. Promise!Request(o)
    <3>1. Outcome' = [Outcome EXCEPT ![o] = OutcomeOf["new"]]
      BY <1>1, <1>type, OutcomeChanges DEF NewOrder, SignatureStatus
    <3>2. Outcome[o] = "none" /\ OutcomeOf["new"] = "waiting" /\ signatures' = signatures
      BY <1>1 DEF NewOrder, Outcome, OutcomeOf
    <3> QED
      BY <3>1, <3>2 DEF Promise!Request
  <2> QED
    BY <1>1, <1>type, <2>1 DEF NewOrder, Promise!Next
<1>2. ASSUME NEW d \in Tses, GrabNextRequest(d) PROVE Goal
  <2>1. PICK o \in Orders : /\ status[o] = "new"
                            /\ status' = [status EXCEPT ![o] = "pending"]
                            /\ signatures' = signatures
    BY <1>2 DEF GrabNextRequest, First, Requests
  <2>2. \A p \in Orders : status'[p] # status[p] => status[p] = "new" /\ status'[p] = "pending"
    BY <1>type, <2>1
  <2>3. Outcome' = Outcome
    BY <2>2 DEF Outcome, OutcomeOf
  <2> QED
    BY <1>type, <2>1, <2>3 DEF Promise!vars
<1>3. ASSUME NEW d \in Tses, wrapper[d] \in {"signing", "signed"}
      PROVE  /\ request[d] \in Orders /\ status[request[d]] = "pending"
             /\ signatures[request[d]] = IF wrapper[d] = "signed" THEN 1 ELSE 0
  BY <1>3, <1>type DEF IInv, RequestsArePending
<1>4. ASSUME NEW d \in Tses, DeviceSigns(d) PROVE Goal
  <2> DEFINE o == request[d]
  <2>1. /\ o \in Orders /\ status[o] = "pending" /\ signatures[o] = 0
        /\ signatures' = [signatures EXCEPT ![o] = 1] /\ status' = status
    <3>1. o \in Orders /\ status[o] = "pending" /\ signatures[o] = 0
      BY <1>3, <1>4 DEF DeviceSigns
    <3>2. signatures' = [signatures EXCEPT ![o] = signatures[o] + 1] /\ status' = status
      BY <1>4 DEF DeviceSigns
    <3>3. signatures[o] + 1 = 1
      BY <3>1
    <3> QED
      BY <3>1, <3>2, <3>3
  <2> HIDE DEF o
  <2>2. Outcome[o] = "waiting" /\ Outcome' = Outcome
    BY <2>1 DEF Outcome, OutcomeOf
  <2>3. Promise!Sign(o)
    BY <2>1, <2>2 DEF Promise!Sign
  <2> QED
    BY <2>1, <2>3 DEF Promise!Next
<1>5. ASSUME NEW d \in Tses, RequestDone(d) PROVE Goal
  <2> DEFINE o == request[d]
  <2>1. /\ o \in Orders /\ status[o] = "pending" /\ signatures[o] = 1
        /\ status' = [status EXCEPT ![o] = "done"] /\ signatures' = signatures
    BY <1>3, <1>5 DEF RequestDone, Finish
  <2> HIDE DEF o
  <2>2. Outcome' = [Outcome EXCEPT ![o] = OutcomeOf["done"]]
    BY <1>type, <2>1, OutcomeChanges DEF SignatureStatus
  <2>3. Outcome[o] = "waiting" /\ OutcomeOf["done"] = "signed"
    BY <2>1 DEF Outcome, OutcomeOf
  <2>4. Promise!Succeed(o)
    BY <2>1, <2>2, <2>3 DEF Promise!Succeed
  <2> QED
    BY <1>type, <2>1, <2>4 DEF Promise!Next
<1>6. ASSUME NEW d \in Tses, FailRequest(d) PROVE Goal
  <2> DEFINE o == request[d]
  <2>1. /\ o \in Orders /\ status[o] = "pending" /\ signatures[o] = 0
        /\ status' = [status EXCEPT ![o] = "failure"]
        /\ signatures' = signatures \/ signatures' = [signatures EXCEPT ![o] = 1]
    <3>2. o \in Orders /\ status[o] = "pending" /\ signatures[o] = 0
      BY <1>3, <1>6, <1>type DEF FailRequest
    <3>3. signatures' = signatures \/ signatures' = [signatures EXCEPT ![o] = 1]
      BY <1>6, <3>2 DEF FailRequest
    <3> QED
      BY <1>6, <3>2, <3>3 DEF FailRequest, Finish
  <2> HIDE DEF o
  <2>2. Promise!Fail({o})
    BY <2>1, <1>type DEF Promise!Fail, Outcome, OutcomeOf, SignatureStatus
  <2> QED
    BY <1>type, <2>1, <2>2 DEF Promise!Next
<1>7. ASSUME NEW d \in Tses, FailOverdue(d) PROVE Goal
  <2>1. PICK o \in overdue[d] : IF o \in late THEN status' = [status EXCEPT ![o] = "failure"]
                                             ELSE UNCHANGED status
    BY <1>7 DEF FailOverdue, First
  <2>2. o \in Orders /\ status[o] = "new" /\ signatures' = signatures
    BY <1>7, <1>type DEF FailOverdue, IInv, OverdueIsNew
  <2>3. CASE o \in late
    <3>1. Promise!Fail({o})
      BY <2>1, <2>2, <2>3, <1>type DEF Promise!Fail, Outcome, OutcomeOf, SignatureStatus
    <3> QED
      BY <1>type, <2>1, <2>2, <2>3, <3>1 DEF Promise!Next
  <2> QED
    BY <1>0, <2>1, <2>2, <2>3
<1>8. CASE Restart
  <2> DEFINE S == {o \in Orders : status[o] = "pending"}
  <2>1. /\ status' = [o \in Orders |-> IF o \in S THEN "failure" ELSE status[o]]
        /\ signatures' = signatures
    BY <1>8 DEF Restart, CleanedUp
  <2>2. Promise!Fail(S)
    BY <2>1, <1>type DEF Promise!Fail, Outcome, OutcomeOf, SignatureStatus
  <2> QED
    BY <1>type, <2>1, <2>2 DEF Promise!Next
<1>9. ASSUME NEW o \in Orders, Expire(o) PROVE Goal
  BY <1>0, <1>9 DEF Expire
<1>10. CASE HandleHook
  BY <1>0, <1>10 DEF HandleHook
<1>11. ASSUME NEW t \in Tills, HandleFeralTill(t) PROVE Goal
  BY <1>0, <1>11 DEF HandleFeralTill
<1>12. ASSUME NEW d \in Tses, Connect(d) \/ LoseConnection(d) \/ Reconnect(d) PROVE Goal
  BY <1>0, <1>12 DEF Connect, LoseConnection, Reconnect
<1>13. CASE UNCHANGED vars
  BY <1>0, <1>13 DEF vars
<1> QED
  BY <1>1, <1>2, <1>4, <1>5, <1>6, <1>7, <1>8, <1>9, <1>10, <1>11, <1>12, <1>13
     DEF Next, HookStep, WrapperStep, SigningStep

\* Although wrappers update rows by id that they read earlier, what became of a
\* request is never overwritten.
THEOREM OutcomeIsFinal == Spec => FinalStays
<1>1. IInv /\ [Next]_vars => [\A o \in Orders : status[o] \in Final => status'[o] = status[o]]_vars
  BY StepFacts
<1> QED
  BY <1>1, Invariance, PTL DEF Spec, FinalStays

\* The signature processor implements SigningPromise.
THEOREM Refinement == Spec => ImplementsPromise
<1>1. Init => Promise!Init
  BY DEF Init, Promise!Init, Outcome, OutcomeOf
<1>2. IInv /\ [Next]_vars => [Promise!Next]_(Promise!vars)
  BY StepFacts
<1> QED
  BY <1>1, <1>2, Invariance, PTL DEF Spec, ImplementsPromise, Promise!Spec
=============================================================================
