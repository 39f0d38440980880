----------------------------- MODULE TseSigning ------------------------------
(***************************************************************************)
(* The signature processor: every order is signed by the security device   *)
(* (TSE) of its till.                                                      *)
(*                                                                         *)
(* A trigger enqueues a request for each new order and notifies the        *)
(* processor, whose hook gives tills without a TSE one. A wrapper task per *)
(* TSE connects to its device, grabs one request at a time and signs it.   *)
(* Without a connection it fails the requests that have waited too long.   *)
(* The process may be restarted at any time.                               *)
(*                                                                         *)
(* No action takes a TSE away from a till: the tool that is to do so,      *)
(* tse_switchover, reads a column that till no longer has and stops before *)
(* its first update.                                                       *)
(***************************************************************************)
EXTENDS Integers, FiniteSets

CONSTANTS
    Tses,           \* the TSEs, all of the same event
    Tills,
    Orders,         \* ids of the orders that need a signature
    TillOf,         \* the till of an order
    Interrupting,   \* orders whose signing may end in an exception
    MaxRestarts     \* bound of the model: restarts of the process

NULL == 0      \* the missing reference: ids are positive

ASSUME OrdersAssumption ==
    /\ Orders \subseteq Nat \ {NULL}
    /\ TillOf \in [Orders -> Tills]
    /\ Interrupting \subseteq Orders
ASSUME NullAssumption == NULL \notin Tses
ASSUME RestartsAssumption == MaxRestarts \in Nat

VARIABLES
    status,       \* tse_signature.signature_status
    signer,       \* tse_signature.tse_id
    late,         \* orders booked more than ten seconds ago
    tseOf,        \* till.tse_id
    tseStatus,    \* tse.status
    wrapper,      \* what the wrapper of a TSE is doing
    request,      \* the order it is having signed
    overdue,      \* the orders it read to fail the late ones among them
    notified,     \* a notification for the hook is waiting
    feral,        \* the tills the hook has yet to give a TSE
    signatures,   \* how many signatures the devices made for an order
    restarts

wrapperVars == <<wrapper, request, overdue>>
hookVars == <<notified, feral>>
vars == <<status, signer, late, tseOf, tseStatus, wrapperVars, hookVars,
          signatures, restarts>>

SignatureStatus == {"none", "new", "pending", "done", "failure"}
Final == {"done", "failure"}
WrapperState == {"connecting", "ready", "signing", "signed", "failing"}

Init ==
    /\ status = [o \in Orders |-> "none"]
    /\ signer = [o \in Orders |-> NULL]
    /\ late = {}
    /\ tseOf = [t \in Tills |-> NULL]
    /\ tseStatus = [d \in Tses |-> "new"]
    /\ wrapper = [d \in Tses |-> "connecting"]
    /\ request = [d \in Tses |-> NULL]
    /\ overdue = [d \in Tses |-> {}]
    /\ notified = TRUE
    /\ feral = {}
    /\ signatures = [o \in Orders |-> 0]
    /\ restarts = 0

-----------------------------------------------------------------------------
(* Mutated forms of definitions below, each a bug that is easy to write. They  *)
(* are not part of the specification; the properties have to tell them apart.  *)

\* A request that was left behind is signed again, gets no outcome, counts as
\* signed, gets a status that does not exist, or finished ones fail with it.
CleanedUp_Retry(s) == IF s = "pending" THEN "new" ELSE s
CleanedUp_Not(s) == s
CleanedUp_Done(s) == IF s = "pending" THEN "done" ELSE s
CleanedUp_Failed(s) == IF s = "pending" THEN "failed" ELSE s
CleanedUp_All(s) == IF s = "none" THEN s ELSE "failure"

\* An order of the till is being signed.
Requests_Signing(d) == {o \in Orders : status[o] = "new" /\ tseOf[TillOf[o]] = d}

-----------------------------------------------------------------------------
(* Orders and the passing of time. *)

\* new_order_added
NewOrder(o) ==
    /\ status[o] = "none"
    /\ status' = [status EXCEPT ![o] = "new"]
    /\ notified' = TRUE
    /\ UNCHANGED <<signer, late, tseOf, tseStatus, wrapperVars, feral, signatures, restarts>>

Expire(o) ==
    /\ status[o] # "none" /\ o \notin late
    /\ late' = late \union {o}
    /\ UNCHANGED <<status, signer, tseOf, tseStatus, wrapperVars, hookVars, signatures, restarts>>

-----------------------------------------------------------------------------
(* The hook. It handles one notification after the other. *)

FeralTills == {t \in Tills : tseOf[t] = NULL /\ \E o \in Orders : status[o] = "new" /\ TillOf[o] = t}

ActiveTses == {d \in Tses : tseStatus[d] = "active"}
Load(d) == Cardinality({t \in Tills : tseOf[t] = d})

HandleHook ==
    /\ notified /\ feral = {}
    /\ notified' = FALSE
    /\ feral' = FeralTills
    /\ UNCHANGED <<status, signer, late, tseOf, tseStatus, wrapperVars, signatures, restarts>>

\* One round of the loop in _handle_feral_tses: an active TSE with the fewest
\* tills. Without an active TSE the till is skipped, so the handler for "no more
\* active TSEs" is never reached.
HandleFeralTill(t) ==
    /\ t \in feral
    /\ feral' = feral \ {t}
    /\ \/ ActiveTses = {} /\ UNCHANGED tseOf
       \/ \E d \in ActiveTses :
             /\ \A x \in ActiveTses : Load(d) <= Load(x)
             /\ tseOf' = [tseOf EXCEPT ![t] = d]
    /\ UNCHANGED <<status, signer, late, tseStatus, wrapperVars, notified, signatures, restarts>>

-----------------------------------------------------------------------------
(* A wrapper. *)

\* The requests a wrapper may take: of its tills, except those of which an
\* order is being signed.
CurrentlySigning == {TillOf[o] : o \in {p \in Orders : status[p] = "pending"}}
Requests(d) ==
    {o \in Orders : /\ status[o] = "new"
                    /\ tseOf[TillOf[o]] = d
                    /\ TillOf[o] \notin CurrentlySigning}
First(S) == {o \in S : \A p \in S : o <= p}

\* A new or failed TSE becomes active when its device can be reached.
Connect(d) ==
    /\ wrapper[d] = "connecting"
    /\ wrapper' = [wrapper EXCEPT ![d] = "ready"]
    /\ tseStatus' = [tseStatus EXCEPT ![d] = "active"]
    /\ UNCHANGED <<status, signer, late, tseOf, request, overdue, hookVars, signatures, restarts>>

\* _grab_next_request, a serializable transaction.
GrabNextRequest(d) ==
    /\ wrapper[d] = "ready"
    /\ \E o \in First(Requests(d)) :
          /\ status' = [status EXCEPT ![o] = "pending"]
          /\ signer' = [signer EXCEPT ![o] = d]
          /\ request' = [request EXCEPT ![d] = o]
    /\ wrapper' = [wrapper EXCEPT ![d] = "signing"]
    /\ UNCHANGED <<late, tseOf, tseStatus, overdue, hookVars, signatures, restarts>>

DeviceSigns(d) ==
    /\ wrapper[d] = "signing"
    /\ signatures' = [signatures EXCEPT ![request[d]] = @ + 1]
    /\ wrapper' = [wrapper EXCEPT ![d] = "signed"]
    /\ UNCHANGED <<status, signer, late, tseOf, tseStatus, request, overdue, hookVars, restarts>>

\* The wrapper writes the outcome of its request and is ready for the next.
Finish(d, outcome) ==
    /\ status' = [status EXCEPT ![request[d]] = outcome]
    /\ request' = [request EXCEPT ![d] = NULL]
    /\ wrapper' = [wrapper EXCEPT ![d] = "ready"]
    /\ UNCHANGED <<signer, late, tseOf, tseStatus, overdue, hookVars, restarts>>

RequestDone(d) ==
    /\ wrapper[d] = "signed"
    /\ Finish(d, "done")
    /\ UNCHANGED signatures

\* The device did not answer in time, whether it has signed or not.
FailRequest(d) ==
    /\ wrapper[d] = "signing"
    /\ Finish(d, "failure")
    /\ UNCHANGED signatures \/ signatures' = [signatures EXCEPT ![request[d]] = @ + 1]

\* The device cannot be reached, the connection breaks down or anything raises
\* an exception. A request that was being signed is left behind as pending. The
\* wrapper reads what is waiting for it.
LoseConnection(d) ==
    /\ \/ wrapper[d] \in {"connecting", "ready"}
       \/ wrapper[d] \in {"signing", "signed"} /\ request[d] \in Interrupting
    /\ overdue' = [overdue EXCEPT ![d] = Requests(d)]
    /\ request' = [request EXCEPT ![d] = NULL]
    /\ wrapper' = [wrapper EXCEPT ![d] = "failing"]
    /\ UNCHANGED <<status, signer, late, tseOf, tseStatus, hookVars, signatures, restarts>>

\* One round of the loop over these requests. The row is updated by its id,
\* whatever its status is by now.
FailOverdue(d) ==
    /\ wrapper[d] = "failing"
    /\ \E o \in First(overdue[d]) :
          /\ overdue' = [overdue EXCEPT ![d] = @ \ {o}]
          /\ IF o \in late
             THEN /\ status' = [status EXCEPT ![o] = "failure"]
                  /\ signer' = [signer EXCEPT ![o] = d]
                  /\ tseStatus' = [tseStatus EXCEPT ![d] = IF @ = "active" THEN "failed" ELSE @]
             ELSE UNCHANGED <<status, signer, tseStatus>>
    /\ UNCHANGED <<late, tseOf, wrapper, request, hookVars, signatures, restarts>>

Reconnect(d) ==
    /\ wrapper[d] = "failing" /\ overdue[d] = {}
    /\ wrapper' = [wrapper EXCEPT ![d] = "connecting"]
    /\ UNCHANGED <<status, signer, late, tseOf, tseStatus, request, overdue, hookVars,
                   signatures, restarts>>

-----------------------------------------------------------------------------
(* The process. *)

\* What run() makes of a request it finds: its predecessor did not complete it.
CleanedUp(s) == IF s = "pending" THEN "failure" ELSE s

Restart ==
    /\ restarts < MaxRestarts
    /\ restarts' = restarts + 1
    /\ status' = [o \in Orders |-> CleanedUp(status[o])]
    /\ wrapper' = [d \in Tses |-> "connecting"]
    /\ request' = [d \in Tses |-> NULL]
    /\ overdue' = [d \in Tses |-> {}]
    /\ notified' = TRUE
    /\ feral' = {}
    /\ UNCHANGED <<signer, late, tseOf, tseStatus, signatures>>

-----------------------------------------------------------------------------
HookStep == HandleHook \/ \E t \in Tills : HandleFeralTill(t)

SigningStep(d) == GrabNextRequest(d) \/ DeviceSigns(d) \/ RequestDone(d) \/ FailRequest(d)

WrapperStep(d) ==
    SigningStep(d) \/ Connect(d) \/ LoseConnection(d) \/ FailOverdue(d) \/ Reconnect(d)

Next ==
    \/ \E o \in Orders : NewOrder(o) \/ Expire(o)
    \/ HookStep
    \/ \E d \in Tses : WrapperStep(d)
    \/ Restart

Spec == Init /\ [][Next]_vars

\* The hook handles its notifications, and a wrapper that is connected works on
\* its requests: sign() has a timeout. One that is not keeps trying, or failing,
\* to connect. Time passes. That a device is ever reached is not assumed.
Fairness ==
    /\ WF_vars(HookStep)
    /\ \A o \in Orders : WF_vars(Expire(o))
    /\ \A d \in Tses :
          /\ WF_vars(SigningStep(d))
          /\ WF_vars(FailOverdue(d) \/ Reconnect(d))
          /\ WF_vars(wrapper[d] = "connecting" /\ (Connect(d) \/ LoseConnection(d)))

FairSpec == Spec /\ Fairness

-----------------------------------------------------------------------------
(* Properties. *)

\* Every variable stays in its range; a wrapper has a request exactly while it
\* is having one signed.
TypeOK ==
    /\ status \in [Orders -> SignatureStatus]
    /\ signer \in [Orders -> Tses \union {NULL}]
    /\ late \subseteq Orders
    /\ tseOf \in [Tills -> Tses \union {NULL}]
    /\ tseStatus \in [Tses -> {"new", "active", "failed"}]
    /\ wrapper \in [Tses -> WrapperState]
    /\ request \in [Tses -> Orders \union {NULL}]
    /\ \A d \in Tses : request[d] # NULL <=> wrapper[d] \in {"signing", "signed"}
    /\ overdue \in [Tses -> SUBSET Orders]
    /\ notified \in BOOLEAN
    /\ feral \subseteq Tills
    /\ signatures \in [Orders -> Nat]
    /\ restarts \in 0..MaxRestarts

\* No order is signed twice, however often devices fail to answer, connections
\* break and the process is restarted.
NeverSignedTwice == \A o \in Orders : signatures[o] <= 1

\* At most one order of a till is being signed, or was left behind.
OneAtATime ==
    \A o, p \in Orders :
        status[o] = "pending" /\ status[p] = "pending" /\ TillOf[o] = TillOf[p] => o = p

\* A done order was signed by the one TSE its till was ever given, which is what
\* the till's history is looked up by in the exports.
SignedByItsTse ==
    \A o \in Orders : status[o] = "done" =>
        signatures[o] = 1 /\ signer[o] = tseOf[TillOf[o]]

\* Once done or failed, a request is never touched again, although wrappers
\* update rows by id that they read earlier. The receipt of an order can be
\* inserted only once.
FinalStays ==
    [][\A o \in Orders : status[o] \in Final => status'[o] = status[o]]_vars

\* Signing keeps its promise.
OutcomeOf == [none |-> "none", new |-> "waiting", pending |-> "waiting",
              done |-> "signed", failure |-> "failed"]
Outcome == [o \in Orders |-> OutcomeOf[status[o]]]
Promise == INSTANCE SigningPromise WITH outcome <- Outcome
ImplementsPromise == Promise!Spec

\* The order of a till that has a TSE gets its outcome, whether the device can
\* be reached or not, unless the signing of an order of that till is interrupted.
UndisturbedTills == {t \in Tills : \A o \in Interrupting : TillOf[o] # t}
OutcomeComes ==
    \A o \in Orders :
        (status[o] = "new" /\ tseOf[TillOf[o]] # NULL /\ TillOf[o] \in UndisturbedTills)
            ~> status[o] \in Final

\* If there is no TSE for the order of a till, it fails.
FailsWithoutTse ==
    \A o \in Orders :
        (status[o] = "new" /\ tseOf[TillOf[o]] = NULL)
            ~> (status[o] = "failure" \/ tseOf[TillOf[o]] # NULL)
=============================================================================
