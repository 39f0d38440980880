------------------------------ MODULE TopUpPage ------------------------------
(***************************************************************************)
(* The page of the customer portal where a top-up is paid by card: a form, *)
(* then SumUp's card widget, then success or an error. It is composed with *)
(* the server, the worker and SumUp of SumupTopUp, which the page reaches  *)
(* by requests whose answers take their time, overtake each other or never *)
(* come.                                                                   *)
(*                                                                         *)
(* An answer is handled by the callback that was made when the request was *)
(* sent: it knows that order, and finds the page wherever it is by then.   *)
(***************************************************************************)
EXTENDS SumupTopUp

CONSTANT Checks   \* bound of the model: requests to check a checkout at a time

NoOrder == "no order"
Idle == [order |-> NoOrder, answer |-> "none"]

ASSUME NoOrderAssumption == NoOrder \notin Orders

VARIABLES
    state,      \* of the reducer: the stage, and the order of the checkout
    creating,   \* the order whose checkout has been created but not answered yet
    widget,     \* the order the card widget is mounted for
    checks      \* requests to check a checkout

pageVars == <<state, creating, widget, checks>>
allVars == <<vars, pageVars>>

Stages == {"initial", "sumup", "success", "error"}
InitialState == [stage |-> "initial", order |-> NoOrder]

PageInit ==
    /\ Init
    /\ state = InitialState
    /\ creating = NoOrder
    /\ widget = NoOrder
    /\ checks = [i \in Checks |-> Idle]

-----------------------------------------------------------------------------
(* Mutated forms of definitions below, each a bug that is easy to write. They  *)
(* are not part of the specification; the properties have to tell them apart.  *)

\* Whatever has not failed is taken for a success, also on the server.
AnswerFor_Optimistic(o) ==
    IF pending[o] # "pending" THEN "raised" ELSE IF Rejected(o) THEN "FAILED" ELSE "PAID"

\* The reducer does not look at the stage.
Reduce_Always(from, next) == state' = next

\* The widget is not unmounted.
Unmounted_Not == widget

-----------------------------------------------------------------------------
(* The page. *)

\* The reducer: an action that the stage does not expect changes nothing.
Reduce(from, next) == state' = IF state.stage = from THEN next ELSE state

\* check_online_topup_checkout. It fetches the order with fetch_pending_order, which finds
\* pending rows only and raises for one that is booked or cancelled: its answers for those
\* are never given. FAILED is also said of an order that stays pending.
AnswerFor(o) ==
    IF pending[o] # "pending" THEN "raised" ELSE IF Confirmed(o) THEN "PAID" ELSE "FAILED"

Unmounted == NoOrder

\* The button is disabled while the checkout is created.
FormIsShown == state.stage = "initial" /\ creating = NoOrder

\* onSubmit; the server creates the checkout.
Submit(o) ==
    /\ FormIsShown
    /\ CreateOnlineCheckout(o)
    /\ creating' = o
    /\ UNCHANGED <<state, widget, checks>>

\* The answer. An effect mounts the widget, or updates one that is there.
CheckoutCreated ==
    /\ creating # NoOrder
    /\ Reduce("initial", [stage |-> "sumup", order |-> creating])
    /\ widget' = IF state'.stage = "sumup" THEN state'.order ELSE widget
    /\ creating' = NoOrder
    /\ UNCHANGED <<vars, checks>>

\* No answer: the form is back, and the server is left with a pending order.
CheckoutLost ==
    /\ creating # NoOrder
    /\ creating' = NoOrder
    /\ UNCHANGED <<vars, state, widget, checks>>

\* handleSumupCardResp: the widget reports an error or a success, and may do so again
\* before the check is answered. What it reports is not believed.
WidgetResponds(i) ==
    /\ widget # NoOrder /\ sumup[widget] # "none"
    /\ checks[i] = Idle
    /\ checks' = [checks EXCEPT ![i] = [order |-> widget, answer |-> "none"]]
    /\ UNCHANGED <<vars, state, creating, widget>>

\* The server handles the request.
ServerChecks(i) ==
    /\ checks[i] # Idle /\ checks[i].answer = "none"
    /\ LET o == checks[i].order IN
       /\ IF pending[o] = "pending" THEN CheckPending(o) ELSE UNCHANGED vars
       /\ checks' = [checks EXCEPT ![i].answer = AnswerFor(o)]
    /\ UNCHANGED <<state, creating, widget>>

\* The answer arrives. Whatever widget is there is unmounted.
CheckAnswered(i) ==
    /\ checks[i].answer \in {"PAID", "FAILED"}
    /\ Reduce("sumup", [state EXCEPT !.stage =
                  IF checks[i].answer = "PAID" THEN "success" ELSE "error"])
    /\ widget' = Unmounted
    /\ checks' = [checks EXCEPT ![i] = Idle]
    /\ UNCHANGED <<vars, creating>>

\* The server raised, or the request or its answer is lost: a toast. The page stays at
\* the order and its widget, which may respond again.
CheckLost(i) ==
    /\ checks[i] # Idle
    /\ checks' = [checks EXCEPT ![i] = Idle]
    /\ UNCHANGED <<vars, state, creating, widget>>

\* "Try again".
Reset ==
    /\ state.stage = "error"
    /\ state' = InitialState
    /\ UNCHANGED <<vars, creating, widget, checks>>

\* The page is left or reloaded, which forgets everything; answers find no page.
Leave ==
    /\ state' = InitialState
    /\ creating' = NoOrder
    /\ widget' = NoOrder
    /\ checks' = [i \in Checks |-> Idle]
    /\ UNCHANGED vars

PageStep ==
    \/ \E o \in Orders : Submit(o)
    \/ CheckoutCreated \/ CheckoutLost
    \/ \E i \in Checks : \/ WidgetResponds(i) \/ ServerChecks(i)
                         \/ CheckAnswered(i) \/ CheckLost(i)
    \/ Reset \/ Leave

\* What happens without the page: payments, the worker, other tabs that were left.
ElsewhereStep ==
    /\ WorkerStep \/ \E o \in Orders : SumupStep(o) \/ Expire(o) \/ CheckPending(o)
    /\ UNCHANGED pageVars

PageNext == PageStep \/ ElsewhereStep

PageSpec == PageInit /\ [][PageNext]_allVars

-----------------------------------------------------------------------------
(* Properties. *)

\* Types, and: the page is at an order exactly when it is not at the form.
PageTypeOK ==
    /\ state \in [stage : Stages, order : Orders \union {NoOrder}]
    /\ state.stage = "initial" <=> state.order = NoOrder
    /\ creating \in Orders \union {NoOrder}
    /\ widget \in Orders \union {NoOrder}
    /\ checks \in [Checks -> [order : Orders \union {NoOrder},
                              answer : {"none", "PAID", "FAILED", "raised"}]]

\* Success is shown only if a top-up of the portal has been booked, whatever the
\* widget reports: the page believes the server alone.
SuccessMeansCredit == state.stage = "success" => ordr \intersect OnlineOrders # {}

\* The customer never types card data into the checkout of an order the page has
\* given up: the widget is for the order the page is at.
WidgetIsForThisOrder ==
    widget # NoOrder => state.stage = "sumup" /\ widget = state.order

-----------------------------------------------------------------------------
(* What is said of the page, and does not hold. *)

\* "Top Up succeeded": the order that the page is at is booked. But the page may be
\* told so of the order before, if it has given that up as failed while it was pending.
SuccessMeansBooked == state.stage = "success" => state.order \in ordr

\* "Top Up failed": the order is not paid, and cannot be any more. But FAILED is also
\* what the server says of an order that is pending.
ErrorMeansCancelled == state.stage = "error" => pending[state.order] = "cancelled"

\* A customer whose top-up the worker has booked is told PAID: there is a branch for it.
\* But the row is not found any more, so the page shows a toast and stays at the widget.
BookedIsToldPaid ==
    \A i \in Checks : checks[i].answer = "raised" => checks[i].order \notin ordr
=============================================================================
