------------------------------- MODULE WebViews -------------------------------
(***************************************************************************)
(* One of the pages of WebPages, open in the browser of one user: it reads *)
(* what it shows through the two caches of WebApi, offers its operations   *)
(* by what it has read, and reads again after them.  Requests and answers  *)
(* take their time and may be lost; WebService decides.                    *)
(*                                                                         *)
(* Bounds: the query that the page waits for and one more of those it      *)
(* shows; one call at a time; a node of an event that is not read-only and *)
(* forbids at most one kind of object; the row is one of that node;        *)
(* somebody else changes it once, into any other that the page may have;   *)
(* the page is opened with empty caches.                                   *)
(***************************************************************************)
EXTENDS WebService, WebApi

CONSTANT Powers    \* the sets of privileges that a user of the site may have

VARIABLES
  visit,   \* the page, whose user it is, what the node forbids, and the second query
  row,     \* the marks of the row that the page is about
  seen,    \* these marks as the page shows them
  got,     \* these marks in the answer that is on its way
  caches,  \* for each of the two queries: what it shows and what is on its way
  delayed, \* the queries that RTK Query has yet to read again
  call,    \* the call of the user that is under way
  told,    \* what the user was told of the last call
  open,    \* whether the page is open
  others   \* whether somebody else may still change the row

viewVars == <<visit, row, seen, got, caches, delayed, call, told, open, others>>

(***************************************************************************)
(* What is shown, or read and on its way, is "current", "stale" if a call  *)
(* of the user has changed it since, and "old" if it is stale and the page *)
(* could not know that, or asked while the first answer was on its way.    *)
(***************************************************************************)
Shown == {"nothing", "empty", "current", "stale", "old"}
Fetches == {"idle", "asked", "refused", "current", "stale", "old"}

NothingCalled == [op |-> "nothing", stage |-> "none", row |-> {}]

Page == router[visit.part].pages[visit.page]

Watched == {Page.main, visit.also} \ {"nothing"}

Kinds(page) ==
    UNION {service[o].object : o \in DOMAIN service
                                     \intersect (DOMAIN page.offers \union {QueryOp(page.main)})}

Visits ==
    UNION {UNION {LET page == router[part].pages[name]
                  IN  [part: {part}, page: {name}, powers: Powers,
                       forbids: {{}} \union {{k} : k \in Kinds(page)},
                       also: {"nothing"} \union page.shows]
                  : name \in DOMAIN router[part].pages}
           : part \in DOMAIN router}

-----------------------------------------------------------------------------
(* Reading.                                                                 *)

IsCollection(q) == q \in DOMAIN collections

Asked(c, queries) == [q \in DOMAIN c |-> IF q \in queries THEN [c[q] EXCEPT !.fetch = "asked"] ELSE c[q]]

\* The queries are read again once no request is under way.
RtkReads(c, pending, calling) ==
    LET busy == calling \/ \E q \in DOMAIN c : ~IsCollection(q) /\ c[q].fetch # "idle"
    IN  /\ caches' = IF busy THEN c ELSE Asked(c, pending)
        /\ delayed' = IF busy THEN pending ELSE {}

RtkCalling == call.stage # "none" /\ Page.offers[call.op].via = "rtk"

ViewInit ==
    /\ visit \in {v \in Visits : /\ Reached(v.part, v.page, v.powers, v.forbids)
                                 /\ v.forbids = {} \/ v.also = "nothing"}
    /\ row \in Page.rows
    /\ caches = [q \in Watched |-> [shown |-> "nothing", fetch |-> "asked", failed |-> FALSE]]
    /\ seen = {} /\ got = {} /\ delayed = {}
    /\ call = NothingCalled /\ told = "nothing" /\ open = TRUE /\ others = (visit.also = "nothing")

ServiceShows(q) ==
    /\ open
    /\ caches[q].fetch = "asked"
    /\ \E verdict \in Verdicts(QueryOp(q), row, visit.powers, visit.forbids) :
          caches' = [caches EXCEPT ![q].fetch = IF verdict = "applied" THEN "current" ELSE "refused"]
    /\ got' = IF q = Page.main THEN row ELSE got
    /\ UNCHANGED <<visit, row, seen, delayed, call, told, open, others>>

\* The generated client gives what failed as an error that nobody looks at: a
\* collection takes it for an empty list. RTK Query keeps what it had. Some
\* pages are left when they learn that there is no row.
Arrive(q, lost) ==
    LET ok == ~lost /\ caches[q].fetch # "refused"
        shown == IF ok THEN caches[q].fetch ELSE IF IsCollection(q) THEN "empty" ELSE caches[q].shown
    IN  /\ open
        /\ caches[q].fetch \notin {"idle", "asked"}
        /\ RtkReads([caches EXCEPT ![q] = [shown |-> shown, fetch |-> "idle", failed |-> ~ok]],
                    delayed, RtkCalling)
        /\ seen' = IF ok /\ q = Page.main THEN got ELSE seen
        /\ open' = (ok \/ q # Page.main \/ Page.missing # "leaves")
        /\ UNCHANGED <<visit, row, got, call, told, others>>

\* The window gets the focus, or the network is back: both caches read again.
Refocus ==
    /\ open
    /\ \E q \in Watched : caches[q].fetch = "idle"
    /\ caches' = Asked(caches, {q \in Watched : caches[q].fetch = "idle"})
    /\ UNCHANGED <<visit, row, seen, got, delayed, call, told, open, others>>

-----------------------------------------------------------------------------
(* Calling.                                                                 *)

IsThere ==
    Page.main # "nothing" =>
        caches[Page.main].shown \in {"current", "stale", "old"} /\ ~caches[Page.main].failed

Offered(o, marks) == Page.offers[o].needs \subseteq marks /\ Page.offers[o].bars \intersect marks = {}

Press(o) ==
    LET offer == Page.offers[o]
    IN  /\ open /\ call = NothingCalled /\ IsThere
        /\ useCurrentUserHasPrivilege(offer.asks, visit.powers)
        /\ Offered(o, seen)
        /\ call' = [op |-> o, stage |-> "asked", row |-> seen]
        /\ told' = "nothing"
        /\ UNCHANGED <<visit, row, seen, got, caches, delayed, open, others>>

ServiceDoes ==
    LET Aged(x) == IF x = "current" THEN "stale" ELSE x
    IN  /\ open /\ call.stage = "asked"
        /\ \E verdict \in Verdicts(call.op, row, visit.powers, visit.forbids) :
              /\ call' = [call EXCEPT !.stage = verdict]
              /\ row' = IF verdict = "applied" THEN After(call.op, row) ELSE row
              /\ caches' = [q \in Watched |->
                               IF verdict = "applied" /\ Concerns(call.op, QueryOp(q))
                               THEN [caches[q] EXCEPT !.shown = Aged(@), !.fetch = Aged(@)] ELSE caches[q]]
        /\ UNCHANGED <<visit, seen, got, delayed, told, open, others>>

\* A mutated form: what the service refuses is only logged.
errorMiddleware_Absent(o) == FALSE

\* Every refusal in the service's own words that RTK Query gets is shown to the user.
errorMiddleware(o) == Page.offers[o].via = "rtk" /\ call.stage = "refused" /\ o \in DOMAIN service

\* Other errors have the middleware's words for it or not (the HTTP library knows).
Told(o, ok, lost) ==
    LET tells == Page.offers[o].tells
    IN  IF tells = "anyway" \/ (ok /\ tells \in {"outcome", "success"}) THEN {"success"}
        ELSE IF (~ok /\ tells \in {"outcome", "failure"}) \/ (~lost /\ errorMiddleware(o)) THEN {"failure"}
        ELSE IF ~lost /\ call.stage = "broken" /\ Page.offers[o].via = "rtk" THEN {"failure", "nothing"}
        ELSE {"nothing"}

\* A mutated form: a handler without a message to show does not go on.
GoesOn_Told(o, ok) == ok /\ Page.offers[o].tells # "nothing"

\* Whether the handler goes on to what follows the call.
GoesOn(o, ok) == ok \/ Page.offers[o].always

\* The answer, or that there is none, comes to the handler: it reads the
\* collections again that it names, unless the first answer is still on its way.
\* A page that was left does nothing more.
Answer(lost) ==
    LET o == call.op
        offer == Page.offers[o]
        ok == call.stage = "applied" /\ ~lost
        on == GoesOn(o, ok)
        again == {q \in Watched : on /\ \E name \in offer.after : ReadAgain(name, q)}
        joined == {q \in again : caches[q].shown = "nothing" /\ caches[q].fetch # "idle"}
        Known(q) == ~lost /\ q \notin joined
        Pardoned(x) == IF x = "stale" THEN "old" ELSE x
        kept == [q \in Watched |-> IF Known(q) THEN caches[q]
                                   ELSE [caches[q] EXCEPT !.shown = Pardoned(@), !.fetch = Pardoned(@)]]
        invalid == {q \in Watched : offer.via = "rtk" /\ Invalidates(o, q)}
    IN  /\ open
        /\ call.stage \in {"applied", "refused", "broken"} \/ (lost /\ call.stage = "asked")
        /\ RtkReads(Asked(kept, again \ joined), delayed \union invalid, FALSE)
        /\ call' = NothingCalled
        /\ told' \in Told(o, ok, lost)
        /\ open' = ~(offer.leaves /\ on)
        /\ UNCHANGED <<visit, row, seen, got, others>>

OthersChange ==
    /\ open /\ others /\ row \in Page.rows
    /\ row' \in Page.rows \ {row}
    /\ others' = FALSE
    /\ UNCHANGED <<visit, seen, got, caches, delayed, call, told, open>>

ViewNext ==
    \/ \E q \in Watched : ServiceShows(q)
    \/ \E q \in Watched, lost \in BOOLEAN : Arrive(q, lost)
    \/ Refocus
    \/ \E o \in DOMAIN Page.offers : Press(o)
    \/ ServiceDoes
    \/ \E lost \in BOOLEAN : Answer(lost)
    \/ OthersChange

ViewSpec == ViewInit /\ [][ViewNext]_viewVars

-----------------------------------------------------------------------------
(* What the tables say of all pages.                                        *)

\* Two pages leave a list of users with its old logins, and a logout leaves the list of
\* tills as it was.
Forgotten == ({"TillDetail", "TerminalDetail"} \X {"users"}) \union {<<"TerminalDetail", "tills">>}

Rereads(page, o, q) ==
    \/ \E name \in page.offers[o].after : ReadAgain(name, q)
    \/ page.offers[o].via = "rtk" /\ Invalidates(o, q)

\* All else that an operation changes is read again after it, because the handler names it
\* or because of its tags, unless the page is left.
ASSUME ChangesAreReread ==
    \A part \in DOMAIN router : \A name \in DOMAIN router[part].pages :
        LET page == router[part].pages[name]
        IN  \A o \in DOMAIN page.offers \intersect DOMAIN service,
                q \in ({page.main} \union page.shows) \ {"nothing"} :
                    Concerns(o, QueryOp(q)) =>
                        \/ Rereads(page, o, q)
                        \/ page.offers[o].leaves
                        \/ <<name, q>> \in Forgotten

-----------------------------------------------------------------------------
(* Properties.                                                              *)

ViewTypeOK ==
    /\ visit \in Visits
    /\ DOMAIN caches = Watched
    /\ \A q \in Watched : caches[q] \in [shown: Shown, fetch: Fetches, failed: BOOLEAN]
    /\ delayed \subseteq Watched
    /\ call.op \in DOMAIN Page.offers \union {"nothing"}
    /\ call.stage \in {"none", "asked", "applied", "refused", "broken"}
    /\ told \in {"nothing", "success", "failure"}

AtRest == call = NothingCalled /\ delayed = {} /\ \A q \in Watched : caches[q].fetch = "idle"

\* What a page shows of a change of its own user: once every answer has come and
\* nothing is being read, no query shows what it read before the change, unless
\* its last reading failed or the answer to the change was lost. Two pages know
\* better, and are Forgotten.
OwnWritesShown ==
    open /\ AtRest =>
        \A q \in Watched :
            caches[q].shown = "stale" => caches[q].failed \/ <<visit.page, q>> \in Forgotten

\* The refusals that the site does not foresee: on pages that administrators see
\* although the service asks for another privilege, or that are open to everybody
\* who has the link; of kinds of object that a page without a guard does not ask
\* for; of rows for which the button should not be there; and of calls that might as well
\* have been served, had the user typed something else, or another server not failed.
Unforeseen(o) ==
    LET page == visit.page
        ForManagers == {"PayoutRunDetail", "CustomerDetail", "CustomerSearch", "CustomerTagSwap",
                        "CustomersWithBlockedPayout"}
        Unguarded == {"AccountDetail", "AuditLogDetail", "AuditLogList", "CashierCloseOut", "CashierShiftDetail",
                      "DsfinvkExport", "ExternalTicketList", "MdmDeviceList", "NodeOverview", "NodeSettings",
                      "OrderDetail", "PayoutRunDetail", "PayoutRunList", "RevenueReports", "SumupOauthCallback",
                      "TabBon", "TabDesign", "TabPretix", "TerminalDetail", "TerminalOverview", "TransactionDetail"}
        AnyKind == {<<"TabPretix", "generateWebhookUrl">>}
                   \union ({"TerminalDetail"} \X {"forceLogoutUser", "removeFromTerminal"})
        AnyRow == {<<"CashRegisterDetail", "deleteRegister">>, <<"TerminalDetail", "deleteTerminal">>,
                   <<"TillDetail", "deleteTill">>, <<"UserDetail", "deleteUser">>,
                   <<"NodeSettings", "deleteNode">>, <<"CashierCloseOut", "closeOutCashier">>,
                   <<"OrderDetail", "cancelOrder">>, <<"SaleEdit", "editOrder">>}
                  \union ({"UserToRoleList", "UserToRoleUpdate"} \X {"updateUserToRoles"})
    IN  IF ~HasPrivileges(service[o], visit.powers)
             THEN page \in (IF Admin \subseteq visit.powers THEN ForManagers ELSE Unguarded)
        ELSE IF ~AtNode(service[o], visit.forbids) THEN <<page, o>> \in AnyKind
        ELSE "applied" \in Verdicts(o, row, visit.powers, visit.forbids) \/ <<page, o>> \in AnyRow

Failures == {"refused", "broken"}

\* A page offers what the service does: while the page shows the row as it is, neither
\* the service nor its database refuses what the page offers or what it waits for, but
\* for the calls that are Unforeseen.
RefusalsForeseen ==
    [][/\ ServiceDoes /\ call.row = row /\ call'.stage \in Failures => Unforeseen(call.op)
       /\ (Page.main # "nothing" /\ caches'[Page.main].fetch = "refused") => Unforeseen(QueryOp(Page.main))]_viewVars

\* Nobody looks at what a collection's client was answered: these only seem to succeed.
Unnoticed == {"deleteRegister", "deleteTerminal", "deleteTill", "deleteUser", "updateUserToRoles"}

\* A user whose call fails, and who gets the answer, is told of a failure: by the page, or,
\* if the service has refused it in its own words, by the middleware. The calls that go
\* through a collection and may be refused for their row are Unnoticed.
RefusalsAreTold ==
    [][Answer(FALSE) /\ call.stage \in Failures /\ told' # "failure"
       => \/ call.op \in Unnoticed
          \/ /\ call.stage = "broken" /\ Page.offers[call.op].via = "rtk"
             /\ Page.offers[call.op].tells \in {"nothing", "success"}]_viewVars

\* A call for a row that has changed since, so that the page would no longer offer
\* it, is refused, or done again without effect. With two exceptions: a SEPA file
\* can be made of a payout run that has been settled, and the logout of a terminal
\* that is no longer registered still takes its till away.
StaleOffersRefused ==
    [][ServiceDoes /\ ~Offered(call.op, row) /\ call'.stage = "applied"
       => \/ /\ call.op \in {"preventCustomerPayout", "allowCustomerPayout", "removeFromTerminal",
                             "forceLogoutUser"}
             /\ row' = row
          \/ call.op \in {"payoutRunSepaXml", "logoutTerminal"}]_viewVars
=============================================================================
