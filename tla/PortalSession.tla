---------------------------- MODULE PortalSession ----------------------------
(***************************************************************************)
(* The sessions of the customer portal in one tab of a browser: customers  *)
(* log in and out one after the other, the pages read the answers of the   *)
(* service from a cache, and the form for the bank data starts from what   *)
(* the cache holds.  The cache is not emptied between two sessions.        *)
(*                                                                         *)
(* An answer that is cached, and a request, stand for the session whose    *)
(* token the request carried.  In the model the event stays open, payouts  *)
(* are enabled and no customer is in a payout run; the pages without a     *)
(* session, the top-up page and the orders on the start page are left out. *)
(***************************************************************************)
EXTENDS Naturals, Sequences

CONSTANTS
    Customers,
    Nobody,      \* whose bank data is stored when none is
    MaxLogins    \* bound of the model

ASSUME SessionAssumption == Nobody \notin Customers /\ MaxLogins \in Nat

Queries == {"getCustomer", "payoutInfo"}
Pages == {"/", "/payout-info"}
NoSession == 0

VARIABLES
    sessions,   \* of the service: whose, and whether it has not been logged out
    bank,       \* of the service: whose bank data each customer's payout goes to
    token,      \* the session of the tab
    page,       \* "/login" or one of the pages with a session
    next,       \* where a login leads to
    cache,      \* for each query what is cached, and the request under way
    form,       \* whose bank data the form has, Nobody before it is there
    saving,     \* the call that saves it
    leaving,    \* the call that logs out
    found       \* history: what a login found: another customer's data, a request, a call

vars == <<sessions, bank, token, page, next, cache, form, saving, leaving, found>>

Logins == 1..MaxLogins
CustomerOf(s) == sessions[s].customer
Accepts(s) == sessions[s].open

\* An entry with what is cached, and the request of session s under way.
Entry(data, error, s) == [data |-> data, error |-> error, request |-> s, answer |-> "none"]
NoEntry == Entry(NoSession, FALSE, NoSession)
NoCall == [session |-> NoSession, form |-> Nobody, answer |-> "none"]

Init ==
    /\ sessions = <<>>
    /\ bank = [c \in Customers |-> Nobody]
    /\ token = NoSession
    /\ page = "/login" /\ next = "/"
    /\ cache = [q \in Queries |-> NoEntry]
    /\ form = Nobody
    /\ saving = NoCall /\ leaving = NoCall
    /\ found = {}

-----------------------------------------------------------------------------
(* Mutated forms of definitions below, each a bug that is easy to write. They  *)
(* are not part of the specification; the properties have to tell them apart.  *)

\* What is cached is good enough for a page that is opened.
Fetched_IfMissing(c, s) ==
    [q \in Queries |-> IF c[q].request # NoSession \/ c[q].data # NoSession THEN c[q]
                       ELSE Entry(c[q].data, c[q].error, s)]

\* The service saves for the customer who is logged in when it gets to it.
SavedFor_Present(s) == IF token = NoSession THEN CustomerOf(s) ELSE CustomerOf(token)

\* Any failure logs out.
LogsOut_Always(answer) == answer \in {"refused", "lost"}

\* The pages do not look whether there is a token.
Leave_Stay(p, c) ==
    /\ token' = NoSession
    /\ UNCHANGED <<page, next, form>>
    /\ cache' = c

-----------------------------------------------------------------------------
(* The cache. *)

\* refetchOnMountOrArgChange, refetchOnFocus: a page that is opened fetches whatever
\* is cached again, but never what is being fetched, for whichever session.
Fetched(c, s) ==
    [q \in Queries |-> IF c[q].request # NoSession THEN c[q]
                       ELSE Entry(c[q].data, c[q].error, s)]

\* The entry after its answer arrived: a failure leaves what is cached.
Answered(e, answer) ==
    IF answer = "read" THEN Entry(e.request, FALSE, NoSession)
    ELSE Entry(e.data, TRUE, NoSession)

\* errorMiddleware: 401, for whichever session.
LogsOut(answer) == answer = "refused"

-----------------------------------------------------------------------------
(* The pages. *)

\* Until then a page shows that it is loading.
Loaded(c) ==
    \A q \in Queries : c[q].data # NoSession \/ (c[q].error /\ c[q].request = NoSession)

Failed(c) == \E q \in Queries : c[q].error

\* Page p in session s, opened or shown on with cache c: the payout page gives up after a failure,
\* and otherwise gives its form the data that is cached, once.
Show(p, c, f, s) ==
    IF p # "/payout-info"
    THEN /\ page' = p /\ cache' = c /\ form' = Nobody
    ELSE IF Loaded(c) /\ Failed(c)
    THEN /\ page' = "/" /\ cache' = Fetched(c, s) /\ form' = Nobody
    ELSE /\ page' = p /\ cache' = c
         /\ form' = IF f = Nobody /\ Loaded(c) THEN CustomerOf(c["getCustomer"].data) ELSE f

\* AuthenticatedRoot without a token: the login page, which will lead back to page p.
Leave(p, c) ==
    /\ token' = NoSession
    /\ page' = "/login" /\ next' = IF p = "/login" THEN next ELSE p
    /\ cache' = c
    /\ form' = Nobody

\* What there is of other customers than c, and what is under way of earlier sessions.
LeftBehind(c) ==
    {what \in {"data", "request", "call"} :
        CASE what = "data"    -> \E q \in Queries : cache[q].data # NoSession /\ CustomerOf(cache[q].data) # c
          [] what = "request" -> \E q \in Queries : cache[q].request # NoSession
          [] what = "call"    -> saving # NoCall \/ leaving # NoCall}

\* A customer logs in with the pin of the wristband.
Login(c) ==
    /\ token = NoSession /\ Len(sessions) < MaxLogins
    /\ sessions' = Append(sessions, [customer |-> c, open |-> TRUE])
    /\ token' = Len(sessions')
    /\ found' = found \union LeftBehind(c)
    /\ Show(next, Fetched(cache, token'), Nobody, token')
    /\ UNCHANGED <<bank, next, saving, leaving>>

\* A link to another page.
Open(p) ==
    /\ token # NoSession /\ p # page
    /\ Show(p, Fetched(cache, token), Nobody, token)
    /\ UNCHANGED <<sessions, bank, token, next, saving, leaving, found>>

\* The tab comes back into focus, or online.
Focus ==
    /\ token # NoSession
    /\ Show(page, Fetched(cache, token), form, token)
    /\ UNCHANGED <<sessions, bank, token, next, saving, leaving, found>>

\* The tab is loaded again: only the token is kept.
Reload ==
    /\ LET c == [q \in Queries |-> NoEntry] IN
       cache' = IF token = NoSession THEN c ELSE Fetched(c, token)
    /\ form' = Nobody
    /\ saving' = NoCall /\ leaving' = NoCall
    /\ UNCHANGED <<sessions, bank, token, page, next, found>>

\* keepUnusedDataFor: nobody has used the entry for a minute.
Forget(q) ==
    /\ token = NoSession /\ cache[q] # NoEntry
    /\ cache' = [cache EXCEPT ![q] = NoEntry]
    /\ UNCHANGED <<sessions, bank, token, page, next, form, saving, leaving, found>>

-----------------------------------------------------------------------------
(* A query. *)

ServiceReads(q) ==
    /\ cache[q].request # NoSession /\ cache[q].answer = "none"
    /\ cache' = [cache EXCEPT ![q].answer = IF Accepts(cache[q].request) THEN "read" ELSE "refused"]
    /\ UNCHANGED <<sessions, bank, token, page, next, form, saving, leaving, found>>

\* The answer arrives, or the request or its answer is lost.
QueryAnswered(q, answer) ==
    /\ cache[q].request # NoSession /\ answer \in {cache[q].answer, "lost"} \ {"none"}
    /\ LET c == [cache EXCEPT ![q] = Answered(cache[q], answer)] IN
       IF LogsOut(answer) THEN Leave(page, c)
       ELSE Show(page, c, form, token) /\ UNCHANGED <<token, next>>
    /\ UNCHANGED <<sessions, bank, saving, leaving, found>>

-----------------------------------------------------------------------------
(* Saving the bank data. *)

\* The customer replaces what the form shows.
Fill ==
    /\ form # Nobody /\ saving = NoCall
    /\ form' = CustomerOf(token)
    /\ UNCHANGED <<sessions, bank, token, page, next, cache, saving, leaving, found>>

Submit ==
    /\ form # Nobody /\ saving = NoCall
    /\ saving' = [session |-> token, form |-> form, answer |-> "none"]
    /\ UNCHANGED <<sessions, bank, token, page, next, cache, form, leaving, found>>

SavedFor(s) == CustomerOf(s)

\* update_customer_info.
ServiceSaves ==
    /\ saving # NoCall /\ saving.answer = "none"
    /\ IF Accepts(saving.session)
       THEN /\ bank' = [bank EXCEPT ![SavedFor(saving.session)] = saving.form]
            /\ saving' = [saving EXCEPT !.answer = "saved"]
       ELSE /\ saving' = [saving EXCEPT !.answer = "refused"]
            /\ UNCHANGED bank
    /\ UNCHANGED <<sessions, token, page, next, cache, form, leaving, found>>

\* A success leads to the start page, wherever the tab is by then.
SaveAnswered(answer) ==
    /\ saving # NoCall /\ answer \in {saving.answer, "lost"} \ {"none"}
    /\ CASE answer = "saved" /\ token # NoSession ->
              Show("/", Fetched(cache, token), Nobody, token) /\ UNCHANGED <<token, next>>
         [] answer = "saved" /\ token = NoSession -> Leave("/", cache)
         [] LogsOut(answer) -> Leave(page, cache)
         [] OTHER -> UNCHANGED <<token, page, next, cache, form>>
    /\ saving' = NoCall
    /\ UNCHANGED <<sessions, bank, leaving, found>>

-----------------------------------------------------------------------------
(* Logging out. *)

LogoutAsked ==
    /\ token # NoSession /\ leaving = NoCall
    /\ leaving' = [session |-> token, form |-> Nobody, answer |-> "none"]
    /\ UNCHANGED <<sessions, bank, token, page, next, cache, form, saving, found>>

\* logout_customer.
ServiceLogsOut ==
    /\ leaving # NoCall /\ leaving.answer = "none"
    /\ sessions' = [sessions EXCEPT ![leaving.session].open = FALSE]
    /\ leaving' = [leaving EXCEPT !.answer = IF Accepts(leaving.session) THEN "done" ELSE "refused"]
    /\ UNCHANGED <<bank, token, page, next, cache, form, saving, found>>

\* Whatever came of it, the tab has no token any more. After a success the handler
\* opens the login page itself, before or after AuthenticatedRoot does.
LogoutAnswered(answer) ==
    /\ leaving # NoCall /\ answer \in {leaving.answer, "lost"} \ {"none"}
    /\ \E p \in {page} \union (IF answer = "done" THEN {"/"} ELSE {}) : Leave(p, cache)
    /\ leaving' = NoCall
    /\ UNCHANGED <<sessions, bank, saving, found>>

QueryStep(q) ==
    \/ Forget(q) \/ ServiceReads(q)
    \/ \E answer \in {"read", "refused", "lost"} : QueryAnswered(q, answer)

Next ==
    \/ \E c \in Customers : Login(c)
    \/ \E p \in Pages : Open(p)
    \/ Focus \/ Reload
    \/ \E q \in Queries : QueryStep(q)
    \/ Fill \/ Submit \/ ServiceSaves
    \/ \E answer \in {"saved", "refused", "lost"} : SaveAnswered(answer)
    \/ LogoutAsked \/ ServiceLogsOut
    \/ \E answer \in {"done", "refused", "lost"} : LogoutAnswered(answer)

Spec == Init /\ [][Next]_vars

-----------------------------------------------------------------------------
(* Properties. *)

\* Types, and: what the tab has and waits for is of sessions there have been.
TypeOK ==
    LET Known == {NoSession} \union 1..Len(sessions)
        Calls == [session : Known, form : Customers \union {Nobody},
                  answer : {"none", "saved", "done", "refused"}]
    IN  /\ sessions \in Seq([customer : Customers, open : BOOLEAN]) /\ Len(sessions) \in {0} \union Logins
        /\ bank \in [Customers -> Customers \union {Nobody}]
        /\ token \in Known
        /\ page \in Pages \union {"/login"} /\ next \in Pages
        /\ page = "/login" <=> token = NoSession
        /\ cache \in [Queries -> [data : Known, error : BOOLEAN, request : Known,
                                  answer : {"none", "read", "refused"}]]
        /\ form \in Customers \union {Nobody}
        /\ form # Nobody => page = "/payout-info"
        /\ saving \in Calls /\ leaving \in Calls
        /\ found \subseteq {"data", "request", "call"}

\* A tab that customers share keeps their payouts apart as long as each of them finds
\* the cache empty, which nothing in the portal sees to: then no page shows, no form
\* starts from and no payout goes to the data of another one, whatever calls are still
\* under way when the tab changes hands.
KeptApart ==
    found \subseteq {"call"} =>
        /\ \A c \in Customers : bank[c] \in {c, Nobody}
        /\ token # NoSession =>
              /\ form \in {CustomerOf(token), Nobody}
              /\ \A q \in Queries : cache[q].data # NoSession => CustomerOf(cache[q].data) = CustomerOf(token)

\* The data the last customer left behind is replaced: a page shows it only until the
\* request under way is answered. A request left behind keeps the page from making its
\* own, and its answer stays.
OthersDataIsReplaced ==
    "request" \notin found /\ token # NoSession =>
        \A q \in Queries :
            \/ cache[q].data = NoSession \/ CustomerOf(cache[q].data) = CustomerOf(token)
            \/ cache[q].request # NoSession \/ cache[q].error

\* A customer who has not logged out stays logged in, unless the tab changed hands
\* while something of the last customer was under way.
StaysLoggedIn ==
    [][token # NoSession /\ token' = NoSession =>
          leaving.session = token \/ ~Accepts(token) \/ {"request", "call"} \intersect found # {}]_vars
-----------------------------------------------------------------------------
(* What a customer takes for granted, and does not hold. *)

\* The payout of a customer goes to bank data of that customer. But the form starts
\* from the data that is cached, which may be the last customer's, and keeps it when
\* the customer's own arrives.
BankDataIsOwn == \A c \in Customers : bank[c] \in {c, Nobody}
=============================================================================
