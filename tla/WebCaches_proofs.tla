-------------------------- MODULE WebCaches_proofs ---------------------------
(***************************************************************************)
(* Proofs about what the web applications show from their caches: the      *)
(* customer portal (PortalSession), for any customers and any number of    *)
(* logins, and the pages of the administration site (WebViews), for users  *)
(* with any privileges.                                                    *)
(*                                                                         *)
(* The invariants also speak of what is under way. What keeps customers    *)
(* apart depends on the requests that will fill the cache and on the call  *)
(* that will change the bank data; so does what keeps a session from       *)
(* seeing the data of another, or ending by what another was refused. What *)
(* a page of the administration shows is owed to the queries that are yet  *)
(* to be read again.                                                       *)
(***************************************************************************)
EXTENDS PortalSession, WebViews, TLAPS

\* Sessions up to the n-th, and caches whose entries are of such.
Sessions == [customer : Customers, open : BOOLEAN]
Known(n) == {NoSession} \union 1..n
Caches(n) == [Queries -> [data : Known(n), error : BOOLEAN, request : Known(n),
                          answer : {"none", "read", "refused"}]]

\* A call is always of a session there has been.
CallsHaveSession ==
    /\ saving # NoCall => saving.session # NoSession
    /\ leaving # NoCall => leaving.session # NoSession

\* Cache c holds and waits for data of customer who only.
Own(c, who) ==
    \A q \in Queries : /\ c[q].data # NoSession => CustomerOf(c[q].data) = who
                       /\ c[q].request # NoSession => CustomerOf(c[q].request) = who

SavingIsOwn == saving # NoCall => saving.form \in {CustomerOf(saving.session), Nobody}

Apart ==
    found \subseteq {"call"} =>
        /\ \A c \in Customers : bank[c] \in {c, Nobody}
        /\ SavingIsOwn
        /\ token # NoSession => /\ form \in {CustomerOf(token), Nobody}
                                /\ Own(cache, CustomerOf(token))

TypeInv == TypeOK /\ CallsHaveSession

-----------------------------------------------------------------------------
(* The operators. *)

LEMMA FetchedTyped ==
    ASSUME NEW n \in Nat, NEW c \in Caches(n), NEW s \in Known(n)
    PROVE  Fetched(c, s) \in Caches(n)
BY DEF Fetched, Caches, Entry, Known

LEMMA AnsweredTyped ==
    ASSUME NEW n \in Nat, NEW c \in Caches(n), NEW q \in Queries, NEW answer
    PROVE  [c EXCEPT ![q] = Answered(c[q], answer)] \in Caches(n)
<1>1. Answered(c[q], answer) \in [data : Known(n), error : BOOLEAN, request : Known(n),
                                  answer : {"none", "read", "refused"}]
  BY DEF Answered, Caches, Entry, Known, NoSession
<1> QED
  BY <1>1 DEF Caches

LEMMA EmptyTyped == \A n \in Nat : [q \in Queries |-> NoEntry] \in Caches(n)
BY DEF Caches, NoEntry, Entry, Known, NoSession

\* A request is made for the customer who is logged in.
LEMMA FetchedOwn ==
    ASSUME NEW n \in Nat, NEW c \in Caches(n), NEW s, NEW who, Own(c, who),
           s = NoSession \/ CustomerOf(s) = who
    PROVE  Own(Fetched(c, s), who)
BY DEF Fetched, Caches, Own, Entry

LEMMA AnsweredOwn ==
    ASSUME NEW n \in Nat, NEW c \in Caches(n), NEW q \in Queries, NEW answer, NEW who, Own(c, who)
    PROVE  Own([c EXCEPT ![q] = Answered(c[q], answer)], who)
BY DEF Answered, Caches, Own, Entry

LEMMA EmptyOwn == \A who : Own([q \in Queries |-> NoEntry], who)
BY DEF Own, NoEntry, Entry

\* What page a tab shows, and what its form starts from.
LEMMA ShowTyped ==
    ASSUME NEW n \in Nat, NEW c \in Caches(n), NEW s \in Known(n),
           \A q \in Queries : c[q].data # NoSession => CustomerOf(c[q].data) \in Customers,
           NEW p \in Pages \union {"/login"}, NEW f \in Customers \union {Nobody},
           f # Nobody => p = "/payout-info", Show(p, c, f, s)
    PROVE  /\ page' \in Pages \union {"/login"}
           /\ page' = "/login" <=> p = "/login"
           /\ cache' \in Caches(n)
           /\ form' \in Customers \union {Nobody}
           /\ form' # Nobody => page' = "/payout-info"
<1>1. CASE p # "/payout-info"
  BY <1>1 DEF Show
<1>2. CASE p = "/payout-info" /\ Loaded(c) /\ Failed(c)
  BY <1>2, FetchedTyped DEF Show, Pages
<1>3. CASE p = "/payout-info" /\ ~(Loaded(c) /\ Failed(c))
  <2>1. Loaded(c) => CustomerOf(c["getCustomer"].data) \in Customers
    BY <1>3 DEF Loaded, Failed, Caches, Queries
  <2> QED
    BY <1>3, <2>1 DEF Show
<1> QED
  BY <1>1, <1>2, <1>3

LEMMA ShowOwn ==
    ASSUME NEW n \in Nat, NEW c \in Caches(n), NEW s, NEW who, NEW p, NEW f \in {who, Nobody},
           Own(c, who), s = NoSession \/ CustomerOf(s) = who, Show(p, c, f, s)
    PROVE  Own(cache', who) /\ form' \in {who, Nobody}
<1>1. CASE p # "/payout-info"
  BY <1>1 DEF Show
<1>2. CASE p = "/payout-info" /\ Loaded(c) /\ Failed(c)
  BY <1>2, FetchedOwn DEF Show
<1>3. CASE p = "/payout-info" /\ ~(Loaded(c) /\ Failed(c))
  <2>1. Loaded(c) => CustomerOf(c["getCustomer"].data) = who
    BY <1>3 DEF Loaded, Failed, Caches, Queries, Own
  <2> QED
    BY <1>3, <2>1 DEF Show
<1> QED
  BY <1>1, <1>2, <1>3

-----------------------------------------------------------------------------
(* The invariant of types. *)

\* The cache's part of it, in the words of the lemmas.
LEMMA TypeFacts ==
    TypeInv => /\ Len(sessions) \in Nat
               /\ cache \in Caches(Len(sessions))
               /\ token \in Known(Len(sessions))
               /\ \A k \in 1..Len(sessions) : sessions[k] \in Sessions
               /\ \A k \in 1..Len(sessions) : CustomerOf(k) \in Customers
               /\ page \in Pages \union {"/login"}
<1> SUFFICES ASSUME TypeInv
             PROVE  /\ Len(sessions) \in Nat
                    /\ cache \in Caches(Len(sessions))
                    /\ token \in Known(Len(sessions))
                    /\ \A k \in 1..Len(sessions) : sessions[k] \in Sessions
                    /\ \A k \in 1..Len(sessions) : CustomerOf(k) \in Customers
                    /\ page \in Pages \union {"/login"}
  OBVIOUS
<1>1. sessions \in Seq(Sessions) /\ page \in Pages \union {"/login"}
  BY DEF TypeInv, TypeOK, Sessions
<1>2. Len(sessions) \in Nat
  BY <1>1
<1>3. \A k \in 1..Len(sessions) : sessions[k] \in Sessions
  BY <1>1
<1>4. \A k \in 1..Len(sessions) : CustomerOf(k) \in Customers
  BY <1>3 DEF CustomerOf, Sessions
<1>5. token \in Known(Len(sessions))
  BY DEF TypeInv, TypeOK, Known
<1>6. cache \in Caches(Len(sessions))
  BY Zenon DEF TypeInv, TypeOK, Caches, Known
<1> QED
  BY <1>1, <1>2, <1>3, <1>4, <1>5, <1>6

LEMMA InitTypes == Init => TypeInv
<1> SUFFICES ASSUME Init PROVE TypeInv
  OBVIOUS
<1>1. sessions \in Seq(Sessions) /\ Len(sessions) = 0
  BY DEF Init, Sessions
<1>2. cache \in Caches(0)
  BY EmptyTyped DEF Init
<1> QED
  BY <1>1, <1>2 DEF Init, TypeInv, TypeOK, CallsHaveSession, Caches, Known, NoCall, NoSession, Pages, Sessions

\* A step that shows a page: what is left is the rest of the state.
LEMMA ShowStep ==
    ASSUME TypeInv, NEW c \in Caches(Len(sessions)), NEW p \in Pages \union {"/login"},
           NEW f \in Customers \union {Nobody}, f # Nobody => p = "/payout-info",
           p = "/login" <=> token = NoSession,
           Show(p, c, f, token), UNCHANGED <<sessions, token, next>>
    PROVE  /\ page' \in Pages \union {"/login"} /\ (page' = "/login" <=> token' = NoSession)
           /\ cache' \in Caches(Len(sessions'))
           /\ form' \in Customers \union {Nobody}
           /\ form' # Nobody => page' = "/payout-info"
<1>1. Len(sessions) \in Nat /\ token \in Known(Len(sessions))
  BY TypeFacts
<1>2. \A q \in Queries : c[q].data # NoSession => CustomerOf(c[q].data) \in Customers
  BY TypeFacts DEF Caches, Known
<1> QED
  BY <1>1, <1>2, ShowTyped

LEMMA LeaveStep ==
    ASSUME TypeInv, NEW c \in Caches(Len(sessions)), NEW p \in Pages \union {"/login"},
           Leave(p, c), UNCHANGED sessions
    PROVE  /\ token' = NoSession /\ page' = "/login" /\ next' \in Pages
           /\ cache' \in Caches(Len(sessions')) /\ form' = Nobody
BY DEF Leave, TypeInv, TypeOK

\* One step for each action.
LEMMA NextTypes == TypeInv /\ [Next]_vars => TypeInv'
<1> SUFFICES ASSUME TypeInv, [Next]_vars PROVE TypeInv'
  OBVIOUS
<1> USE SessionAssumption
<1> DEFINE n == Len(sessions)
<1>0. /\ n \in Nat /\ cache \in Caches(n) /\ token \in Known(n)
      /\ \A k \in 1..n : sessions[k] \in Sessions
      /\ \A k \in 1..n : CustomerOf(k) \in Customers
      /\ page \in Pages \union {"/login"}
  BY TypeFacts
<1>1. ASSUME NEW c \in Customers, Login(c) PROVE TypeInv'
  <2>1. [customer |-> c, open |-> TRUE] \in Sessions /\ sessions \in Seq(Sessions)
    BY DEF TypeInv, TypeOK, Sessions
  <2>2. /\ sessions' \in Seq(Sessions) /\ Len(sessions') = n + 1
        /\ token' = n + 1
    BY <1>1, <2>1 DEF Login
  <2>3. n + 1 \in Logins
    BY <1>0, <1>1 DEF Login, Logins
  <2>4. cache \in Caches(n + 1) /\ token' \in Known(n + 1)
    BY <1>0, <2>2 DEF Caches, Known
  <2>5. Fetched(cache, token') \in Caches(n + 1)
    BY <1>0, <2>4, FetchedTyped
  <2>6. \A q \in Queries : LET e == Fetched(cache, token')[q] IN
           e.data # NoSession => CustomerOf(e.data) \in Customers
    BY <1>0 DEF Fetched, Caches, Known, Entry
  <2>7. next \in Pages /\ next # "/login"
    BY DEF TypeInv, TypeOK, Pages
  <2>8. /\ page' \in Pages \union {"/login"} /\ page' # "/login"
        /\ cache' \in Caches(n + 1)
        /\ form' \in Customers \union {Nobody}
        /\ form' # Nobody => page' = "/payout-info"
    BY <1>0, <1>1, <2>4, <2>5, <2>6, <2>7, ShowTyped DEF Login
  <2>9. found' \subseteq {"data", "request", "call"}
    BY <1>1 DEF Login, LeftBehind, TypeInv, TypeOK
  <2> QED
    BY <1>0, <1>1, <2>2, <2>3, <2>4, <2>7, <2>8, <2>9
       DEF Login, TypeInv, TypeOK, CallsHaveSession, Known, Caches, Sessions, NoSession
<1>2. ASSUME NEW p \in Pages, Open(p) PROVE TypeInv'
  <2>1. Fetched(cache, token) \in Caches(n) /\ p # "/login" /\ token # NoSession
    BY <1>0, <1>2, FetchedTyped DEF Open, Pages
  <2>2. /\ page' \in Pages \union {"/login"} /\ (page' = "/login" <=> token' = NoSession)
        /\ cache' \in Caches(n) /\ form' \in Customers \union {Nobody}
        /\ form' # Nobody => page' = "/payout-info"
    BY <1>2, <2>1, ShowStep DEF Open
  <2> QED
    BY <1>2, <2>2 DEF Open, TypeInv, TypeOK, CallsHaveSession, Known, Caches, Sessions, NoSession
<1>3. ASSUME Focus PROVE TypeInv'
  <2>1. Fetched(cache, token) \in Caches(n) /\ token # NoSession
    BY <1>0, <1>3, FetchedTyped DEF Focus
  <2>2. /\ form \in Customers \union {Nobody} /\ (form # Nobody => page = "/payout-info")
        /\ (page = "/login" <=> token = NoSession)
    BY DEF TypeInv, TypeOK
  <2>3. /\ page' \in Pages \union {"/login"} /\ (page' = "/login" <=> token' = NoSession)
        /\ cache' \in Caches(n) /\ form' \in Customers \union {Nobody}
        /\ form' # Nobody => page' = "/payout-info"
    BY <1>0, <1>3, <2>1, <2>2, ShowStep DEF Focus
  <2> QED
    BY <1>3, <2>3 DEF Focus, TypeInv, TypeOK, CallsHaveSession, Known, Caches, Sessions, NoSession
<1>4. ASSUME Reload PROVE TypeInv'
  <2>1. cache' \in Caches(n)
    BY <1>0, <1>4, EmptyTyped, FetchedTyped DEF Reload
  <2> QED
    BY <1>4, <2>1 DEF Reload, NoCall, TypeInv, TypeOK, CallsHaveSession, Known, Caches, Sessions, NoSession
<1>5. ASSUME NEW q \in Queries, Forget(q) \/ ServiceReads(q) PROVE TypeInv'
  <2>1. NoEntry \in [data : Known(n), error : BOOLEAN, request : Known(n),
                     answer : {"none", "read", "refused"}]
    BY DEF NoEntry, Entry, Known, NoSession
  <2>2. cache' \in Caches(n)
    BY <1>0, <1>5, <2>1 DEF Forget, ServiceReads, Caches
  <2> QED
    BY <1>5, <2>2 DEF Forget, ServiceReads, TypeInv, TypeOK, CallsHaveSession, Known, Caches, Sessions, NoSession
<1>6. ASSUME NEW q \in Queries, NEW answer, QueryAnswered(q, answer) PROVE TypeInv'
  <2> DEFINE c == [cache EXCEPT ![q] = Answered(cache[q], answer)]
  <2>1. c \in Caches(n)
    BY <1>0, AnsweredTyped
  <2>2. /\ form \in Customers \union {Nobody} /\ (form # Nobody => page = "/payout-info")
        /\ (page = "/login" <=> token = NoSession)
    BY DEF TypeInv, TypeOK
  <2>3. CASE LogsOut(answer)
    <3>1. Leave(page, c) /\ UNCHANGED <<sessions, bank, saving, leaving, found>>
      BY <1>6, <2>3 DEF QueryAnswered
    <3>2. /\ token' = NoSession /\ page' = "/login" /\ next' \in Pages
          /\ cache' \in Caches(n) /\ form' = Nobody
      BY <1>0, <2>1, <3>1, LeaveStep
    <3> QED
      BY <3>1, <3>2 DEF TypeInv, TypeOK, CallsHaveSession, Known, Caches, Sessions, NoSession
  <2>4. CASE ~LogsOut(answer)
    <3>1. /\ Show(page, c, form, token)
          /\ UNCHANGED <<sessions, bank, saving, leaving, found, token, next>>
      BY <1>6, <2>4 DEF QueryAnswered
    <3>2. /\ page' \in Pages \union {"/login"} /\ (page' = "/login" <=> token' = NoSession)
          /\ cache' \in Caches(n) /\ form' \in Customers \union {Nobody}
          /\ form' # Nobody => page' = "/payout-info"
      BY <1>0, <2>1, <2>2, <3>1, ShowStep
    <3> QED
      BY <3>1, <3>2 DEF TypeInv, TypeOK, CallsHaveSession, Known, Caches, Sessions, NoSession
  <2> QED
    BY <2>3, <2>4
<1>7. ASSUME Fill \/ Submit PROVE TypeInv'
  <2>1. form # Nobody => token \in 1..n
    BY <1>0 DEF TypeInv, TypeOK, Known
  <2>2. form # Nobody => CustomerOf(token) \in Customers
    BY <1>0, <2>1
  <2>3. CASE Fill
    BY <2>2, <2>3 DEF Fill, NoCall, TypeInv, TypeOK, CallsHaveSession, Known, Caches, Sessions, NoSession
  <2>4. CASE Submit
    BY <2>1, <2>4 DEF Submit, NoCall, TypeInv, TypeOK, CallsHaveSession, Known, Caches, Sessions, NoSession
  <2> QED
    BY <1>7, <2>3, <2>4
<1>8. ASSUME ServiceSaves PROVE TypeInv'
  <2>1. saving.session \in 1..n
    BY <1>8 DEF ServiceSaves, TypeInv, TypeOK, CallsHaveSession, NoSession
  <2>2. bank' \in [Customers -> Customers \union {Nobody}]
    BY <1>0, <1>8, <2>1 DEF ServiceSaves, SavedFor, TypeInv, TypeOK
  <2> QED
    BY <1>8, <2>1, <2>2 DEF ServiceSaves, NoCall, TypeInv, TypeOK, CallsHaveSession, Known, Caches, Sessions, NoSession
<1>9. ASSUME NEW answer, SaveAnswered(answer) PROVE TypeInv'
  <2>1. Fetched(cache, token) \in Caches(n)
    BY <1>0, FetchedTyped
  <2>2. CASE answer = "saved" /\ token # NoSession
    <3>1. /\ Show("/", Fetched(cache, token), Nobody, token) /\ saving' = NoCall
          /\ UNCHANGED <<sessions, bank, leaving, found, token, next>>
      BY <1>9, <2>2 DEF SaveAnswered, LogsOut
    <3>2. /\ page' \in Pages \union {"/login"} /\ (page' = "/login" <=> token' = NoSession)
          /\ cache' \in Caches(n) /\ form' \in Customers \union {Nobody}
          /\ form' # Nobody => page' = "/payout-info"
      BY <1>0, <2>1, <2>2, <3>1, ShowStep DEF Pages
    <3> QED
      BY <3>1, <3>2 DEF NoCall, TypeInv, TypeOK, CallsHaveSession, Known, Caches, Sessions, NoSession
  <2>3. ASSUME NEW p \in {page, "/"}, Leave(p, cache), saving' = NoCall,
               UNCHANGED <<sessions, bank, leaving, found>>
        PROVE  TypeInv'
    <3>1. /\ token' = NoSession /\ page' = "/login" /\ next' \in Pages
          /\ cache' \in Caches(n) /\ form' = Nobody
      BY <1>0, <2>3, LeaveStep DEF Pages
    <3> QED
      BY <2>3, <3>1 DEF NoCall, TypeInv, TypeOK, CallsHaveSession, Known, Caches, Sessions, NoSession
  <2>4. CASE ~(answer = "saved") /\ ~LogsOut(answer)
    BY <1>9, <2>4 DEF SaveAnswered, NoCall, TypeInv, TypeOK, CallsHaveSession, Known, Caches, Sessions, NoSession
  <2> QED
    BY <1>9, <2>2, <2>3, <2>4 DEF SaveAnswered, LogsOut
<1>10. ASSUME LogoutAsked PROVE TypeInv'
  BY <1>0, <1>10 DEF LogoutAsked, NoCall, TypeInv, TypeOK, CallsHaveSession, Known, Caches, Sessions, NoSession
<1>11. ASSUME ServiceLogsOut PROVE TypeInv'
  <2>1. leaving.session \in 1..n
    BY <1>11 DEF ServiceLogsOut, TypeInv, TypeOK, CallsHaveSession, NoSession
  <2>2. sessions' \in Seq(Sessions) /\ Len(sessions') = n
    <3>1. [sessions[leaving.session] EXCEPT !.open = FALSE] \in Sessions
      BY <1>0, <2>1 DEF Sessions
    <3>2. sessions \in Seq(Sessions)
      BY DEF TypeInv, TypeOK, Sessions
    <3>3. sessions' = [sessions EXCEPT ![leaving.session] = [sessions[leaving.session] EXCEPT !.open = FALSE]]
      BY <1>11, <2>1, <3>2 DEF ServiceLogsOut
    <3> QED
      BY <2>1, <3>1, <3>2, <3>3
  <2> QED
    BY <1>11, <2>1, <2>2 DEF ServiceLogsOut, NoCall, TypeInv, TypeOK, CallsHaveSession, Known, Caches, Sessions, NoSession
<1>12. ASSUME NEW answer, LogoutAnswered(answer) PROVE TypeInv'
  <2>1. PICK p \in {page, "/"} : Leave(p, cache)
    BY <1>12 DEF LogoutAnswered
  <2>2. /\ token' = NoSession /\ page' = "/login" /\ next' \in Pages
        /\ cache' \in Caches(n) /\ form' = Nobody
    BY <1>0, <1>12, <2>1, LeaveStep DEF Pages, LogoutAnswered
  <2> QED
    BY <1>12, <2>2 DEF LogoutAnswered, NoCall, TypeInv, TypeOK, CallsHaveSession, Known, Caches, Sessions, NoSession
<1>13. ASSUME UNCHANGED vars PROVE TypeInv'
  BY <1>13 DEF vars, TypeInv, TypeOK, CallsHaveSession, Known, Caches, Sessions, NoSession
<1> QED
  BY <1>1, <1>2, <1>3, <1>4, <1>5, <1>6, <1>7, <1>8, <1>9, <1>10, <1>11, <1>12, <1>13
     DEF Next, QueryStep

-----------------------------------------------------------------------------
(* The invariant that keeps the customers apart. *)

LEMMA InitApart == Init => Apart
BY DEF Init, Apart, SavingIsOwn

\* Nobody forgets what a login found.
LEMMA FoundGrows == [Next]_vars => found \subseteq found'
BY DEF Next, QueryStep, Login, Open, Focus, Reload, Forget, ServiceReads, QueryAnswered, Fill, Submit,
       ServiceSaves, SaveAnswered, LogoutAsked, ServiceLogsOut, LogoutAnswered, vars

\* A page that is shown in the session under way, from a cache of its own customer's.
LEMMA ShowApart ==
    ASSUME TypeInv, NEW c \in Caches(Len(sessions)), NEW p, NEW f,
           token # NoSession => f \in {CustomerOf(token), Nobody} /\ Own(c, CustomerOf(token)),
           Show(p, c, f, token), UNCHANGED <<sessions, token>>
    PROVE  token' # NoSession => /\ form' \in {CustomerOf(token), Nobody}'
                                 /\ Own(cache, CustomerOf(token))'
<1>1. Len(sessions) \in Nat
  BY TypeFacts
<1>2. token # NoSession => Own(cache', CustomerOf(token)) /\ form' \in {CustomerOf(token), Nobody}
  BY <1>1, ShowOwn
<1> QED
  BY <1>2 DEF Own, CustomerOf

LEMMA NextApart == TypeInv /\ Apart /\ [Next]_vars => Apart'
<1> SUFFICES ASSUME TypeInv, Apart, [Next]_vars, found' \subseteq {"call"}
             PROVE  /\ \A c \in Customers : bank'[c] \in {c, Nobody}
                    /\ SavingIsOwn'
                    /\ token' # NoSession => /\ form' \in {CustomerOf(token), Nobody}'
                                             /\ Own(cache, CustomerOf(token))'
  BY DEF Apart
<1> DEFINE n == Len(sessions)
           Goal == /\ \A c \in Customers : bank'[c] \in {c, Nobody}
                   /\ SavingIsOwn'
                   /\ token' # NoSession => /\ form' \in {CustomerOf(token), Nobody}'
                                            /\ Own(cache, CustomerOf(token))'
<1>a. /\ n \in Nat /\ cache \in Caches(n)
      /\ \A k \in 1..n : CustomerOf(k) \in Customers
  BY TypeFacts
<1>b. /\ \A c \in Customers : bank[c] \in {c, Nobody}
      /\ SavingIsOwn
      /\ token # NoSession => form \in {CustomerOf(token), Nobody} /\ Own(cache, CustomerOf(token))
  BY FoundGrows DEF Apart
<1>c. bank \in [Customers -> Customers \union {Nobody}] /\ sessions \in Seq(Sessions)
  BY DEF TypeInv, TypeOK, Sessions
<1>1. ASSUME NEW c \in Customers, Login(c) PROVE Goal
  <2>1. [customer |-> c, open |-> TRUE] \in Sessions
    BY DEF Sessions
  <2>2. /\ sessions' = Append(sessions, [customer |-> c, open |-> TRUE])
        /\ token' = n + 1
    BY <1>1, <1>c, <2>1 DEF Login
  <2>3. CustomerOf(token)' = c /\ \A k \in 1..n : CustomerOf(k)' = CustomerOf(k)
    BY <1>c, <1>a, <2>1, <2>2 DEF CustomerOf
  <2>4. "data" \notin LeftBehind(c) /\ "request" \notin LeftBehind(c)
    BY <1>1 DEF Login
  <2>5. \A q \in Queries : /\ cache[q].request = NoSession
                           /\ cache[q].data # NoSession => CustomerOf(cache[q].data) = c
    BY <2>4 DEF LeftBehind
  <2> DEFINE F == Fetched(cache, token')
  <2>6. \A q \in Queries : F[q].data = cache[q].data /\ F[q].request = n + 1
    BY <1>a, <2>2, <2>5 DEF Fetched, Entry, Caches
  <2>7. Show(next, F, Nobody, token')
    BY <1>1 DEF Login
  <2>8. \A q \in Queries : cache'[q].data = cache[q].data /\ cache'[q].request = n + 1
    <3>1. cache' \in {F, Fetched(F, token')}
      BY <2>7 DEF Show
    <3>2. \A q \in Queries : Fetched(F, token')[q] = F[q]
      BY <1>a, <2>6 DEF Fetched, NoSession
    <3> QED
      BY <2>6, <3>1, <3>2
  <2>9. form' \in {c, Nobody}
    <3>1. Loaded(F) => F["getCustomer"].data # NoSession
      BY <1>a, <2>6 DEF Loaded, Queries, NoSession
    <3>2. F["getCustomer"].data # NoSession => CustomerOf(F["getCustomer"].data) = c
      BY <2>5, <2>6 DEF Queries
    <3> QED
      BY <2>7, <3>1, <3>2 DEF Show
  <2>10. Own(cache, CustomerOf(token))'
    <3>1. \A q \in Queries : cache[q].data \in Known(n)
      BY <1>a DEF Caches
    <3>2. \A q \in Queries : cache[q].data # NoSession => sessions'[cache[q].data].customer = c
      BY <2>3, <2>5, <3>1 DEF Known, CustomerOf
    <3> QED
      BY <2>2, <2>3, <2>8, <3>2 DEF Own, CustomerOf
  <2>11. SavingIsOwn'
    <3>1. saving # NoCall => saving.session \in 1..n
      BY DEF TypeInv, TypeOK, CallsHaveSession, NoSession
    <3> QED
      BY <1>1, <1>b, <2>3, <3>1 DEF SavingIsOwn, Login, NoCall, CustomerOf
  <2> QED
    BY <1>1, <1>b, <2>3, <2>9, <2>10, <2>11 DEF Login
<1>2. ASSUME NEW p \in Pages, Open(p) PROVE Goal
  <2>1. Fetched(cache, token) \in Caches(n) /\ Own(Fetched(cache, token), CustomerOf(token))
    BY <1>2, <1>a, <1>b, FetchedTyped, FetchedOwn, TypeFacts DEF Open
  <2>2. /\ Show(p, Fetched(cache, token), Nobody, token)
        /\ UNCHANGED <<sessions, token, bank, saving>>
    BY <1>2 DEF Open
  <2> QED
    BY <1>b, <2>1, <2>2, ShowApart DEF SavingIsOwn, CustomerOf, NoCall
<1>3. ASSUME Focus PROVE Goal
  <2>1. Fetched(cache, token) \in Caches(n) /\ Own(Fetched(cache, token), CustomerOf(token))
    BY <1>3, <1>a, <1>b, FetchedTyped, FetchedOwn, TypeFacts DEF Focus
  <2>2. /\ Show(page, Fetched(cache, token), form, token)
        /\ UNCHANGED <<sessions, token, bank, saving>>
    BY <1>3 DEF Focus
  <2> QED
    BY <1>b, <2>1, <2>2, ShowApart DEF SavingIsOwn, CustomerOf, NoCall
<1>4. ASSUME Reload PROVE Goal
  <2> DEFINE E == [q \in Queries |-> NoEntry]
  <2>1. token # NoSession => Own(cache', CustomerOf(token))
    BY <1>4, <1>a, EmptyTyped, EmptyOwn, FetchedOwn DEF Reload
  <2> QED
    BY <1>4, <1>b, <2>1 DEF Reload, SavingIsOwn, Own, CustomerOf
<1>5. ASSUME NEW q \in Queries, Forget(q) \/ ServiceReads(q) PROVE Goal
  <2>1. \A r \in Queries : /\ cache'[r].data \in {NoSession, cache[r].data}
                           /\ cache'[r].request \in {NoSession, cache[r].request}
    BY <1>5, <1>a DEF Forget, ServiceReads, NoEntry, Entry, Caches
  <2>2. UNCHANGED <<sessions, bank, token, form, saving>>
    BY <1>5 DEF Forget, ServiceReads
  <2> QED
    BY <1>b, <2>1, <2>2 DEF SavingIsOwn, Own, CustomerOf, NoCall
<1>6. ASSUME NEW q \in Queries, NEW answer, QueryAnswered(q, answer) PROVE Goal
  <2> DEFINE c == [cache EXCEPT ![q] = Answered(cache[q], answer)]
  <2>1. c \in Caches(n) /\ (token # NoSession => Own(c, CustomerOf(token)))
    BY <1>a, <1>b, AnsweredTyped, AnsweredOwn
  <2>2. UNCHANGED <<sessions, bank, saving>>
    BY <1>6 DEF QueryAnswered
  <2>3. CASE LogsOut(answer)
    BY <1>6, <1>b, <2>2, <2>3 DEF QueryAnswered, Leave, SavingIsOwn, CustomerOf, NoCall
  <2>4. CASE ~LogsOut(answer)
    <3>1. Show(page, c, form, token) /\ UNCHANGED token
      BY <1>6, <2>4 DEF QueryAnswered
    <3> QED
      BY <1>b, <2>1, <2>2, <3>1, ShowApart DEF SavingIsOwn, CustomerOf, NoCall
  <2> QED
    BY <2>3, <2>4
<1>7. ASSUME Fill \/ Submit PROVE Goal
  <2>1. form # Nobody => token # NoSession
    BY DEF TypeInv, TypeOK, Pages
  <2>2. CASE Fill
    BY <1>b, <2>2 DEF Fill, SavingIsOwn, Own, CustomerOf, NoCall
  <2>3. CASE Submit
    BY <1>b, <2>1, <2>3 DEF Submit, SavingIsOwn, Own, CustomerOf
  <2> QED
    BY <1>7, <2>2, <2>3
<1>8. ASSUME ServiceSaves PROVE Goal
  <2>1. \A c \in Customers : bank'[c] \in {c, Nobody}
    BY <1>8, <1>b, <1>c DEF ServiceSaves, SavedFor, SavingIsOwn
  <2>2. saving'.form = saving.form /\ saving'.session = saving.session /\ saving # NoCall
    BY <1>8 DEF ServiceSaves, TypeInv, TypeOK
  <2>3. UNCHANGED <<sessions, token, form, cache>>
    BY <1>8 DEF ServiceSaves
  <2> QED
    BY <1>b, <2>1, <2>2, <2>3 DEF SavingIsOwn, Own, CustomerOf
<1>9. ASSUME NEW answer, SaveAnswered(answer) PROVE Goal
  <2>1. saving' = NoCall /\ UNCHANGED <<sessions, bank>>
    BY <1>9 DEF SaveAnswered
  <2>2. CASE answer = "saved" /\ token # NoSession
    <3>1. Fetched(cache, token) \in Caches(n) /\ Own(Fetched(cache, token), CustomerOf(token))
      BY <2>2, <1>a, <1>b, FetchedTyped, FetchedOwn, TypeFacts
    <3>2. Show("/", Fetched(cache, token), Nobody, token) /\ UNCHANGED token
      BY <1>9, <2>2 DEF SaveAnswered, LogsOut
    <3> QED
      BY <1>b, <2>1, <3>1, <3>2, ShowApart DEF SavingIsOwn
  <2>3. CASE (answer = "saved" /\ token = NoSession) \/ LogsOut(answer)
    BY <1>9, <1>b, <2>1, <2>3 DEF SaveAnswered, LogsOut, Leave, SavingIsOwn
  <2>4. CASE ~(answer = "saved") /\ ~LogsOut(answer)
    BY <1>9, <1>b, <2>1, <2>4 DEF SaveAnswered, SavingIsOwn, Own, CustomerOf
  <2> QED
    BY <2>2, <2>3, <2>4
<1>10. ASSUME LogoutAsked PROVE Goal
  BY <1>10, <1>b DEF LogoutAsked, SavingIsOwn, Own, CustomerOf, NoCall
<1>11. ASSUME ServiceLogsOut PROVE Goal
  <2>1. leaving.session \in 1..n
    BY <1>11 DEF ServiceLogsOut, TypeInv, TypeOK, CallsHaveSession, NoSession
  <2>2. \A k \in 1..n : CustomerOf(k)' = CustomerOf(k)
    BY <1>11, <1>c, <2>1 DEF ServiceLogsOut, CustomerOf, Sessions
  <2>3. UNCHANGED <<bank, token, form, saving, cache>>
    BY <1>11 DEF ServiceLogsOut
  <2>4. /\ token # NoSession => token \in 1..n
        /\ saving # NoCall => saving.session \in 1..n
        /\ \A q \in Queries : /\ cache[q].data # NoSession => cache[q].data \in 1..n
                              /\ cache[q].request # NoSession => cache[q].request \in 1..n
    BY DEF TypeInv, TypeOK, CallsHaveSession, NoSession
  <2>5. SavingIsOwn'
    BY <1>b, <2>2, <2>3, <2>4 DEF SavingIsOwn, NoCall, CustomerOf
  <2>6. token # NoSession => Own(cache, CustomerOf(token))'
    BY <1>b, <2>2, <2>3, <2>4 DEF Own, CustomerOf
  <2>7. token # NoSession => form' \in {CustomerOf(token), Nobody}'
    BY <1>b, <2>2, <2>3, <2>4 DEF CustomerOf
  <2> QED
    BY <1>b, <2>3, <2>5, <2>6, <2>7
<1>12. ASSUME NEW answer, LogoutAnswered(answer) PROVE Goal
  BY <1>12, <1>b DEF LogoutAnswered, Leave, SavingIsOwn, CustomerOf, NoCall
<1>13. ASSUME UNCHANGED vars PROVE Goal
  BY <1>13, <1>b DEF vars, SavingIsOwn, Own, CustomerOf, NoCall
<1> QED
  BY <1>1, <1>2, <1>3, <1>4, <1>5, <1>6, <1>7, <1>8, <1>9, <1>10, <1>11, <1>12, <1>13
     DEF Next, QueryStep

-----------------------------------------------------------------------------

LEMMA Invariance == Spec => [](TypeInv /\ Apart)
<1>1. Init => TypeInv /\ Apart
  BY InitTypes, InitApart
<1>2. TypeInv /\ Apart /\ [Next]_vars => (TypeInv /\ Apart)'
  BY NextTypes, NextApart
<1> QED
  BY <1>1, <1>2, PTL DEF Spec

\* Whatever answers come in whatever order, the tab is at a page with a session if and
\* only if it has one, and waits for sessions there have been.
THEOREM TypeCorrect == Spec => []TypeOK
<1>1. TypeInv => TypeOK
  BY DEF TypeInv
<1> QED
  BY <1>1, Invariance, PTL

\* Customers who find the cache empty do not get to see, or to be paid out to, each
\* other's bank data, however many log in at the tab.
THEOREM CustomersKeptApart == Spec => []KeptApart
<1>1. Apart => KeptApart
  BY DEF Apart, KeptApart, Own
<1> QED
  BY <1>1, Invariance, PTL

-----------------------------------------------------------------------------
(* The invariant that keeps a session to itself: a request or a call of another *)
(* session was under way when it began, and a refusal is for good.              *)

\* Cache c waits for session s only, and what it holds of another customer is being
\* asked for again, or a failure is shown.
Waits(c, s) ==
    \A q \in Queries :
        /\ c[q].request \in {NoSession, s}
        /\ \/ c[q].data = NoSession \/ CustomerOf(c[q].data) = CustomerOf(s)
           \/ c[q].request # NoSession \/ c[q].error

RequestsAreOwn == "request" \notin found /\ token # NoSession => Waits(cache, token)

CallsAreOwn ==
    "call" \notin found /\ token # NoSession =>
        /\ saving # NoCall => saving.session = token
        /\ leaving # NoCall => leaving.session = token

RefusalsAreFinal ==
    /\ \A q \in Queries : cache[q].answer = "refused" =>
          cache[q].request # NoSession /\ ~Accepts(cache[q].request)
    /\ saving.answer = "refused" => saving.session # NoSession /\ ~Accepts(saving.session)

\* Fetching again for s makes a cache wait for s.
LEMMA FetchedWaits ==
    ASSUME NEW n \in Nat, NEW c \in Caches(n), NEW s, s # NoSession, Waits(c, s)
    PROVE  Waits(Fetched(c, s), s)
BY DEF Fetched, Caches, Waits, Entry

\* An answer is of the session that was waited for.
LEMMA AnsweredWaits ==
    ASSUME NEW n \in Nat, NEW c \in Caches(n), NEW q \in Queries, NEW answer, NEW s, Waits(c, s)
    PROVE  Waits([c EXCEPT ![q] = Answered(c[q], answer)], s)
<1> DEFINE e == Answered(c[q], answer)
<1>1. /\ e.request = NoSession
      /\ e.error \/ e.data = c[q].request
  BY DEF Answered, Entry
<1>2. c[q].request = NoSession \/ CustomerOf(c[q].request) = CustomerOf(s)
  BY DEF Waits
<1>3. \A r \in Queries : [c EXCEPT ![q] = e][r] = IF r = q THEN e ELSE c[r]
  BY DEF Caches
<1> DEFINE d == [c EXCEPT ![q] = e]
<1> HIDE DEF d, e
<1>4. \A r \in Queries : r # q => d[r] = c[r]
  BY <1>3 DEF d
<1>5. d[q] = e
  BY <1>3 DEF d
<1>6. \/ e.data = NoSession \/ CustomerOf(e.data) = CustomerOf(s) \/ e.error
  BY <1>1, <1>2
<1> SUFFICES Waits(d, s)
  BY DEF d, e
<1> QED
  BY <1>1, <1>4, <1>5, <1>6 DEF Waits

\* An empty cache waits for nobody.
LEMMA EmptyWaits == \A s : Waits([q \in Queries |-> NoEntry], s)
BY DEF Waits, NoEntry, Entry

\* A page that is shown fetches for its session, or not at all.
LEMMA ShowWaits ==
    ASSUME NEW n \in Nat, NEW c \in Caches(n), NEW s, s # NoSession, Waits(c, s),
           NEW p, NEW f, Show(p, c, f, s)
    PROVE  Waits(cache', s)
<1>1. cache' \in {c, Fetched(c, s)}
  BY DEF Show
<1> QED
  BY <1>1, FetchedWaits

\* Logging in and out are the steps that can leave a request behind.
LEMMA NextRequests == TypeInv /\ RequestsAreOwn /\ [Next]_vars => RequestsAreOwn'
<1> SUFFICES ASSUME TypeInv, RequestsAreOwn, [Next]_vars,
                    "request" \notin found', token' # NoSession
             PROVE  Waits(cache, token)'
  BY DEF RequestsAreOwn, Waits, CustomerOf
<1> DEFINE n == Len(sessions)
<1>a. /\ n \in Nat /\ cache \in Caches(n) /\ sessions \in Seq(Sessions)
      /\ token # NoSession => Waits(cache, token) /\ token \in 1..n
  BY FoundGrows, TypeFacts DEF RequestsAreOwn, TypeInv, TypeOK, Sessions, Known
<1>1. ASSUME NEW c \in Customers, Login(c) PROVE Waits(cache, token)'
  <2>1. "request" \notin LeftBehind(c) /\ token' = Len(sessions')
    BY <1>1 DEF Login
  <2>2. \A q \in Queries : cache[q].request = NoSession
    BY <2>1 DEF LeftBehind
  <2> DEFINE F == Fetched(cache, token')
  <2>3. \A q \in Queries : F[q].request = token'
    BY <2>2 DEF Fetched, Entry
  <2>4. cache' \in {F, Fetched(F, token')}
    BY <1>1 DEF Login, Show
  <2>5. \A q \in Queries : cache'[q].request = token'
    BY <2>3, <2>4 DEF Fetched, Entry
  <2> QED
    BY <2>5 DEF Waits
<1>2. ASSUME UNCHANGED <<sessions, token>>, Waits(cache', token)
      PROVE  Waits(cache, token)'
  BY <1>2 DEF Waits, CustomerOf
<1>3. ASSUME NEW p \in Pages, Open(p) PROVE Waits(cache, token)'
  BY <1>2, <1>3, <1>a, FetchedTyped, FetchedWaits, ShowWaits, TypeFacts DEF Open
<1>4. ASSUME Focus PROVE Waits(cache, token)'
  BY <1>2, <1>4, <1>a, FetchedTyped, FetchedWaits, ShowWaits, TypeFacts DEF Focus
<1>5. ASSUME Reload PROVE Waits(cache, token)'
  BY <1>2, <1>5, <1>a, EmptyTyped, EmptyWaits, FetchedWaits DEF Reload
<1>6. ASSUME NEW q \in Queries, NEW answer, QueryAnswered(q, answer)
      PROVE  Waits(cache, token)'
  <2> DEFINE c == [cache EXCEPT ![q] = Answered(cache[q], answer)]
  <2>1. /\ Show(page, c, form, token) /\ UNCHANGED <<sessions, token>>
    BY <1>6 DEF QueryAnswered, Leave
  <2>2. c \in Caches(n) /\ Waits(c, token)
    BY <1>a, <2>1, AnsweredTyped, AnsweredWaits
  <2> QED
    BY <1>2, <1>a, <2>1, <2>2, ShowWaits
<1>7. ASSUME NEW q \in Queries, ServiceReads(q) PROVE Waits(cache, token)'
  <2>1. \A r \in Queries : /\ cache'[r].data = cache[r].data /\ cache'[r].error = cache[r].error
                           /\ cache'[r].request = cache[r].request
    BY <1>7, <1>a DEF ServiceReads, Caches
  <2>2. UNCHANGED <<sessions, token>>
    BY <1>7 DEF ServiceReads
  <2> QED
    BY <1>2, <1>a, <2>1, <2>2 DEF Waits
<1>8. ASSUME NEW answer, SaveAnswered(answer) PROVE Waits(cache, token)'
  <2>1. UNCHANGED <<sessions, token>>
    BY <1>8 DEF SaveAnswered, Leave
  <2>2. CASE answer = "saved"
    <3>1. Show("/", Fetched(cache, token), Nobody, token)
      BY <1>8, <2>1, <2>2 DEF SaveAnswered, LogsOut
    <3> QED
      BY <1>2, <1>a, <2>1, <3>1, FetchedTyped, FetchedWaits, ShowWaits, TypeFacts
  <2>3. CASE answer # "saved"
    <3>1. UNCHANGED cache
      BY <1>8, <2>1, <2>3 DEF SaveAnswered, Leave
    <3> QED
      BY <1>2, <1>a, <2>1, <3>1
  <2> QED
    BY <2>2, <2>3
<1>9. ASSUME ServiceLogsOut PROVE Waits(cache, token)'
  <2>1. leaving.session \in 1..n
    BY <1>9 DEF ServiceLogsOut, TypeInv, TypeOK, CallsHaveSession, NoSession
  <2>2. \A k \in 1..n : CustomerOf(k)' = CustomerOf(k)
    BY <1>9, <1>a, <2>1 DEF ServiceLogsOut, CustomerOf, Sessions
  <2>3. UNCHANGED <<token, cache>> /\ \A q \in Queries : cache[q].data # NoSession => cache[q].data \in 1..n
    BY <1>9 DEF ServiceLogsOut, TypeInv, TypeOK, NoSession
  <2> QED
    BY <1>a, <2>2, <2>3 DEF Waits, CustomerOf
<1>10. ASSUME \/ Fill \/ Submit \/ ServiceSaves \/ LogoutAsked \/ UNCHANGED vars
       PROVE  Waits(cache, token)'
  <2>1. UNCHANGED <<sessions, token, cache>>
    BY <1>10 DEF Fill, Submit, ServiceSaves, LogoutAsked, vars
  <2> QED
    BY <1>2, <1>a, <2>1
<1>11. ~(\E q \in Queries : Forget(q)) /\ ~(\E answer : LogoutAnswered(answer))
  BY DEF Forget, LogoutAnswered, Leave
<1> QED
  BY <1>1, <1>3, <1>4, <1>5, <1>6, <1>7, <1>8, <1>9, <1>10, <1>11 DEF Next, QueryStep


\* So they are for the calls.
LEMMA NextCalls == TypeInv /\ CallsAreOwn /\ [Next]_vars => CallsAreOwn'
<1> SUFFICES ASSUME TypeInv, CallsAreOwn, [Next]_vars,
                    "call" \notin found', token' # NoSession
             PROVE  /\ saving' # NoCall => saving'.session = token'
                    /\ leaving' # NoCall => leaving'.session = token'
  BY DEF CallsAreOwn, NoCall
<1> DEFINE Goal == /\ saving' # NoCall => saving'.session = token'
                   /\ leaving' # NoCall => leaving'.session = token'
<1>a. token # NoSession => /\ saving # NoCall => saving.session = token
                           /\ leaving # NoCall => leaving.session = token
  BY FoundGrows DEF CallsAreOwn
<1>1. ASSUME NEW c \in Customers, Login(c) PROVE Goal
  <2>1. "call" \notin LeftBehind(c) /\ UNCHANGED <<saving, leaving>>
    BY <1>1 DEF Login
  <2>2. saving = NoCall /\ leaving = NoCall
    BY <2>1 DEF LeftBehind
  <2> QED
    BY <2>1, <2>2
<1>2. ASSUME \/ \E p \in Pages : Open(p)
             \/ Focus \/ Fill
             \/ \E q \in Queries : ServiceReads(q)
             \/ UNCHANGED vars
      PROVE  Goal
  <2>1. UNCHANGED <<token, saving, leaving>>
    BY <1>2 DEF Open, Focus, Fill, ServiceReads, vars
  <2> QED
    BY <1>a, <2>1
<1>3. ASSUME NEW q \in Queries, NEW answer, QueryAnswered(q, answer) PROVE Goal
  <2>1. UNCHANGED <<token, saving, leaving>>
    BY <1>3 DEF QueryAnswered, Leave
  <2> QED
    BY <1>a, <2>1
<1>4. ASSUME Reload PROVE Goal
  BY <1>4 DEF Reload
<1>5. ASSUME Submit PROVE Goal
  <2>1. saving'.session = token' /\ UNCHANGED <<token, leaving>>
    BY <1>5 DEF Submit
  <2> QED
    BY <1>a, <2>1
<1>6. ASSUME ServiceSaves PROVE Goal
  <2>1. saving # NoCall /\ saving'.session = saving.session /\ UNCHANGED <<token, leaving>>
    BY <1>6 DEF ServiceSaves, TypeInv, TypeOK
  <2> QED
    BY <1>a, <2>1
<1>7. ASSUME NEW answer, SaveAnswered(answer) PROVE Goal
  <2>1. saving' = NoCall /\ UNCHANGED <<token, leaving>>
    BY <1>7 DEF SaveAnswered, Leave
  <2> QED
    BY <1>a, <2>1
<1>8. ASSUME LogoutAsked PROVE Goal
  <2>1. leaving'.session = token' /\ UNCHANGED <<token, saving>>
    BY <1>8 DEF LogoutAsked
  <2> QED
    BY <1>a, <2>1
<1>9. ASSUME ServiceLogsOut PROVE Goal
  <2>1. leaving # NoCall /\ leaving'.session = leaving.session /\ UNCHANGED <<token, saving>>
    BY <1>9 DEF ServiceLogsOut, TypeInv, TypeOK
  <2> QED
    BY <1>a, <2>1
<1>10. ~(\E q \in Queries : Forget(q)) /\ ~(\E answer : LogoutAnswered(answer))
  BY DEF Forget, LogoutAnswered, Leave
<1> QED
  BY <1>1, <1>2, <1>3, <1>4, <1>5, <1>6, <1>7, <1>8, <1>9, <1>10 DEF Next, QueryStep

\* No session is opened again.
LEMMA SessionsStayClosed ==
    ASSUME TypeInv, [Next]_vars
    PROVE  \A k \in 1..Len(sessions) : ~Accepts(k) => ~Accepts(k)'
<1> DEFINE n == Len(sessions)
<1>a. n \in Nat /\ sessions \in Seq(Sessions)
  BY DEF TypeInv, TypeOK, Sessions
<1>1. ASSUME NEW c \in Customers, Login(c)
      PROVE  \A k \in 1..n : ~Accepts(k) => ~Accepts(k)'
  <2>1. [customer |-> c, open |-> TRUE] \in Sessions
    BY DEF Sessions
  <2>2. sessions' = Append(sessions, [customer |-> c, open |-> TRUE])
    BY <1>1 DEF Login
  <2>3. \A k \in 1..n : sessions'[k] = sessions[k]
    BY <1>a, <2>1, <2>2
  <2> QED
    BY <2>3 DEF Accepts
<1>2. ASSUME ServiceLogsOut
      PROVE  \A k \in 1..n : ~Accepts(k) => ~Accepts(k)'
  <2>1. \A k \in 1..n : sessions[k] \in Sessions
    BY <1>a
  <2>2. \A k \in 1..n : sessions'[k] = IF k = leaving.session
                                       THEN [sessions[k] EXCEPT !.open = FALSE] ELSE sessions[k]
    <3>1. leaving.session \in 1..n
      BY <1>2 DEF ServiceLogsOut, TypeInv, TypeOK, CallsHaveSession, NoSession
    <3>2. sessions' = [sessions EXCEPT ![leaving.session] = [sessions[leaving.session] EXCEPT !.open = FALSE]]
      BY <1>2, <1>a, <3>1 DEF ServiceLogsOut
    <3>3. DOMAIN sessions = 1..n
      BY <1>a
    <3> DEFINE e == [sessions[leaving.session] EXCEPT !.open = FALSE]
    <3>4. \A k \in 1..n : sessions'[k] = IF k = leaving.session THEN e ELSE sessions[k]
      <4> HIDE DEF e
      <4> SUFFICES sessions' = [sessions EXCEPT ![leaving.session] = e]
        BY <3>1, <3>3
      <4> QED
        BY <3>2 DEF e
    <3> QED
      BY <3>4
  <2>3. \A k \in 1..n : sessions'[k].open = IF k = leaving.session THEN FALSE ELSE sessions[k].open
    BY <2>1, <2>2 DEF Sessions
  <2> QED
    BY <2>3 DEF Accepts
<1>3. ASSUME UNCHANGED sessions
      PROVE  \A k \in 1..n : ~Accepts(k) => ~Accepts(k)'
  BY <1>3 DEF Accepts
<1>4. (\E c \in Customers : Login(c)) \/ ServiceLogsOut \/ UNCHANGED sessions
  BY DEF Next, QueryStep, Open, Focus, Reload, Forget, ServiceReads, QueryAnswered, Fill, Submit,
         ServiceSaves, SaveAnswered, LogoutAsked, LogoutAnswered, vars
<1> QED
  BY <1>1, <1>2, <1>3, <1>4

\* The service refuses sessions that are over only, and none of them begins again.
LEMMA NextRefusals == TypeInv /\ RefusalsAreFinal /\ [Next]_vars => RefusalsAreFinal'
<1> SUFFICES ASSUME TypeInv, RefusalsAreFinal, [Next]_vars PROVE RefusalsAreFinal'
  OBVIOUS
<1> DEFINE n == Len(sessions)
           Refused == {k \in 1..n : ~Accepts(k)}
<1>a. /\ n \in Nat /\ cache \in Caches(n)
      /\ \A q \in Queries : cache[q].answer = "refused" => cache[q].request \in Refused
      /\ saving.answer = "refused" => saving.session \in Refused
      /\ saving \in [session : Known(n), form : Customers \union {Nobody},
                     answer : {"none", "saved", "done", "refused"}]
  <2>1. n \in Nat /\ cache \in Caches(n)
    BY TypeFacts
  <2>2. saving \in [session : Known(n), form : Customers \union {Nobody},
                   answer : {"none", "saved", "done", "refused"}]
    BY DEF TypeInv, TypeOK, Known
  <2>3. \A q \in Queries : cache[q].answer = "refused" => cache[q].request \in Refused
    BY <2>1 DEF RefusalsAreFinal, Caches, Known
  <2>4. saving.answer = "refused" => saving.session \in Refused
    BY <2>2 DEF RefusalsAreFinal, Known
  <2> QED
    BY <2>1, <2>2, <2>3, <2>4
<1>b. \A k \in Refused : k # NoSession /\ ~Accepts(k)'
  BY SessionsStayClosed DEF NoSession
<1> HIDE DEF Refused
<1>1. SUFFICES /\ \A q \in Queries : cache'[q].answer = "refused" => cache'[q].request \in Refused
               /\ saving'.answer = "refused" => saving'.session \in Refused
  BY <1>b DEF RefusalsAreFinal, Accepts
<1>2. \A q \in Queries : cache'[q].answer = "refused" => cache'[q].request \in Refused
  <2> DEFINE Clean(c) == \A q \in Queries : c[q].answer = "refused" => c[q].request \in Refused
  <2>1. \A c, s : Clean(c) => Clean(Fetched(c, s))
    BY DEF Fetched, Entry
  <2>2. \A q \in Queries : \A answer : Clean([cache EXCEPT ![q] = Answered(cache[q], answer)])
    BY <1>a DEF Answered, Entry, Caches
  <2>3. Clean([q \in Queries |-> NoEntry])
    BY DEF NoEntry, Entry
  <2>4. Clean(cache)
    BY <1>a
  <2>5. ASSUME NEW c, Clean(c), NEW p, NEW f, NEW s, Show(p, c, f, s) PROVE Clean(cache')
    <3>1. cache' \in {c, Fetched(c, s)}
      BY <2>5 DEF Show
    <3> HIDE DEF Clean
    <3> QED
      BY <2>1, <2>5, <3>1
  <2>6. ASSUME NEW q \in Queries, Forget(q) PROVE Clean(cache')
    BY <1>a, <2>6 DEF Forget, NoEntry, Entry, Caches
  <2>7. ASSUME NEW q \in Queries, ServiceReads(q) PROVE Clean(cache')
    <3>1. /\ cache'[q].answer = "refused" => ~Accepts(cache[q].request)
          /\ cache'[q].request = cache[q].request /\ cache[q].request # NoSession
          /\ \A r \in Queries \ {q} : cache'[r] = cache[r]
      BY <1>a, <2>7 DEF ServiceReads, Caches
    <3>2. cache[q].request \in 1..n
      BY <1>a, <3>1 DEF Caches, Known
    <3> QED
      BY <2>4, <3>1, <3>2 DEF Refused
  <2> HIDE DEF Clean
  <2>8. ASSUME NEW c \in Customers, Login(c) PROVE Clean(cache')
    BY <2>1, <2>4, <2>5, <2>8 DEF Login
  <2>9. ASSUME NEW p \in Pages, Open(p) PROVE Clean(cache')
    BY <2>1, <2>4, <2>5, <2>9 DEF Open
  <2>10. ASSUME Focus PROVE Clean(cache')
    BY <2>1, <2>4, <2>5, <2>10 DEF Focus
  <2>11. ASSUME Reload PROVE Clean(cache')
    BY <2>1, <2>3, <2>11 DEF Reload
  <2>12. ASSUME NEW q \in Queries, NEW answer, QueryAnswered(q, answer) PROVE Clean(cache')
    <3> DEFINE c == [cache EXCEPT ![q] = Answered(cache[q], answer)]
    <3>1. Show(page, c, form, token) \/ cache' = c
      BY <2>12 DEF QueryAnswered, Leave
    <3>2. Clean(c)
      BY <2>2
    <3> HIDE DEF c
    <3> QED
      BY <2>5, <3>1, <3>2
  <2>13. ASSUME NEW answer, SaveAnswered(answer) PROVE Clean(cache')
    <3>1. Show("/", Fetched(cache, token), Nobody, token) \/ UNCHANGED cache
      BY <2>13 DEF SaveAnswered, Leave
    <3> QED
      BY <2>1, <2>4, <2>5, <3>1
  <2>14. ASSUME \/ Fill \/ Submit \/ ServiceSaves \/ LogoutAsked \/ ServiceLogsOut
                \/ \E answer : LogoutAnswered(answer)
                \/ UNCHANGED vars
         PROVE  Clean(cache')
    <3>1. UNCHANGED cache
      BY <2>14 DEF Fill, Submit, ServiceSaves, LogoutAsked, ServiceLogsOut, LogoutAnswered, Leave, vars
    <3> QED
      BY <2>4, <3>1
  <2>15. Clean(cache')
    BY <2>6, <2>7, <2>8, <2>9, <2>10, <2>11, <2>12, <2>13, <2>14 DEF Next, QueryStep
  <2> QED
    BY <2>15 DEF Clean
<1>3. saving'.answer = "refused" => saving'.session \in Refused
  <2>1. CASE ServiceSaves
    <3>1. /\ saving'.session = saving.session /\ saving # NoCall
          /\ saving'.answer = "refused" => ~Accepts(saving.session)
      BY <1>a, <2>1 DEF ServiceSaves
    <3>2. saving.session \in 1..n
      BY <3>1 DEF TypeInv, TypeOK, CallsHaveSession, NoSession
    <3> QED
      BY <3>1, <3>2 DEF Refused
  <2>2. CASE ~ServiceSaves
    <3>1. CASE Reload \/ Submit \/ \E answer : SaveAnswered(answer)
      BY <3>1 DEF Reload, Submit, SaveAnswered, NoCall
    <3>2. CASE ~(Reload \/ Submit \/ \E answer : SaveAnswered(answer))
      <4>1. UNCHANGED saving
        BY <2>2, <3>2 DEF Next, QueryStep, Login, Open, Focus, Forget, ServiceReads, QueryAnswered,
                          Fill, LogoutAsked, ServiceLogsOut, LogoutAnswered, vars
      <4> QED
        BY <1>a, <4>1
    <3> QED
      BY <3>1, <3>2
  <2> QED
    BY <2>1, <2>2
<1> QED
  BY <1>2, <1>3

\* All of it together.
LEMMA SessionInvariance == Spec => [](TypeInv /\ RequestsAreOwn /\ CallsAreOwn /\ RefusalsAreFinal)
<1>1. Init => RequestsAreOwn /\ CallsAreOwn /\ RefusalsAreFinal
  BY DEF Init, RequestsAreOwn, CallsAreOwn, RefusalsAreFinal, NoCall, NoEntry, Entry
<1> QED
  BY <1>1, InitTypes, NextTypes, NextRequests, NextCalls, NextRefusals, PTL DEF Spec

\* The data the last customer left in the cache is on a page until the request that is
\* under way is answered, and no longer.
THEOREM DataIsReplaced == Spec => []OthersDataIsReplaced
<1>1. RequestsAreOwn => OthersDataIsReplaced
  BY DEF RequestsAreOwn, Waits, OthersDataIsReplaced
<1> QED
  BY <1>1, SessionInvariance, PTL

\* A step that ends a session was asked for in it, or the service had ended it before.
LEMMA LeavingIsOwn ==
    ASSUME TypeInv, RequestsAreOwn, CallsAreOwn, RefusalsAreFinal, [Next]_vars,
           token # NoSession, token' = NoSession, {"request", "call"} \intersect found = {}
    PROVE  leaving.session = token \/ ~Accepts(token)
<1>a. /\ Waits(cache, token)
      /\ saving # NoCall => saving.session = token
      /\ leaving # NoCall => leaving.session = token
  BY DEF RequestsAreOwn, CallsAreOwn
<1>1. ASSUME NEW q \in Queries, NEW answer, QueryAnswered(q, answer) PROVE ~Accepts(token)
  <2>1. LogsOut(answer)
    BY <1>1 DEF QueryAnswered
  <2>2. cache[q].answer = "refused"
    BY <1>1, <2>1 DEF QueryAnswered, LogsOut
  <2> QED
    BY <1>a, <2>2 DEF Waits, RefusalsAreFinal
<1>2. ASSUME NEW answer, SaveAnswered(answer) PROVE ~Accepts(token)
  <2>1. LogsOut(answer)
    BY <1>2 DEF SaveAnswered
  <2>2. saving # NoCall /\ saving.answer = "refused"
    BY <1>2, <2>1 DEF SaveAnswered, LogsOut
  <2> QED
    BY <1>a, <2>2 DEF RefusalsAreFinal
<1>3. ASSUME NEW answer, LogoutAnswered(answer) PROVE leaving.session = token
  BY <1>3, <1>a DEF LogoutAnswered
<1>4. ASSUME NEW c \in Customers PROVE ~Login(c)
  BY DEF Login
<1>5. ASSUME UNCHANGED token PROVE FALSE
  BY <1>5
<1> QED
  BY <1>1, <1>2, <1>3, <1>4, <1>5
     DEF Next, QueryStep, Open, Focus, Reload, Forget, ServiceReads, Fill, Submit, ServiceSaves,
         LogoutAsked, ServiceLogsOut, vars

\* Only the customer's own logout, or a session that the service has ended, logs a
\* customer out, unless something of the last customer was still under way.
THEOREM SessionsLast == Spec => StaysLoggedIn
<1>1. TypeInv /\ RequestsAreOwn /\ CallsAreOwn /\ RefusalsAreFinal /\ [Next]_vars =>
        [token # NoSession /\ token' = NoSession =>
           leaving.session = token \/ ~Accepts(token) \/ {"request", "call"} \intersect found # {}]_vars
  BY LeavingIsOwn
<1> QED
  BY <1>1, SessionInvariance, PTL DEF Spec, StaysLoggedIn

-----------------------------------------------------------------------------
(* The pages of the administration site.                                       *)

\* What the two caches hold.
Entries == [shown: Shown, fetch: Fetches, failed: BOOLEAN]
ViewCaches == [Watched -> Entries]

\* The visit is one of a page there is.
LEMMA VisitFacts ==
    ASSUME visit \in Visits
    PROVE  /\ visit.part \in DOMAIN router
           /\ visit.page \in DOMAIN router[visit.part].pages
           /\ visit.also \in {"nothing"} \union Page.shows
<1>1. PICK part \in DOMAIN router :
          visit \in UNION {LET p == router[part].pages[name]
                           IN  [part: {part}, page: {name}, powers: Powers,
                                forbids: {{}} \union {{k} : k \in Kinds(p)},
                                also: {"nothing"} \union p.shows]
                           : name \in DOMAIN router[part].pages}
  BY DEF Visits
<1>2. PICK name \in DOMAIN router[part].pages :
          visit \in [part: {part}, page: {name}, powers: Powers,
                     forbids: {{}} \union {{k} : k \in Kinds(router[part].pages[name])},
                     also: {"nothing"} \union router[part].pages[name].shows]
  BY <1>1
<1>3. visit.part = part /\ visit.page = name
      /\ visit.also \in {"nothing"} \union router[part].pages[name].shows
  BY <1>2
<1> QED
  BY <1>3 DEF Page

\* The types, and that a call is one of the offers of the page.
ViewTypes ==
    /\ visit \in Visits
    /\ caches \in ViewCaches
    /\ delayed \subseteq Watched
    /\ call = [op |-> call.op, stage |-> call.stage, row |-> call.row]
    /\ call.op \in DOMAIN Page.offers \union {"nothing"}
    /\ call.stage \in {"none", "asked", "applied", "refused", "broken"}
    /\ call.stage # "none" => call.op \in DOMAIN Page.offers
    /\ call.stage = "applied" => call.op \in DOMAIN service
    /\ told \in {"nothing", "success", "failure"}

\* The queries that nothing reads again, and those that what was called concerns.
Left == {q \in Watched : <<visit.page, q>> \in Forgotten}
Concerned == {q \in Watched : call.stage = "applied" /\ Concerns(call.op, QueryOp(q))}

\* An entry is stale only if its query is among those that are to be read again, or if
\* its last reading failed.
Sound(e, owed) ==
    /\ e.fetch = "stale" => owed
    /\ e.shown = "stale" /\ e.fetch = "idle" => owed \/ e.failed

ViewInv ==
    open => \A q \in Watched : Sound(caches[q], q \in delayed \union Concerned \union Left)

\* Asking for some queries leaves what they show, and the others.
LEMMA AskedFacts ==
    ASSUME NEW c \in ViewCaches, NEW queries
    PROVE  /\ Asked(c, queries) \in ViewCaches
           /\ \A q \in Watched : q \notin queries => Asked(c, queries)[q] = c[q]
           /\ \A q \in Watched : q \in queries =>
                 /\ Asked(c, queries)[q].fetch = "asked"
                 /\ Asked(c, queries)[q].shown = c[q].shown
                 /\ Asked(c, queries)[q].failed = c[q].failed
<1>1. ASSUME NEW q \in Watched
      PROVE  /\ [c[q] EXCEPT !.fetch = "asked"] \in Entries
             /\ [c[q] EXCEPT !.fetch = "asked"].fetch = "asked"
             /\ [c[q] EXCEPT !.fetch = "asked"].shown = c[q].shown
             /\ [c[q] EXCEPT !.fetch = "asked"].failed = c[q].failed
  <2>1. c[q] \in Entries
    BY DEF ViewCaches
  <2> QED
    BY <2>1 DEF Entries, Fetches
<1>2. DOMAIN c = Watched /\ \A q \in Watched : c[q] \in Entries
  BY DEF ViewCaches
<1>3. Asked(c, queries) =
         [q \in Watched |-> IF q \in queries THEN [c[q] EXCEPT !.fetch = "asked"] ELSE c[q]]
  BY <1>2 DEF Asked
<1> QED
  BY <1>1, <1>2, <1>3 DEF ViewCaches

\* RTK Query reads again what is to be read, at once or later.
LEMMA RtkReadsFacts ==
    ASSUME NEW c \in ViewCaches, NEW pending \in SUBSET Watched, NEW calling, NEW rest,
           RtkReads(c, pending, calling)
    PROVE  /\ caches' \in ViewCaches
           /\ delayed' \subseteq Watched
           /\ (\A q \in Watched : Sound(c[q], q \in pending \union rest))
              => \A q \in Watched : Sound(caches'[q], q \in delayed' \union rest)
<1>1. \/ caches' = c /\ delayed' = pending
      \/ caches' = Asked(c, pending) /\ delayed' = {}
  BY DEF RtkReads
<1>2. CASE caches' = c /\ delayed' = pending
  BY <1>2
<1>3. CASE caches' = Asked(c, pending) /\ delayed' = {}
  BY <1>3, AskedFacts DEF Sound
<1> QED
  BY <1>1, <1>2, <1>3

\* A page is opened with nothing read and nothing called.
LEMMA ViewStarts == ViewInit => ViewTypes /\ ViewInv
<1> SUFFICES ASSUME ViewInit PROVE ViewTypes /\ ViewInv
  OBVIOUS
<1>1. visit \in Visits
  BY DEF ViewInit
<1>2. /\ caches = [q \in Watched |-> [shown |-> "nothing", fetch |-> "asked", failed |-> FALSE]]
      /\ delayed = {} /\ call = NothingCalled /\ told = "nothing"
  BY DEF ViewInit
<1>3. caches \in ViewCaches
  BY <1>2 DEF ViewCaches, Entries, Shown, Fetches
<1>4. \A q \in Watched : caches[q].fetch = "asked"
  BY <1>2
<1> QED
  BY <1>1, <1>2, <1>3, <1>4 DEF ViewTypes, ViewInv, NothingCalled, Sound

\* The page stays the same.
LEMMA VisitStays == [ViewNext]_viewVars => UNCHANGED visit
BY DEF ViewNext, viewVars, ServiceShows, Arrive, Refocus, Press, ServiceDoes, Answer, OthersChange

\* So does what depends on it.
LEMMA ViewPageStays ==
    ASSUME UNCHANGED visit
    PROVE  UNCHANGED <<Page, Watched, Left>>
BY DEF Page, Watched, Left

\* A call makes stale what it concerns; its answer has that read again; a reading either
\* brings what is current or fails.
LEMMA ViewKeeps == ViewTypes /\ ViewInv /\ [ViewNext]_viewVars => (ViewTypes /\ ViewInv)'
<1> SUFFICES ASSUME ViewTypes, ViewInv, [ViewNext]_viewVars PROVE ViewTypes' /\ ViewInv'
  OBVIOUS
<1>0. UNCHANGED <<visit, Page, Watched, Left>> /\ ViewCaches' = ViewCaches
  BY VisitStays, ViewPageStays DEF ViewCaches
<1>s. ASSUME caches' \in ViewCaches, delayed' \subseteq Watched, UNCHANGED <<call, told>>
      PROVE  ViewTypes' /\ Concerned' = Concerned
  BY <1>0, <1>s DEF ViewTypes, Concerned
<1>1. ASSUME NEW q \in Watched, ServiceShows(q) PROVE ViewTypes' /\ ViewInv'
  <2>1. PICK verdict : caches' = [caches EXCEPT ![q].fetch = IF verdict = "applied" THEN "current" ELSE "refused"]
    BY <1>1 DEF ServiceShows
  <2> DEFINE x == IF verdict = "applied" THEN "current" ELSE "refused"
  <2>2. /\ caches' \in ViewCaches /\ caches'[q].fetch = x
        /\ \A r \in Watched : r # q => caches'[r] = caches[r]
    BY <2>1 DEF ViewTypes, ViewCaches, Entries, Fetches
  <2>3. UNCHANGED <<call, told, delayed, open>>
    BY <1>1 DEF ServiceShows
  <2> QED
    BY <1>0, <1>s, <2>2, <2>3 DEF ViewInv, Sound, ViewTypes
<1>2. ASSUME NEW q \in Watched, NEW lost \in BOOLEAN, Arrive(q, lost) PROVE ViewTypes' /\ ViewInv'
  <2> DEFINE ok == ~lost /\ caches[q].fetch # "refused"
             shown == IF ok THEN caches[q].fetch ELSE IF IsCollection(q) THEN "empty" ELSE caches[q].shown
             e == [shown |-> shown, fetch |-> "idle", failed |-> ~ok]
             c == [caches EXCEPT ![q] = e]
  <2>1. caches[q] \in Entries /\ caches[q].fetch \notin {"idle", "asked"} /\ open
    BY <1>2 DEF Arrive, ViewTypes, ViewCaches
  <2>2. e \in Entries /\ e.fetch = "idle" /\ (e.shown = "stale" => caches[q].fetch = "stale" \/ e.failed)
    BY <2>1 DEF Entries, Shown, Fetches
  <2> HIDE DEF e
  <2>3. c \in ViewCaches /\ c[q] = e /\ \A r \in Watched : r # q => c[r] = caches[r]
    BY <2>2 DEF ViewTypes, ViewCaches
  <2>4. RtkReads(c, delayed, RtkCalling) /\ UNCHANGED <<call, told>>
    BY <1>2 DEF Arrive, e
  <2> HIDE DEF c
  <2>5. \A r \in Watched : Sound(c[r], r \in delayed \union (Concerned \union Left))
    BY <2>1, <2>2, <2>3 DEF ViewInv, Sound
  <2>6. delayed \in SUBSET Watched
    BY DEF ViewTypes
  <2>7. /\ caches' \in ViewCaches /\ delayed' \subseteq Watched
        /\ \A r \in Watched : Sound(caches'[r], r \in delayed' \union (Concerned \union Left))
    BY <2>3, <2>4, <2>5, <2>6, RtkReadsFacts
  <2> QED
    BY <1>0, <1>s, <2>4, <2>7 DEF ViewInv
<1>3. CASE Refocus
  <2> DEFINE idle == {q \in Watched : caches[q].fetch = "idle"}
  <2>1. caches' = Asked(caches, idle) /\ UNCHANGED <<call, told, delayed, open>> /\ caches \in ViewCaches
    BY <1>3 DEF Refocus, ViewTypes
  <2>2. caches' \in ViewCaches /\ \A q \in Watched : caches'[q] = caches[q] \/ caches'[q].fetch = "asked"
    BY <2>1, AskedFacts
  <2> HIDE DEF idle
  <2> QED
    BY <1>0, <1>s, <2>1, <2>2 DEF ViewInv, Sound, ViewTypes
<1>4. ASSUME NEW o \in DOMAIN Page.offers, Press(o) PROVE ViewTypes' /\ ViewInv'
  <2>1. /\ call = NothingCalled /\ call' = [op |-> o, stage |-> "asked", row |-> seen] /\ told' = "nothing"
        /\ UNCHANGED <<caches, delayed, open>>
    BY <1>4 DEF Press
  <2>2. ViewTypes' /\ Concerned' = {} /\ Concerned = {}
    BY <1>0, <2>1 DEF ViewTypes, Concerned, NothingCalled
  <2> QED
    BY <1>0, <2>1, <2>2 DEF ViewInv
<1>5. CASE ServiceDoes
  <2> DEFINE Aged(x) == IF x = "current" THEN "stale" ELSE x
             Older(e) == [e EXCEPT !.shown = Aged(@), !.fetch = Aged(@)]
  <2>0. PICK verdict \in Verdicts(call.op, row, visit.powers, visit.forbids) :
           /\ call' = [call EXCEPT !.stage = verdict]
           /\ caches' = [q \in Watched |-> IF verdict = "applied" /\ Concerns(call.op, QueryOp(q))
                                          THEN Older(caches[q]) ELSE caches[q]]
    BY <1>5 DEF ServiceDoes
  <2> DEFINE serves == verdict = "applied"
  <2>1. /\ call.stage = "asked" /\ call' = [call EXCEPT !.stage = verdict]
        /\ UNCHANGED <<delayed, told, open>>
        /\ caches' = [q \in Watched |-> IF serves /\ Concerns(call.op, QueryOp(q))
                                       THEN Older(caches[q]) ELSE caches[q]]
    BY <1>5, <2>0 DEF ServiceDoes
  <2>2. ASSUME NEW e \in Entries PROVE Older(e) \in Entries
    BY <2>2 DEF Entries, Shown, Fetches
  <2>3. verdict \in {"applied", "refused", "broken"} /\ (serves => call.op \in DOMAIN service)
    BY <2>0 DEF Verdicts, Allows
  <2> HIDE DEF serves, Older
  <2>4. caches' \in ViewCaches
    BY <2>1, <2>2 DEF ViewTypes, ViewCaches
  <2>5. /\ call'.op = call.op /\ call'.row = call.row
        /\ call'.stage = verdict
        /\ call' = [op |-> call'.op, stage |-> call'.stage, row |-> call'.row]
    BY <2>1 DEF ViewTypes
  <2>s. call'.stage = "applied" <=> serves
    BY <2>5 DEF serves
  <2>6. ViewTypes'
    BY <1>0, <2>1, <2>3, <2>4, <2>5, <2>s DEF ViewTypes
  <2>7. Concerned = {} /\ Concerned' = {q \in Watched : serves /\ Concerns(call.op, QueryOp(q))}
    BY <1>0, <2>1, <2>s DEF Concerned
  <2>8. \A q \in Watched : q \in Concerned' \/ caches'[q] = caches[q]
    BY <2>1, <2>7
  <2> QED
    BY <1>0, <2>1, <2>6, <2>7, <2>8 DEF ViewInv, Sound
<1>6. ASSUME NEW lost \in BOOLEAN, Answer(lost) PROVE ViewTypes' /\ ViewInv'
  <2> DEFINE o == call.op
             offer == Page.offers[o]
             ok == call.stage = "applied" /\ ~lost
             on == GoesOn(o, ok)
             again == {q \in Watched : on /\ \E name \in offer.after : ReadAgain(name, q)}
             joined == {q \in again : caches[q].shown = "nothing" /\ caches[q].fetch # "idle"}
             Sure(q) == ~lost /\ q \notin joined
             Pardoned(x) == IF x = "stale" THEN "old" ELSE x
             Pardon(e) == [e EXCEPT !.shown = Pardoned(@), !.fetch = Pardoned(@)]
             kept == [q \in Watched |-> IF Sure(q) THEN caches[q] ELSE Pardon(caches[q])]
             invalid == {q \in Watched : offer.via = "rtk" /\ Invalidates(o, q)}
  <2>1. /\ RtkReads(Asked(kept, again \ joined), delayed \union invalid, FALSE)
        /\ call' = NothingCalled /\ told' \in Told(o, ok, lost) /\ open /\ open' = ~(offer.leaves /\ on)
        /\ call.stage # "none"
    BY <1>6 DEF Answer
  <2>2. ASSUME NEW e \in Entries
        PROVE  Pardon(e) \in Entries /\ Pardon(e).shown # "stale" /\ Pardon(e).fetch # "stale"
    BY <2>2 DEF Entries, Shown, Fetches
  <2>3. told' \in {"nothing", "success", "failure"}
    BY <2>1 DEF Told
  <2>4. open' /\ ok => \A q \in Concerned : q \in again \union invalid \union Left
    <3> SUFFICES ASSUME open', ok, NEW q \in Concerned, q \notin Left
                 PROVE  q \in again \union invalid
      OBVIOUS
    <3>1. /\ visit.part \in DOMAIN router /\ visit.page \in DOMAIN router[visit.part].pages
          /\ q \in ({Page.main} \union Page.shows) \ {"nothing"} /\ q \in Watched
      BY VisitFacts DEF ViewTypes, Concerned, Watched
    <3>2. o \in DOMAIN Page.offers \intersect DOMAIN service /\ Concerns(o, QueryOp(q))
      BY <2>1 DEF ViewTypes, Concerned
    <3>3. \/ Rereads(Page, o, q) \/ offer.leaves \/ <<visit.page, q>> \in Forgotten
      BY <3>1, <3>2, ChangesAreReread DEF Page
    <3>4. ~offer.leaves /\ <<visit.page, q>> \notin Forgotten
      BY <2>1, <3>1 DEF Left, GoesOn
    <3> QED
      BY <3>1, <3>3, <3>4 DEF Rereads, GoesOn
  <2>5. \A q \in Watched : caches[q] \in Entries
    BY DEF ViewTypes, ViewCaches
  <2> HIDE DEF Pardon
  <2>6. kept \in ViewCaches /\ \A q \in Watched : kept[q] = IF Sure(q) THEN caches[q] ELSE Pardon(caches[q])
    BY <2>2, <2>5 DEF ViewCaches
  <2>7. delayed \union invalid \in SUBSET Watched /\ joined \subseteq again
    BY DEF ViewTypes
  <2>8. ~lost => ok \/ Concerned = {}
    BY DEF Concerned
  <2> HIDE DEF kept, again, joined, invalid, ok, on, offer
  <2> DEFINE c == Asked(kept, again \ joined)
  <2>9. c \in ViewCaches
    BY <2>6, AskedFacts
  <2>10. open' => \A q \in Watched : Sound(c[q], q \in (delayed \union invalid) \union Left)
    <3> SUFFICES ASSUME open', NEW q \in Watched
                 PROVE  Sound(c[q], q \in (delayed \union invalid) \union Left)
      OBVIOUS
    <3>1. CASE q \in again \ joined
      BY <3>1, <2>6, AskedFacts DEF Sound
    <3>2. CASE q \notin again \ joined
      <4>1. c[q] = kept[q]
        BY <3>2, <2>6, AskedFacts
      <4>2. CASE Sure(q)
        <5>1. kept[q] = caches[q] /\ q \notin again /\ ~lost
          BY <2>6, <3>2, <4>2
        <5>2. q \in Concerned => q \in invalid \union Left
          BY <2>4, <2>8, <5>1
        <5>3. Sound(caches[q], q \in delayed \union Concerned \union Left)
          BY <2>1 DEF ViewInv
        <5> QED
          BY <4>1, <5>1, <5>2, <5>3 DEF Sound
      <4>3. CASE ~Sure(q)
        BY <2>2, <2>5, <2>6, <4>1, <4>3 DEF Sound
      <4> QED
        BY <4>2, <4>3
    <3> QED
      BY <3>1, <3>2
  <2> HIDE DEF c
  <2>11. /\ caches' \in ViewCaches /\ delayed' \subseteq Watched
         /\ open' => \A q \in Watched : Sound(caches'[q], q \in delayed' \union Left)
    BY <2>1, <2>7, <2>9, <2>10, RtkReadsFacts DEF c
  <2>12. ViewTypes' /\ Concerned' = {}
    BY <1>0, <2>1, <2>3, <2>11 DEF ViewTypes, NothingCalled, Concerned
  <2> QED
    BY <1>0, <2>11, <2>12 DEF ViewInv
<1>7. CASE OthersChange
  BY <1>0, <1>7, <1>s DEF OthersChange, ViewInv, ViewTypes
<1>8. CASE UNCHANGED viewVars
  BY <1>0, <1>8, <1>s DEF viewVars, ViewInv, ViewTypes
<1> QED
  BY <1>1, <1>2, <1>3, <1>4, <1>5, <1>6, <1>7, <1>8 DEF ViewNext

\* A page is one of those there are, its queries are those it reads, and it calls what it
\* offers.
THEOREM ViewTypeCorrect == ViewSpec => []ViewTypeOK
<1>1. ViewTypes => ViewTypeOK
  BY DEF ViewTypes, ViewTypeOK, ViewCaches, Entries
<1> QED
  BY ViewStarts, ViewKeeps, <1>1, PTL DEF ViewSpec

\* Once every answer has come, no query of a page shows what it read before a change of
\* its own user, unless its last reading failed or the page forgets it: for any order of
\* calls, readings, lost answers, and readings that RTK Query has put off.
THEOREM OwnChangesAreShown == ViewSpec => []OwnWritesShown
<1>1. ViewTypes /\ ViewInv => OwnWritesShown
  BY DEF ViewTypes, ViewInv, OwnWritesShown, AtRest, Concerned, Left, Sound, NothingCalled
<1> QED
  BY ViewStarts, ViewKeeps, <1>1, PTL DEF ViewSpec
=============================================================================
