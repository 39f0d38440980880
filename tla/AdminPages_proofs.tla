------------------------- MODULE AdminPages_proofs -------------------------
(***************************************************************************)
(* Proofs about AdminPages, for every tree of nodes: the variables keep    *)
(* their types, a form is opened at a node from which its row can be       *)
(* edited, and what is typed in a form is what the row has once the server *)
(* has accepted it.                                                        *)
(*                                                                         *)
(* What depends on the tables is shown kind by kind, once; the rest of the *)
(* proofs speaks of any kind.                                              *)
(***************************************************************************)
EXTENDS AdminPages, TLAPS

-----------------------------------------------------------------------------
(* What the tables say, kind by kind.                                      *)

\* An update sends every field that is written.
Sent(k) == Table[k].takes.updates \subseteq Table[k].sends.updates

\* Either the row may be edited from the nodes below its own, or every link leads to its
\* own node.
Directed(k) ==
    \/ Table[k].takes.edits = "above" /\ k # "till"
    \/ /\ Table[k].takes.edits = "here"
       /\ Table[k].list.edit \in {"own", "no"}
       /\ Table[k].list.detail \in {"own", "no"}

LEMMA KindsAre ==
    Kinds = {"till", "profile", "layout", "button", "register", "stocking", "terminal",
             "tse", "product", "ticket", "taxRate", "variant", "user", "role",
             "payoutRun", "event"}
BY DEF Kinds, Table

\* What is written was sent, for every kind.
LEMMA AllSent == \A k \in Kinds : Sent(k)
<1> USE DEF Sent
<1>1. Sent("till") /\ Sent("profile") /\ Sent("layout") /\ Sent("button")
    BY DEF Table, Till, TillService, TillCollection, zTill,
           TillProfile, TillProfileService, TillProfileCollection, zTillProfile,
           TillLayout, TillLayoutService, TillLayoutCollection, zTillLayout,
           TillButton, TillButtonService, TillButtonCollection, zTillButton
<1>2. Sent("register") /\ Sent("stocking") /\ Sent("terminal") /\ Sent("tse")
    BY DEF Table, CashRegister, CashRegisterService, CashRegisterCollection, zCashRegister,
           CashRegisterStocking, CashRegisterStockingService,
           CashRegisterStockingCollection, zCashRegisterStocking,
           Terminal, TerminalService, TerminalCollection, zTerminal,
           Tse, TseService, TseCollection, zTse, zNewTse
<1>3. Sent("product") /\ Sent("ticket") /\ Sent("taxRate") /\ Sent("variant")
    BY DEF Table, Product, ProductService, ProductCollection, zProduct,
           Ticket, TicketService, TicketCollection, zTicket,
           TaxRate, TaxRateService, TaxRateCollection, zTaxRate,
           UserTagVariant, UserTagVariantService, UserTagVariantCollection,
           zUserTagVariant
<1>4. Sent("user") /\ Sent("role") /\ Sent("payoutRun") /\ Sent("event")
    BY DEF Table, User, UserService, UserCollection,
           UserRole, UserRoleService, UserRoleCollection,
           PayoutRun, PayoutRunService, PayoutRunCollection, Event, EventService
<1> QED  BY <1>1, <1>2, <1>3, <1>4, KindsAre

\* The links of every kind lead to where it can be edited, with three exceptions; the runs
\* of payouts have no form.
LEMMA AllDirected == \A k \in Kinds \ (Misdirected \cup {"payoutRun"}) : Directed(k)
<1> USE DEF Directed
<1>1. Directed("till") /\ Directed("profile") /\ Directed("button")
    BY DEF Table, Till, TillService, TillList, TillProfile, TillProfileService,
           TillButton, TillButtonService, TillButtonList
<1>2. Directed("stocking") /\ Directed("tse")
    BY DEF Table, CashRegisterStocking, CashRegisterStockingService, Tse, TseService
<1>3. Directed("product") /\ Directed("ticket") /\ Directed("taxRate") /\ Directed("variant")
    BY DEF Table, Product, ProductService, Ticket, TicketService,
           TaxRate, TaxRateService, UserTagVariant, UserTagVariantService
<1>4. Directed("user") /\ Directed("role") /\ Directed("event")
    BY DEF Table, User, UserService, UserList, UserRole, UserRoleService,
           Event, EventService, NoList
<1> QED  BY <1>1, <1>2, <1>3, <1>4, KindsAre DEF Misdirected

\* The runs of payouts have no form.
LEMMA NoFormOfRuns == Table["payoutRun"].updates = {}
BY DEF Table, PayoutRun

-----------------------------------------------------------------------------
(* What is on the screen.                                                  *)

\* A page, and a form that creates a row has something in its fields.
Filled(p) == p \in Pages /\ (p.at = "create" => p.value \in Values)

\* Rendering leaves a page where it is. An update has a value only for a row that is listed.
LEMMA RenderedPage ==
    ASSUME NEW p, Filled(p), NEW c \in Values \cup {"absent"}
    PROVE  /\ Filled(Rendered(p, c))
           /\ Rendered(p, c).at = p.at
           /\ Rendered(p, c).node = p.node
           /\ p.at # "update" => Rendered(p, c) = p
           /\ p.at = "update" /\ Rendered(p, c).value # "absent" => c # "absent"
BY DEF Rendered, Filled, Pages

LEMMA ListPage == \A n \in Nodes : Filled(ListAt(n)) /\ Filled(DetailAt(n))
BY DEF ListAt, DetailAt, Filled, Pages

LEMMA FormPage ==
    ASSUME NEW n \in Nodes, NEW form, NEW at \in {"create", "update"}
    PROVE  /\ FormAt(at, n, form) \in Pages
           /\ FormAt(at, n, form).at = at
           /\ FormAt(at, n, form).node = n
           /\ at = "update" => Filled(FormAt(at, n, form))
           /\ Filled([FormAt(at, n, form) EXCEPT !.value = "blank"])
           /\ [FormAt(at, n, form) EXCEPT !.value = "blank"].at = at
<1>1. ASSUME NEW shown \in BOOLEAN, NEW taken \in BOOLEAN,
             FormAt(at, n, form) =
                 [ListAt(n) EXCEPT !.at = at, !.shown = shown, !.taken = taken]
      PROVE  /\ FormAt(at, n, form) \in Pages
             /\ FormAt(at, n, form).at = at
             /\ FormAt(at, n, form).node = n
    BY <1>1 DEF ListAt, Pages
<1>2. (field \in form.shows) \in BOOLEAN /\ (field \in form.takes) \in BOOLEAN
    OBVIOUS
<1>3. FormAt(at, n, form) =
          [ListAt(n) EXCEPT !.at = at, !.shown = field \in form.shows,
                            !.taken = field \in form.takes]
    BY DEF FormAt
<1>4. /\ FormAt(at, n, form) \in Pages
      /\ FormAt(at, n, form).at = at
      /\ FormAt(at, n, form).node = n
    BY <1>1, <1>2, <1>3
<1> QED  BY <1>4 DEF Filled, Pages, Values

-----------------------------------------------------------------------------
(* Types.                                                                  *)

\* The body of a request has a value in every field it is sent with.
BodyHolds ==
    /\ request.op = "update" /\ field \in Table[kind].sends.updates => request.value \in Values
    /\ request.op = "insert" /\ field \in Table[kind].sends.inserts => request.value \in Values

TypeInv == AdminTypeOK /\ Filled(page) /\ BodyHolds

LEMMA TypeInit == Init => TypeInv
<1> SUFFICES ASSUME Init PROVE TypeInv
    OBVIOUS
<1>1. Filled(page) /\ page \in Pages
    BY ListPage, TreeAssumption DEF Init, Filled
<1>2. request \in Requests /\ BodyHolds
    BY TreeAssumption DEF Init, NoRequest, Requests, BodyHolds
<1>3. row \in [node : Nodes, value : Values \cup NoRow] /\ copies \in [Nodes -> Values \cup {"absent"}]
    BY DEF Init, Values, NoRow
<1> QED  BY <1>1, <1>2, <1>3 DEF Init, TypeInv, AdminTypeOK

\* What the server sees from a node is a value, or nothing.
LEMMA SeenType ==
    ASSUME AdminTypeOK, NEW n \in Nodes PROVE Seen(n) \in Values \cup {"absent"}
BY DEF AdminTypeOK, Seen, NoRow

LEMMA OpensType ==
    ASSUME TypeInv, NEW p, Filled(p), Opens(p) PROVE TypeInv'
<1>1. Filled(page')
    <2>1. copies[p.node] \in Values \cup {"absent"}
        BY DEF TypeInv, AdminTypeOK, Filled, Pages
    <2> QED  BY <2>1, RenderedPage DEF Opens
<1> QED  BY <1>1 DEF TypeInv, AdminTypeOK, BodyHolds, Filled, Opens

LEMMA ShowsType ==
    ASSUME AdminTypeOK, NEW n \in Nodes, NEW c \in Values \cup {"absent"},
           NEW p, Filled(p), Shows(n, c, p)
    PROVE  Filled(page') /\ copies' \in [Nodes -> Values \cup {"absent"}]
<1>1. Filled(page')
    BY RenderedPage DEF Shows
<1>2. copies' \in [Nodes -> Values \cup {"absent"}]
    BY DEF Shows, AdminTypeOK
<1> QED  BY <1>1, <1>2

LEMMA TypeBrowse == TypeInv /\ Browse => TypeInv'
<1> SUFFICES ASSUME TypeInv, Browse PROVE TypeInv'
    OBVIOUS
<1>0. page.node \in Nodes /\ row.node \in Nodes
    BY DEF TypeInv, AdminTypeOK, Pages
<1>1. CASE \E n \in Nodes : Visit(n)
    BY <1>1, ListPage, OpensType DEF Visit
<1>2. CASE OpenDetail
    BY <1>0, <1>2, ListPage, OpensType DEF OpenDetail, LinkedNode
<1>3. ASSUME NEW form \in Table[kind].updates,
             EditFromList(form) \/ EditFromDetail(form) \/ OpenTab(form)
      PROVE  TypeInv'
    BY <1>0, <1>3, FormPage, OpensType, TreeAssumption
       DEF EditFromList, EditFromDetail, OpenTab, LinkedNode
<1>4. CASE OpenCreate
    <2> DEFINE p == [FormAt("create", page.node, Table[kind].create) EXCEPT !.value = "blank"]
    <2>1. Filled(p)
        BY <1>0, FormPage
    <2> QED  BY <1>4, <2>1, OpensType DEF OpenCreate
<1>5. CASE Type
    BY <1>5 DEF Type, TypeInv, AdminTypeOK, BodyHolds, Filled, Pages, Values
<1>6. CASE Refetch
    <2>1. PICK c \in {Seen(page.node)} \cup (IF kind = "event" THEN {} ELSE {"absent"}) :
              Shows(page.node, c, page)
        BY <1>6 DEF Refetch
    <2>2. c \in Values \cup {"absent"}
        BY <1>0, SeenType DEF TypeInv
    <2>3. Filled(page') /\ copies' \in [Nodes -> Values \cup {"absent"}]
        BY <1>0, <2>1, <2>2, ShowsType DEF TypeInv, AdminTypeOK
    <2> QED  BY <1>6, <2>3 DEF Refetch, TypeInv, AdminTypeOK, BodyHolds, Filled
<1> QED  BY <1>1, <1>2, <1>3, <1>4, <1>5, <1>6 DEF Browse

\* A request of the page is well formed.
LEMMA SendType ==
    ASSUME TypeInv, NEW op \in {"insert", "update", "delete"},
           NEW value \in Values \cup {"none"}, NEW typed \in BOOLEAN,
           NEW leaves \in BOOLEAN, Send(op, value, typed, leaves)
    PROVE  request' \in Requests /\ request'.op = op /\ request'.value = value
BY DEF Send, TypeInv, AdminTypeOK, Pages, Requests

LEMMA ChangeRowType ==
    ASSUME TypeInv, NEW modified \in Values, NEW typed \in BOOLEAN,
           NEW leaves \in BOOLEAN, ChangeRow(modified, typed, leaves)
    PROVE  TypeInv'
<1> DEFINE value == InBody(Table[kind].sends.updates, modified)
<1>1. value \in Values \cup {"none"} /\ (field \in Table[kind].sends.updates => value \in Values)
    BY DEF InBody
<1>2. request' \in Requests /\ request'.op = "update" /\ request'.value = value
    BY <1>1, SendType DEF ChangeRow
<1>3. copies' \in [Nodes -> Values \cup {"absent"}]
    BY DEF ChangeRow, TypeInv, AdminTypeOK
<1> QED  BY <1>1, <1>2, <1>3 DEF ChangeRow, TypeInv, AdminTypeOK, BodyHolds

LEMMA TypeNext == TypeInv /\ [Next]_vars => TypeInv'
<1> SUFFICES ASSUME TypeInv, [Next]_vars PROVE TypeInv'
    OBVIOUS
<1>0. page.node \in Nodes /\ row.node \in Nodes /\ request.node \in Nodes
    BY DEF TypeInv, AdminTypeOK, Pages, Requests
<1>1. CASE Browse
    BY <1>1, TypeBrowse
<1>2. CASE SubmitCreate
    <2> DEFINE entered == IF page.taken THEN page.value ELSE "blank"
               value == InBody(Table[kind].sends.inserts, entered)
    <2>1. entered \in Values
        BY <1>2 DEF SubmitCreate, TypeInv, Filled, Values
    <2>2. value \in Values \cup {"none"} /\ page.typed \in BOOLEAN
        BY <2>1 DEF InBody, TypeInv, AdminTypeOK, Pages
    <2>3. Send("insert", value, page.typed, TRUE)
        BY <1>2 DEF SubmitCreate
    <2>4. request' \in Requests /\ request'.op = "insert" /\ request'.value = value
        BY <2>2, <2>3, SendType
    <2> QED  BY <1>2, <2>1, <2>4 DEF SubmitCreate, InBody, TypeInv, AdminTypeOK, BodyHolds
<1>3. CASE SubmitUpdate
    <2> DEFINE modified == IF page.taken THEN page.value ELSE copies[page.node]
    <2>1. modified \in Values /\ page.typed \in BOOLEAN
        BY <1>0, <1>3 DEF SubmitUpdate, ChangeRow, TypeInv, AdminTypeOK, Pages
    <2> QED  BY <1>3, <2>1, ChangeRowType DEF SubmitUpdate
<1>4. CASE ToggleLock
    <2> DEFINE modified == IF field = "is_locked" THEN "mine" ELSE copies[page.node]
    <2>1. modified \in Values
        BY <1>0, <1>4 DEF ToggleLock, ChangeRow, TypeInv, AdminTypeOK, Values
    <2> QED  BY <1>4, <2>1, ChangeRowType DEF ToggleLock
<1>5. CASE Delete
    <2>1. request' \in Requests /\ request'.op = "delete"
        BY <1>5, SendType DEF Delete
    <2>2. copies' \in [Nodes -> Values \cup {"absent"}]
        BY <1>5 DEF Delete, TypeInv, AdminTypeOK
    <2> QED  BY <1>5, <2>1, <2>2 DEF Delete, TypeInv, AdminTypeOK, BodyHolds
<1>6. CASE AcceptInsert
    <2>1. row' \in [node : Nodes, value : Values \cup NoRow]
        BY <1>0, <1>6 DEF AcceptInsert, Written, Complete, TypeInv, AdminTypeOK, BodyHolds, Values
    <2> QED  BY <1>6, <2>1 DEF AcceptInsert, Settle, TypeInv, AdminTypeOK, BodyHolds, Requests
<1>7. CASE AcceptUpdate
    <2>1. row' \in [node : Nodes, value : Values \cup NoRow]
        BY <1>0, <1>7, AllSent
           DEF AcceptUpdate, Written, Sent, TypeInv, AdminTypeOK, BodyHolds, Values
    <2> QED  BY <1>7, <2>1 DEF AcceptUpdate, Settle, TypeInv, AdminTypeOK, BodyHolds, Requests
<1>8. CASE AcceptDelete
    BY <1>8 DEF AcceptDelete, Settle, TypeInv, AdminTypeOK, BodyHolds, Requests, NoRow
<1>9. CASE Refuse
    BY <1>9 DEF Refuse, Settle, TypeInv, AdminTypeOK, BodyHolds, Requests
<1>10. CASE Answered
    <2> DEFINE after == IF request.leaves THEN ListAt(page.node) ELSE page
    <2>1. Filled(after)
        BY <1>0, ListPage DEF TypeInv
    <2>2. Filled(page') /\ copies' \in [Nodes -> Values \cup {"absent"}]
        <3>1. CASE kind = "event"
            <4>1. Shows(EventNode, copies[EventNode], after)
                BY <1>10, <3>1 DEF Answered
            <4>2. copies[EventNode] \in Values \cup {"absent"}
                BY TreeAssumption DEF TypeInv, AdminTypeOK
            <4> QED  BY <2>1, <4>1, <4>2, ShowsType, TreeAssumption DEF TypeInv
        <3>2. CASE kind # "event"
            <4>1. PICK c \in {Seen(request.node), "absent"} : Shows(request.node, c, after)
                BY <1>10, <3>2 DEF Answered
            <4>2. c \in Values \cup {"absent"}
                BY <1>0, SeenType DEF TypeInv
            <4> QED  BY <1>0, <2>1, <4>1, <4>2, ShowsType DEF TypeInv
        <3> QED  BY <3>1, <3>2
    <2>3. request' \in Requests /\ request'.op = "none"
        BY <1>10, TreeAssumption DEF Answered, NoRequest, Requests
    <2> QED  BY <1>10, <2>2, <2>3 DEF Answered, TypeInv, AdminTypeOK, BodyHolds, Filled
<1>11. CASE OthersSave \/ OthersDelete
    BY <1>11 DEF OthersSave, OthersDelete, TypeInv, AdminTypeOK, BodyHolds, Values, NoRow
<1>12. CASE UNCHANGED vars
    BY <1>12 DEF vars, TypeInv, AdminTypeOK, BodyHolds
<1> QED
    BY <1>1, <1>2, <1>3, <1>4, <1>5, <1>6, <1>7, <1>8, <1>9, <1>10, <1>11, <1>12 DEF Next

\* Every variable keeps its type, and the server writes only what was in the body.
THEOREM TypeCorrect == Spec => []AdminTypeOK
<1>1. TypeInv => AdminTypeOK
    BY DEF TypeInv
<1> QED  BY TypeInit, TypeNext, <1>1, PTL DEF Spec

-----------------------------------------------------------------------------
(* Forms are opened where their row can be edited.                         *)

\* The event has no list, only tabs.
LEMMA TabsOfEvent ==
    Table["event"].list.edit = "no" /\ Table["event"].list.detail = "no"
BY DEF Table, Event, NoList

\* There is a row, and node n lists it.
Shown(r, n) == r.value # "absent" /\ r.node \in Listed(n)

\* A kind whose links lead to the node of the row, wherever they are followed.
OwnLinks ==
    Table[kind].list.edit \in {"own", "no"} /\ Table[kind].list.detail \in {"own", "no"}

\* How a page at node n can have been reached, for the row r.
Reached(at, n, r) ==
    /\ at = "detail" => Table[kind].list.detail # "no"
    /\ at = "detail" /\ Table[kind].list.detail = "own" => r.value # "absent" /\ r.node = n
    /\ at = "update" => Table[kind].updates # {}
    /\ at = "update" /\ kind = "event" => n = EventNode
    /\ at = "update" /\ kind # "event" /\ OwnLinks => r.value # "absent" /\ r.node = n

EventInv == kind = "event" => row.value # "absent" /\ row.node = EventNode
CopyInv == \A n \in Nodes : copies[n] # "absent" => Shown(row, n)
FormInv == page.at = "update" /\ page.value # "absent" => Shown(row, page.node)
ReachInv ==
    /\ EventInv
    /\ CopyInv
    /\ FormInv
    /\ Reached(page.at, page.node, row)

\* The invariant says what the property asks for, by what the tables say.
LEMMA ReachInvEnough == TypeInv /\ ReachInv => EditsReachTheRow
<1> SUFFICES ASSUME TypeInv, ReachInv, page.at = "update", page.value # "absent",
                    row.value \notin NoRow, kind \notin Misdirected
             PROVE  Reaches(Table[kind].takes.edits, page.node)
    BY DEF EditsReachTheRow
<1>1. kind \in Kinds /\ kind # "payoutRun"
    BY NoFormOfRuns DEF TypeInv, AdminTypeOK, ReachInv, Reached
<1>2. Directed(kind)
    BY <1>1, AllDirected
<1>3. CASE Table[kind].takes.edits = "above" /\ kind # "till"
    BY <1>3 DEF ReachInv, FormInv, Shown, Listed, Reaches
<1>4. CASE Table[kind].takes.edits = "here" /\ OwnLinks
    BY <1>4 DEF ReachInv, EventInv, Reached, Reaches
<1> QED  BY <1>2, <1>3, <1>4 DEF Directed, OwnLinks

LEMMA ReachInit == Init => ReachInv
<1> SUFFICES ASSUME Init PROVE ReachInv
    OBVIOUS
<1>1. page.at = "list"
    BY DEF Init, ListAt
<1>2. CopyInv
    BY DEF Init, CopyInv
<1>3. EventInv
    BY DEF Init, EventInv
<1> QED  BY <1>1, <1>2, <1>3 DEF ReachInv, FormInv, Reached

\* A row that is there, or was, stays at its node.
RowStays ==
    /\ kind' = kind
    /\ row.value # "absent" => row'.value # "absent" /\ row'.node = row.node

LEMMA Stays == TypeInv /\ [Next]_vars => RowStays
<1> SUFFICES ASSUME TypeInv, [Next]_vars PROVE RowStays
    OBVIOUS
<1>1. row \in [node : Nodes, value : Values \cup NoRow] /\ request \in Requests
    BY DEF TypeInv, AdminTypeOK
<1>2. CASE Browse
    BY <1>2 DEF Browse, Visit, OpenDetail, EditFromList, EditFromDetail, OpenTab, OpenCreate,
                Type, Refetch, Opens, RowStays
<1>3. CASE SubmitCreate \/ SubmitUpdate \/ ToggleLock \/ Delete
    BY <1>3 DEF SubmitCreate, SubmitUpdate, ToggleLock, Delete, ChangeRow, RowStays
<1>4. CASE AcceptInsert
    BY <1>4 DEF AcceptInsert, RowStays
<1>5. CASE AcceptUpdate
    BY <1>1, <1>5 DEF AcceptUpdate, Written, RowStays, Requests, Values, NoRow
<1>6. CASE AcceptDelete
    BY <1>1, <1>6 DEF AcceptDelete, RowStays
<1>7. CASE Refuse \/ Answered
    BY <1>7 DEF Refuse, Answered, RowStays
<1>8. CASE OthersSave \/ OthersDelete
    BY <1>1, <1>8 DEF OthersSave, OthersDelete, RowStays
<1>9. CASE UNCHANGED vars
    BY <1>9 DEF vars, RowStays
<1> QED  BY <1>2, <1>3, <1>4, <1>5, <1>6, <1>7, <1>8, <1>9 DEF Next

\* The lists depend on the kind only.
LEMMA ListedStays == RowStays => \A n : Listed(n)' = Listed(n)
BY DEF RowStays, Listed

\* Nothing but the copies matters while the page stays.
LEMMA ReachKept ==
    ASSUME ReachInv, RowStays, page' = page,
           \A n \in Nodes : copies'[n] # "absent" => copies[n] # "absent"
    PROVE  ReachInv'
<1>1. EventInv'
    BY DEF ReachInv, EventInv, RowStays
<1>2. CopyInv' /\ FormInv'
    BY ListedStays DEF ReachInv, CopyInv, FormInv, Shown, RowStays
<1>3. Reached(page.at, page.node, row)'
    BY DEF ReachInv, Reached, OwnLinks, RowStays
<1> QED  BY <1>1, <1>2, <1>3 DEF ReachInv

\* A page that can be reached is rendered with what its node has of the row.
LEMMA ReachOpens ==
    ASSUME TypeInv, ReachInv, NEW p, Filled(p), Opens(p),
           p.at = "update" => p.value = "absent", Reached(p.at, p.node, row)
    PROVE  ReachInv'
<1>1. copies[p.node] \in Values \cup {"absent"} /\ p.node \in Nodes
    BY DEF TypeInv, AdminTypeOK, Filled, Pages
<1>2. /\ page'.at = p.at
      /\ page'.node = p.node
      /\ page'.at = "update" /\ page'.value # "absent" => copies[p.node] # "absent"
    BY <1>1, RenderedPage DEF Opens
<1>3. RowStays /\ row' = row /\ copies' = copies
    BY DEF Opens, RowStays
<1>4. EventInv' /\ CopyInv'
    BY <1>3, ListedStays DEF ReachInv, EventInv, CopyInv, Shown, RowStays
<1>5. FormInv'
    BY <1>1, <1>2, <1>3, ListedStays DEF ReachInv, CopyInv, FormInv, Shown
<1>6. Reached(page.at, page.node, row)'
    BY <1>2, <1>3 DEF Reached, OwnLinks, RowStays
<1> QED  BY <1>4, <1>5, <1>6 DEF ReachInv

\* What a node is told of the row is true, or that there is none.
LEMMA ReachShows ==
    ASSUME TypeInv, ReachInv, RowStays, row' = row,
           NEW n \in Nodes, NEW c \in Values \cup {"absent"}, c # "absent" => Shown(row, n),
           NEW p, Filled(p), Shows(n, c, p), Reached(p.at, p.node, row),
           p.at = "update" /\ p.value # "absent" => Shown(row, p.node)
    PROVE  ReachInv'
<1>1. /\ page'.at = p.at
      /\ page'.node = p.node
      /\ page'.at = "update" /\ page'.value # "absent" => Shown(row, p.node)
    BY RenderedPage DEF Shows
<1>2. EventInv'
    BY DEF ReachInv, EventInv, RowStays
<1>3. CopyInv'
    BY ListedStays DEF ReachInv, CopyInv, Shown, Shows, TypeInv, AdminTypeOK
<1>4. FormInv'
    BY <1>1, ListedStays DEF FormInv, Shown
<1>5. Reached(page.at, page.node, row)'
    BY <1>1 DEF Reached, OwnLinks, RowStays
<1> QED  BY <1>2, <1>3, <1>4, <1>5 DEF ReachInv

LEMMA ReachBrowse == TypeInv /\ ReachInv /\ Browse => ReachInv'
<1> SUFFICES ASSUME TypeInv, ReachInv, Browse PROVE ReachInv'
    OBVIOUS
<1>0. /\ page.node \in Nodes
      /\ row.node \in Nodes
      /\ RowStays
    BY Stays DEF TypeInv, AdminTypeOK, Pages, Next
<1>1. CASE \E n \in Nodes : Visit(n)
    <2>1. PICK n \in Nodes : Visit(n)
        BY <1>1
    <2>2. Filled(ListAt(n)) /\ ListAt(n).at = "list" /\ Reached("list", ListAt(n).node, row)
        BY ListPage DEF ListAt, Reached
    <2> QED  BY <2>1, <2>2, ReachOpens DEF Visit
<1>2. CASE OpenDetail
    <2> DEFINE n == LinkedNode(Table[kind].list.detail)
    <2>1. n \in Nodes
        BY <1>0 DEF LinkedNode
    <2>2. Shown(row, page.node)
        BY <1>0, <1>2 DEF OpenDetail, ReachInv, CopyInv
    <2>3. Reached("detail", n, row)
        BY <1>2, <2>2 DEF OpenDetail, Reached, Shown, LinkedNode
    <2>4. Filled(DetailAt(n)) /\ DetailAt(n).at = "detail" /\ DetailAt(n).node = n
        BY <2>1, ListPage DEF DetailAt, ListAt
    <2> QED  BY <1>2, <2>3, <2>4, ReachOpens DEF OpenDetail
<1>3. ASSUME NEW form \in Table[kind].updates,
             EditFromList(form) \/ EditFromDetail(form) \/ OpenTab(form)
      PROVE  ReachInv'
    <2>1. ASSUME NEW n \in Nodes, Opens(FormAt("update", n, form)), Reached("update", n, row)
          PROVE  ReachInv'
        <3> DEFINE p == FormAt("update", n, form)
        <3>1. p.value = "absent"
            BY DEF FormAt, ListAt
        <3>2. Filled(p) /\ p.at = "update" /\ p.node = n
            BY FormPage
        <3>3. Opens(p)
            BY <2>1
        <3> HIDE DEF p
        <3> QED  BY <2>1, <3>1, <3>2, <3>3, ReachOpens
    <2>2. CASE EditFromList(form)
        <3> DEFINE n == LinkedNode(Table[kind].list.edit)
        <3>1. Shown(row, page.node)
            BY <1>0, <2>2 DEF EditFromList, ReachInv, CopyInv
        <3>2. Reached("update", n, row)
            BY <2>2, <3>1, TabsOfEvent DEF EditFromList, Reached, OwnLinks, Shown, LinkedNode
        <3>3. n \in Nodes
            BY <1>0 DEF LinkedNode
        <3> QED  BY <2>1, <2>2, <3>2, <3>3 DEF EditFromList
    <2>3. CASE EditFromDetail(form)
        <3>1. Reached("update", page.node, row)
            BY <2>3, TabsOfEvent DEF EditFromDetail, ReachInv, Reached, OwnLinks
        <3> QED  BY <1>0, <2>1, <2>3, <3>1 DEF EditFromDetail
    <2>4. CASE OpenTab(form)
        <3>1. Reached("update", EventNode, row)
            BY <2>4 DEF OpenTab, Reached
        <3> QED  BY <2>1, <2>4, <3>1, TreeAssumption DEF OpenTab
    <2> QED  BY <1>3, <2>2, <2>3, <2>4
<1>4. CASE OpenCreate
    <2> DEFINE p == [FormAt("create", page.node, Table[kind].create) EXCEPT !.value = "blank"]
    <2>1. Filled(p) /\ p.at = "create"
        <3>1. Filled(p)
            BY <1>0, FormPage
        <3>2. p.at = "create"
            BY DEF FormAt, ListAt
        <3> QED  BY <3>1, <3>2
    <2>2. Opens(p)
        BY <1>4 DEF OpenCreate
    <2> HIDE DEF p
    <2>3. Reached(p.at, p.node, row)
        BY <2>1 DEF Reached
    <2> QED  BY <2>1, <2>2, <2>3, ReachOpens
<1>5. CASE Type
    <2>1. /\ page'.at = page.at
          /\ page'.node = page.node
          /\ row' = row
          /\ copies' = copies
          /\ page.value # "absent"
        BY <1>5 DEF Type, TypeInv, AdminTypeOK, Pages
    <2>2. EventInv' /\ CopyInv'
        BY <1>0, <2>1, ListedStays DEF ReachInv, EventInv, CopyInv, Shown, RowStays
    <2>3. FormInv'
        BY <1>0, <2>1, ListedStays DEF ReachInv, FormInv, Shown
    <2>4. Reached(page.at, page.node, row)'
        BY <1>0, <2>1 DEF ReachInv, Reached, OwnLinks, RowStays
    <2> QED  BY <2>2, <2>3, <2>4 DEF ReachInv
<1>6. CASE Refetch
    <2>1. PICK c \in {Seen(page.node)} \cup (IF kind = "event" THEN {} ELSE {"absent"}) :
              Shows(page.node, c, page)
        BY <1>6 DEF Refetch
    <2>2. c \in Values \cup {"absent"}
        BY <1>0, SeenType DEF TypeInv
    <2>3. c # "absent" => Shown(row, page.node)
        BY DEF Seen, Shown, NoRow
    <2>4. row' = row
        BY <1>6 DEF Refetch
    <2> QED  BY <1>0, <2>1, <2>2, <2>3, <2>4, ReachShows DEF TypeInv, ReachInv, FormInv
<1> QED  BY <1>1, <1>2, <1>3, <1>4, <1>5, <1>6 DEF Browse

LEMMA ReachNext == TypeInv /\ ReachInv /\ [Next]_vars => ReachInv'
<1> SUFFICES ASSUME TypeInv, ReachInv, [Next]_vars PROVE ReachInv'
    OBVIOUS
<1>0. page.node \in Nodes /\ request.node \in Nodes /\ RowStays
    BY Stays DEF TypeInv, AdminTypeOK, Pages, Requests
<1>1. CASE Browse
    BY <1>1, ReachBrowse
<1>2. CASE SubmitCreate
    BY <1>0, <1>2, ReachKept DEF SubmitCreate
<1>3. CASE SubmitUpdate \/ ToggleLock
    <2>1. PICK modified, typed, leaves : ChangeRow(modified, typed, leaves)
        BY <1>3 DEF SubmitUpdate, ToggleLock
    <2>2. page' = page /\ (\A n \in Nodes : copies'[n] # "absent" => copies[n] # "absent")
        BY <2>1 DEF ChangeRow, TypeInv, AdminTypeOK
    <2> QED  BY <1>0, <2>2, ReachKept
<1>4. CASE Delete
    <2>1. page' = page /\ (\A n \in Nodes : copies'[n] # "absent" => copies[n] # "absent")
        BY <1>4 DEF Delete, TypeInv, AdminTypeOK
    <2> QED  BY <1>0, <2>1, ReachKept
<1>5. CASE AcceptInsert \/ AcceptUpdate \/ AcceptDelete \/ Refuse
    <2>1. page' = page /\ copies' = copies
        BY <1>5 DEF AcceptInsert, AcceptUpdate, AcceptDelete, Refuse
    <2> QED  BY <1>0, <2>1, ReachKept
<1>6. CASE Answered
    <2> DEFINE after == IF request.leaves THEN ListAt(page.node) ELSE page
    <2>1. /\ Filled(after)
          /\ Reached(after.at, after.node, row)
          /\ after.at = "update" /\ after.value # "absent" => Shown(row, after.node)
        <3>1. CASE request.leaves
            BY <1>0, <3>1, ListPage DEF ListAt, Reached
        <3>2. CASE ~request.leaves
            BY <3>2 DEF TypeInv, ReachInv, FormInv
        <3> QED  BY <3>1, <3>2
    <2>2. row' = row
        BY <1>6 DEF Answered
    <2> HIDE DEF after
    <2>3. CASE kind = "event"
        <3>1. Shows(EventNode, copies[EventNode], after)
            BY <1>6, <2>3 DEF Answered, after
        <3>2. copies[EventNode] \in Values \cup {"absent"}
            BY TreeAssumption DEF TypeInv, AdminTypeOK
        <3>3. copies[EventNode] # "absent" => Shown(row, EventNode)
            BY TreeAssumption DEF ReachInv, CopyInv
        <3> QED  BY <1>0, <2>1, <2>2, <3>1, <3>2, <3>3, ReachShows, TreeAssumption
    <2>4. CASE kind # "event"
        <3>1. PICK c \in {Seen(request.node), "absent"} : Shows(request.node, c, after)
            BY <1>6, <2>4 DEF Answered, after
        <3>2. c \in Values \cup {"absent"}
            BY <1>0, SeenType DEF TypeInv
        <3>3. c # "absent" => Shown(row, request.node)
            BY DEF Seen, Shown, NoRow
        <3> QED  BY <1>0, <2>1, <2>2, <3>1, <3>2, <3>3, ReachShows
    <2> QED  BY <2>3, <2>4
<1>7. CASE OthersSave \/ OthersDelete
    BY <1>0, <1>7, ReachKept DEF OthersSave, OthersDelete
<1>8. CASE UNCHANGED vars
    BY <1>0, <1>8, ReachKept DEF vars
<1> QED  BY <1>1, <1>2, <1>3, <1>4, <1>5, <1>6, <1>7, <1>8 DEF Next

\* Whatever the tree of nodes, a form that shows a row is opened at a node from which the
\* server takes the edit, but for the three kinds that are known not to.
THEOREM EditsReach == Spec => []EditsReachTheRow
<1>1. TypeInv /\ ReachInv /\ [Next]_vars => (TypeInv /\ ReachInv)'
    BY TypeNext, ReachNext
<1> QED  BY TypeInit, ReachInit, <1>1, ReachInvEnough, PTL DEF Spec

-----------------------------------------------------------------------------
(* What is entered is saved.                                               *)

\* The fields that are lost of a kind.
LostOf(k) == IF k = "user" THEN {"user_tag_pin", "user_tag_uid_hex"}
             ELSE IF k = "event" THEN {"pretix_topup_ids", "payout_registered_message"}
             ELSE {}

\* A field that a form shows is passed on by every hand: by those of a new row, if the
\* server ever takes one, ...
NewCarried(k) ==
    Table[k].takes.creates \subseteq Table[k].sends.inserts =>
        \A f \in Table[k].create.shows \ LostOf(k) :
            f \in Table[k].create.takes /\ f \in Table[k].takes.creates

\* ... and by those of a change, also of a lock.
ChangeCarried(k) ==
    /\ \A form \in Table[k].updates : \A f \in form.shows \ LostOf(k) :
          f \in form.takes /\ f \in Table[k].takes.updates
    /\ Table[k].list.locks \/ Table[k].detail.locks => "is_locked" \in Table[k].takes.updates

\* It is so for every kind.
LEMMA AllNewCarried == \A k \in Kinds : NewCarried(k)
<1> USE DEF NewCarried, LostOf
<1>1. NewCarried("till") /\ NewCarried("profile") /\ NewCarried("layout") /\ NewCarried("button")
    BY DEF Table, Till, TillCreate, TillForm, TillService, zNewTill,
           TillProfile, TillProfileCreate, TillProfileForm, TillProfileService, zNewTillProfile,
           TillLayout, TillLayoutCreate, TillLayoutChange, TillLayoutService, zNewTillLayout,
           TillButton, TillButtonCreate, TillButtonForm, TillButtonService, zNewTillButton
<1>2. NewCarried("register") /\ NewCarried("stocking") /\ NewCarried("terminal") /\ NewCarried("tse")
    BY DEF Table, CashRegister, CashRegisterCreate, CashRegisterForm, CashRegisterService,
           zNewCashRegister, CashRegisterStocking, CashRegisterStockingCreate,
           CashRegisterStockingForm, cashRegisterStockingDenominationFields,
           CashRegisterStockingService, zNewCashRegisterStocking,
           Terminal, TerminalCreate, TerminalForm, TerminalService, zNewTerminal,
           Tse, TseCreate, TseForm, TseService, zNewTse, zUpdateTse
<1>3. NewCarried("product") /\ NewCarried("ticket") /\ NewCarried("taxRate") /\ NewCarried("variant")
    BY DEF Table, Product, ProductCreate, ProductForm, ProductService, zNewProduct,
           Ticket, TicketCreate, TicketForm, TicketService, zNewTicket,
           TaxRate, TaxRateCreate, TaxRateForm, TaxRateService, zNewTaxRate,
           UserTagVariant, UserTagVariantCreate, UserTagVariantForm, UserTagVariantService,
           zNewUserTagVariant
<1>4. NewCarried("user") /\ NewCarried("role") /\ NewCarried("event")
    BY DEF Table, User, UserCreate, UserCreateForm, UserService, zCreateUserPayload,
           zUpdateUserPayload, UserRole, UserRoleCreate, UserRoleForm, UserRoleService,
           zNewUserRole, zUpdateUserRolePrivilegesPayload, Event, NoForm
<1>5. NewCarried("payoutRun")
    BY DEF Table, PayoutRun, PayoutRunCreate, PayoutRunService, PayoutRunCollection,
           zNewPayoutRun, zPayoutRunWithStats
<1> QED  BY <1>1, <1>2, <1>3, <1>4, <1>5, KindsAre

\* And for the updates of every kind.
LEMMA AllChangeCarried == \A k \in Kinds : ChangeCarried(k)
<1> USE DEF ChangeCarried, LostOf
<1>1. ChangeCarried("till") /\ ChangeCarried("profile") /\ ChangeCarried("layout")
          /\ ChangeCarried("button")
    BY DEF Table, Till, TillUpdate, TillForm, TillService, zNewTill, TillList, TillDetail,
           TillProfile, TillProfileUpdate, TillProfileForm, TillProfileService, zNewTillProfile,
           TillProfileList, TillProfileDetail,
           TillLayout, TillLayoutUpdate, TillLayoutChange, TillLayoutService, zNewTillLayout,
           TillLayoutList, TillLayoutDetail,
           TillButton, TillButtonUpdate, TillButtonForm, TillButtonService, zNewTillButton,
           TillButtonList, NoDetail
<1>2. ChangeCarried("product") /\ ChangeCarried("ticket") /\ ChangeCarried("taxRate")
          /\ ChangeCarried("variant")
    BY DEF Table, Product, ProductUpdate, ProductForm, ProductService, zNewProduct,
           Ticket, TicketUpdate, TicketForm, TicketService, zNewTicket,
           TaxRate, TaxRateUpdate, TaxRateForm, TaxRateService, zNewTaxRate, TaxRateList, NoDetail,
           UserTagVariant, UserTagVariantUpdate, UserTagVariantForm, UserTagVariantService,
           zNewUserTagVariant, UserTagVariantList
<1>3. ChangeCarried("register") /\ ChangeCarried("stocking") /\ ChangeCarried("terminal")
          /\ ChangeCarried("tse")
    BY DEF Table, CashRegister, CashRegisterUpdate, CashRegisterForm, CashRegisterService,
           zNewCashRegister, CashRegisterList, CashRegisterDetail,
           CashRegisterStocking, CashRegisterStockingUpdate, CashRegisterStockingForm,
           cashRegisterStockingDenominationFields, CashRegisterStockingService,
           zNewCashRegisterStocking, CashRegisterStockingList, CashRegisterStockingDetail,
           Terminal, TerminalUpdate, TerminalForm, TerminalService, zNewTerminal,
           TerminalList, TerminalDetail,
           Tse, TseUpdate, UpdateTseForm, TseService, zUpdateTse, TseList, TseDetail
<1>4. ChangeCarried("user") /\ ChangeCarried("role") /\ ChangeCarried("payoutRun")
    BY DEF Table, User, UserUpdate, UserUpdateForm, UserService, zUpdateUserPayload,
           UserList, UserDetail, UserRole, UserRoleUpdate, UserRoleUpdateForm, UserRoleService,
           zUpdateUserRolePrivilegesPayload, UserRoleList, UserRoleDetail,
           PayoutRun, PayoutRunList, NoDetail
<1>5. ChangeCarried("event")
    <2> DEFINE W == EventService.updates \cup LostOf("event")
    <2>1. TabGeneral \subseteq W /\ TabSumUp \subseteq W /\ TabBon \subseteq W
          /\ TabCustomerPortal \subseteq W
        BY DEF TabGeneral, TabSumUp, TabBon, TabCustomerPortal, EventService, zUpdateEvent
    <2>2. TabMail \subseteq W /\ TabMdm \subseteq W /\ TabPayout \subseteq W /\ TabPretix \subseteq W
        BY DEF TabMail, TabMdm, TabPayout, TabPretix, EventService, zUpdateEvent
    <2>3. TabAgb \subseteq W /\ TabFaq \subseteq W /\ TabPrivacyPolicy \subseteq W
        BY DEF TabAgb, TabFaq, TabPrivacyPolicy, EventService, zUpdateEvent
    <2> HIDE DEF W
    <2>4. \A form \in EventUpdates : form.takes = form.shows /\ form.shows \subseteq W
        BY <2>1, <2>2, <2>3 DEF EventUpdates
    <2>5. /\ Table["event"].updates = EventUpdates
          /\ Table["event"].takes.updates = EventService.updates
          /\ ~Table["event"].list.locks /\ ~Table["event"].detail.locks
        BY DEF Table, Event, NoList, NoDetail
    <2> QED  BY <2>4, <2>5 DEF W
<1> QED  BY <1>1, <1>2, <1>3, <1>4, <1>5, KindsAre

-----------------------------------------------------------------------------
(* The form that is on the screen is one of its kind's; what was typed is in it. *)

Matches(p, form) == (p.shown <=> field \in form.shows) /\ (p.taken <=> field \in form.takes)

Faithful(p) ==
    /\ p.at = "create" => Matches(p, Table[kind].create)
    /\ p.at = "update" => \E form \in Table[kind].updates : Matches(p, form)
    /\ p.typed => p.value = "mine" /\ p.shown /\ p.at \in {"create", "update"}

\* Unless the field is known to be lost, what was typed is in the body of the request and
\* will be stored, and no value was taken from another field.
TypedIsSent ==
    /\ request.typed /\ request.op = "update" =>
          request.value = "mine" /\ field \in Table[kind].takes.updates
    /\ request.typed /\ request.op = "insert" /\ Complete =>
          request.value = "mine" /\ field \in Table[kind].takes.creates
NothingCrossed ==
    /\ row.value # "other" /\ request.value # "other" /\ page.value # "other"
    /\ \A n \in Nodes : copies[n] # "other"
SavedInv == <<kind, field>> \notin Lost => TypedIsSent /\ NothingCrossed

\* Rendering a page keeps it the form it is, and puts in it what the copy has.
LEMMA RenderedFaithful ==
    ASSUME NEW p, Filled(p), Faithful(p), NEW c \in Values \cup {"absent"}
    PROVE  /\ Faithful(Rendered(p, c))
           /\ Rendered(p, c).value \in {p.value, c}
<1> DEFINE r == Rendered(p, c)
<1>1. /\ r.at = p.at /\ r.shown = p.shown /\ r.taken = p.taken
      /\ \/ r.typed = p.typed /\ r.value = p.value
         \/ ~r.typed /\ r.value = c
         \/ ~r.typed /\ r.value = "absent" /\ c = "absent"
    BY DEF Rendered, Filled, Pages
<1> HIDE DEF r
<1>2. Faithful(r)
    BY <1>1 DEF Faithful, Matches
<1> QED  BY <1>1, <1>2 DEF r

\* Lists and details show no form.
LEMMA ListFaithful ==
    ASSUME NEW n
    PROVE  /\ Faithful(ListAt(n)) /\ ListAt(n).value = "absent"
           /\ Faithful(DetailAt(n)) /\ DetailAt(n).value = "absent"
BY DEF ListAt, DetailAt, Faithful

\* A form starts as it is described, with nothing typed.
LEMMA FormFaithful ==
    ASSUME NEW n, NEW form
    PROVE  /\ form \in Table[kind].updates => Faithful(FormAt("update", n, form))
           /\ FormAt("update", n, form).value = "absent"
           /\ form = Table[kind].create =>
                 Faithful([FormAt("create", n, form) EXCEPT !.value = "blank"])
           /\ [FormAt("create", n, form) EXCEPT !.value = "blank"].value = "blank"
<1>1. \A at \in {"create", "update"} : LET p == FormAt(at, n, form) IN
          /\ p.at = at /\ p.value = "absent" /\ ~p.typed
          /\ p.shown = (field \in form.shows) /\ p.taken = (field \in form.takes)
          /\ LET q == [p EXCEPT !.value = "blank"] IN
                q.at = at /\ q.value = "blank" /\ q.typed = p.typed
                  /\ q.shown = p.shown /\ q.taken = p.taken
    BY DEF FormAt, ListAt
<1> QED  BY <1>1 DEF Faithful, Matches

\* The behaviour is about one kind and one field.
LEMMA KindStays == [Next]_vars => UNCHANGED <<kind, field>>
BY DEF Next, Browse, Visit, OpenDetail, EditFromList, EditFromDetail, OpenTab, OpenCreate,
       Type, Refetch, Opens, SubmitCreate, SubmitUpdate, ToggleLock, Delete, ChangeRow,
       AcceptInsert, AcceptUpdate, AcceptDelete, Refuse, Answered, OthersSave, OthersDelete,
       vars

\* A page that is described right stays so, as kind and field never change.
LEMMA FaithfulStays ==
    ASSUME UNCHANGED <<kind, field>>, Faithful(page')
    PROVE  Faithful(page)'
BY DEF Faithful, Matches

\* What a page shows is none of another field's, and its form stays the one it is.
LEMMA FaithfulNext ==
    ASSUME TypeInv, Faithful(page), [Next]_vars
    PROVE  Faithful(page)'
<1>0. /\ page.node \in Nodes /\ row.node \in Nodes /\ request.node \in Nodes
      /\ Filled(page) /\ UNCHANGED <<kind, field>>
    BY KindStays DEF TypeInv, AdminTypeOK, Pages, Requests
<1>1. ASSUME NEW p, Filled(p), Faithful(p), Opens(p) PROVE Faithful(page')
    <2>1. copies[p.node] \in Values \cup {"absent"}
        BY <1>1 DEF TypeInv, AdminTypeOK, Filled, Pages
    <2> QED  BY <1>1, <2>1, RenderedFaithful DEF Opens
<1>2. ASSUME NEW n \in Nodes, NEW c \in Values \cup {"absent"}, NEW p, Filled(p), Faithful(p),
             Shows(n, c, p)
      PROVE  Faithful(page')
    BY <1>2, RenderedFaithful DEF Shows
<1>3. CASE \E n \in Nodes : Visit(n)
    <2>1. PICK n \in Nodes : Opens(ListAt(n))
        BY <1>3 DEF Visit
    <2> QED  BY <1>0, <1>1, <2>1, ListPage, ListFaithful, FaithfulStays
<1>4. CASE OpenDetail
    <2>1. PICK n \in Nodes : Opens(DetailAt(n))
        BY <1>0, <1>4 DEF OpenDetail, LinkedNode
    <2> QED  BY <1>0, <1>1, <2>1, ListPage, ListFaithful, FaithfulStays
<1>5. ASSUME NEW form \in Table[kind].updates,
             EditFromList(form) \/ EditFromDetail(form) \/ OpenTab(form)
      PROVE  Faithful(page)'
    <2>1. PICK n \in Nodes : Opens(FormAt("update", n, form))
        BY <1>0, <1>5, TreeAssumption DEF EditFromList, EditFromDetail, OpenTab, LinkedNode
    <2>2. Filled(FormAt("update", n, form)) /\ Faithful(FormAt("update", n, form))
        BY FormPage, FormFaithful
    <2> QED  BY <1>0, <1>1, <2>1, <2>2, FaithfulStays
<1>6. CASE OpenCreate
    <2> DEFINE p == [FormAt("create", page.node, Table[kind].create) EXCEPT !.value = "blank"]
    <2>1. Filled(p) /\ Faithful(p)
        BY <1>0, FormPage, FormFaithful
    <2>2. Opens(p)
        BY <1>6 DEF OpenCreate
    <2> HIDE DEF p
    <2> QED  BY <1>0, <1>1, <2>1, <2>2, FaithfulStays
<1>7. CASE Type
    <2>1. /\ page'.at = page.at /\ page'.shown = page.shown /\ page'.taken = page.taken
          /\ page'.value = "mine" /\ page.shown /\ page.at \in {"create", "update"}
        BY <1>7 DEF Type, TypeInv, AdminTypeOK, Pages
    <2>2. Faithful(page')
        BY <2>1 DEF Faithful, Matches
    <2> QED  BY <1>0, <2>2, FaithfulStays
<1>8. CASE Refetch
    <2>1. PICK c \in {Seen(page.node), "absent"} : Shows(page.node, c, page)
        BY <1>8 DEF Refetch
    <2>2. c \in Values \cup {"absent"}
        BY <1>0, SeenType DEF TypeInv
    <2> QED  BY <1>0, <1>2, <2>1, <2>2, FaithfulStays
<1>9. CASE Answered
    <2> DEFINE after == IF request.leaves THEN ListAt(page.node) ELSE page
    <2>1. Filled(after) /\ Faithful(after)
        BY <1>0, ListPage, ListFaithful
    <2>2. PICK n \in Nodes, c \in Values \cup {"absent"} : Shows(n, c, after)
        <3>1. copies[EventNode] \in Values \cup {"absent"}
            BY TreeAssumption DEF TypeInv, AdminTypeOK
        <3>2. Seen(request.node) \in Values \cup {"absent"}
            BY <1>0, SeenType DEF TypeInv
        <3> QED  BY <1>0, <1>9, <3>1, <3>2, TreeAssumption DEF Answered
    <2> HIDE DEF after
    <2> QED  BY <1>0, <1>2, <2>1, <2>2, FaithfulStays
<1>10. CASE UNCHANGED page
    BY <1>0, <1>10, FaithfulStays
<1>11. \/ Browse \/ Answered \/ UNCHANGED page
    BY DEF Next, SubmitCreate, SubmitUpdate, ToggleLock, Delete, ChangeRow, AcceptInsert,
           AcceptUpdate, AcceptDelete, Refuse, OthersSave, OthersDelete, vars
<1> QED  BY <1>3, <1>4, <1>5, <1>6, <1>7, <1>8, <1>9, <1>10, <1>11 DEF Browse


\* Lost lists the fields that are lost, kind by kind.
LEMMA KeptFields == \A k, f : <<k, f>> \notin Lost => f \notin LostOf(k)
BY DEF Lost, LostOf

\* What is submitted as typed is what was typed, in a field that is stored.
LEMMA TypedNext ==
    ASSUME TypeInv, Faithful(page), <<kind, field>> \notin Lost, TypedIsSent, [Next]_vars
    PROVE  TypedIsSent'
<1>0. /\ UNCHANGED <<kind, field>> /\ kind \in Kinds /\ field \notin LostOf(kind)
      /\ request \in Requests
    BY KindStays, KeptFields DEF TypeInv, AdminTypeOK
<1>1. Complete' = Complete
    BY <1>0 DEF Complete
<1>2. CASE SubmitCreate
    <2> DEFINE value == InBody(Table[kind].sends.inserts,
                               IF page.taken THEN page.value ELSE "blank")
    <2>1. /\ page.at = "create"
          /\ request'.op = "insert" /\ request'.value = value /\ request'.typed = page.typed
        BY <1>2 DEF SubmitCreate, Send
    <2>2. ASSUME page.typed, Complete
          PROVE  value = "mine" /\ field \in Table[kind].takes.creates
        <3>1. page.value = "mine" /\ field \in Table[kind].create.shows
            BY <2>1, <2>2 DEF Faithful, Matches
        <3>2. /\ field \in Table[kind].create.takes /\ field \in Table[kind].takes.creates
              /\ field \in Table[kind].sends.inserts
            BY <1>0, <2>2, <3>1, AllNewCarried DEF NewCarried, Complete
        <3>3. page.taken
            BY <2>1, <3>2 DEF Faithful, Matches
        <3> QED  BY <3>1, <3>2, <3>3 DEF InBody
    <2> QED  BY <1>0, <1>1, <2>1, <2>2 DEF TypedIsSent
<1>3. ASSUME NEW modified, NEW typed, NEW leaves, ChangeRow(modified, typed, leaves),
             typed => modified = "mine" /\ field \in Table[kind].takes.updates
      PROVE  TypedIsSent'
    <2>1. /\ request'.op = "update" /\ request'.typed = typed
          /\ request'.value = InBody(Table[kind].sends.updates, modified)
        BY <1>3 DEF ChangeRow, Send
    <2>2. typed => request'.value = "mine"
        BY <1>0, <1>3, <2>1, AllSent DEF InBody, Sent
    <2> QED  BY <1>0, <1>3, <2>1, <2>2 DEF TypedIsSent
<1>4. CASE SubmitUpdate
    <2> DEFINE modified == IF page.taken THEN page.value ELSE copies[page.node]
    <2>1. page.typed => modified = "mine" /\ field \in Table[kind].takes.updates
        <3>1. PICK form \in Table[kind].updates : Matches(page, form)
            BY <1>4 DEF SubmitUpdate, Faithful
        <3>2. page.typed => page.value = "mine" /\ field \in form.shows
            BY <3>1 DEF Faithful, Matches
        <3>3. field \in form.shows => field \in form.takes /\ field \in Table[kind].takes.updates
            BY <1>0, AllChangeCarried DEF ChangeCarried
        <3> QED  BY <3>1, <3>2, <3>3 DEF Matches
    <2>2. ChangeRow(modified, page.typed, kind # "event")
        BY <1>4 DEF SubmitUpdate
    <2> HIDE DEF modified
    <2> QED  BY <1>3, <2>1, <2>2
<1>5. CASE ToggleLock
    <2> DEFINE modified == IF field = "is_locked" THEN "mine" ELSE copies[page.node]
    <2>1. field = "is_locked" => modified = "mine" /\ field \in Table[kind].takes.updates
        BY <1>0, <1>5, AllChangeCarried DEF ToggleLock, ChangeCarried
    <2>2. ChangeRow(modified, field = "is_locked", FALSE)
        BY <1>5 DEF ToggleLock
    <2> HIDE DEF modified
    <2> QED  BY <1>3, <2>1, <2>2
<1>6. CASE Delete
    <2>1. request'.op = "delete"
        BY <1>6 DEF Delete, Send
    <2> QED  BY <2>1 DEF TypedIsSent
<1>7. CASE AcceptInsert \/ AcceptUpdate \/ AcceptDelete \/ Refuse
    <2>1. /\ request'.op = request.op /\ request'.typed = request.typed
          /\ request'.value = request.value
        BY <1>0, <1>7 DEF AcceptInsert, AcceptUpdate, AcceptDelete, Refuse, Settle, Requests
    <2> QED  BY <1>0, <1>1, <2>1 DEF TypedIsSent
<1>8. CASE Answered
    <2>1. request'.op = "none"
        BY <1>8 DEF Answered, NoRequest
    <2> QED  BY <2>1 DEF TypedIsSent
<1>9. CASE UNCHANGED request
    BY <1>0, <1>1, <1>9 DEF TypedIsSent
<1>10. Browse \/ OthersSave \/ OthersDelete \/ UNCHANGED vars => UNCHANGED request
    BY DEF Browse, Visit, OpenDetail, EditFromList, EditFromDetail, OpenTab, OpenCreate, Type,
           Refetch, Opens, OthersSave, OthersDelete, vars
<1> QED  BY <1>2, <1>4, <1>5, <1>6, <1>7, <1>8, <1>9, <1>10 DEF Next

\* No field gets the value of another one.
LEMMA CrossedNext ==
    ASSUME TypeInv, Faithful(page), <<kind, field>> \notin Lost, NothingCrossed, [Next]_vars
    PROVE  NothingCrossed'
<1>0. /\ page.node \in Nodes /\ row.node \in Nodes /\ request.node \in Nodes
      /\ Filled(page) /\ request \in Requests
      /\ copies \in [Nodes -> Values \cup {"absent"}]
      /\ row \in [node : Nodes, value : Values \cup NoRow]
      /\ ~Crossed
    BY DEF TypeInv, AdminTypeOK, Pages, Requests, Crossed, Lost
<1>1. \A n : Seen(n) # "other"
    BY DEF Seen, NothingCrossed
<1>2. ASSUME NEW p, Filled(p), Faithful(p), p.value # "other", Opens(p) PROVE NothingCrossed'
    <2>1. copies[p.node] \in Values \cup {"absent"} /\ p.node \in Nodes
        BY <1>2 DEF TypeInv, AdminTypeOK, Filled, Pages
    <2>2. page'.value \in {p.value, copies[p.node]}
        BY <1>2, <2>1, RenderedFaithful DEF Opens
    <2> QED  BY <1>2, <2>1, <2>2 DEF Opens, NothingCrossed
<1>3. ASSUME NEW n \in Nodes, NEW c \in Values \cup {"absent"}, c # "other", NEW p, Filled(p),
             Faithful(p), p.value # "other", Shows(n, c, p), UNCHANGED row, request'.value # "other"
      PROVE  NothingCrossed'
    <2>1. page'.value \in {p.value, c}
        BY <1>3, RenderedFaithful DEF Shows
    <2>2. \A m \in Nodes : copies'[m] \in {copies[m], c}
        BY <1>0, <1>3 DEF Shows
    <2> QED  BY <1>3, <2>1, <2>2 DEF NothingCrossed
<1>4. CASE (\E n \in Nodes : Visit(n)) \/ OpenDetail
    <2>1. PICK n \in Nodes : Opens(ListAt(n)) \/ Opens(DetailAt(n))
        BY <1>0, <1>4, TreeAssumption DEF Visit, OpenDetail, LinkedNode
    <2>2. ListAt(n).value # "other" /\ DetailAt(n).value # "other"
        BY ListFaithful
    <2> QED  BY <1>2, <2>1, <2>2, ListPage, ListFaithful
<1>5. ASSUME NEW form \in Table[kind].updates,
             EditFromList(form) \/ EditFromDetail(form) \/ OpenTab(form)
      PROVE  NothingCrossed'
    <2>1. PICK n \in Nodes : Opens(FormAt("update", n, form))
        BY <1>0, <1>5, TreeAssumption DEF EditFromList, EditFromDetail, OpenTab, LinkedNode
    <2>2. /\ Filled(FormAt("update", n, form)) /\ Faithful(FormAt("update", n, form))
          /\ FormAt("update", n, form).value = "absent"
        <3>1. Filled(FormAt("update", n, form))
            BY FormPage
        <3>2. Faithful(FormAt("update", n, form)) /\ FormAt("update", n, form).value = "absent"
            BY FormFaithful
        <3> QED  BY <3>1, <3>2
    <2> QED  BY <1>2, <2>1, <2>2
<1>6. CASE OpenCreate
    <2> DEFINE p == [FormAt("create", page.node, Table[kind].create) EXCEPT !.value = "blank"]
    <2>1. Filled(p) /\ Faithful(p) /\ p.value = "blank"
        <3>1. Filled(p)
            BY <1>0, FormPage
        <3>2. Faithful(p) /\ p.value = "blank"
            BY FormFaithful
        <3> QED  BY <3>1, <3>2
    <2>2. Opens(p)
        BY <1>6 DEF OpenCreate
    <2> HIDE DEF p
    <2> QED  BY <1>2, <2>1, <2>2
<1>7. CASE Type
    <2>1. page'.value = "mine" /\ UNCHANGED <<row, copies, request>>
        BY <1>7 DEF Type, TypeInv, AdminTypeOK, Pages
    <2> QED  BY <2>1 DEF NothingCrossed
<1>8. CASE Refetch
    <2>1. PICK c \in {Seen(page.node), "absent"} : Shows(page.node, c, page)
        BY <1>8 DEF Refetch
    <2>2. c \in Values \cup {"absent"} /\ c # "other"
        BY <1>0, <1>1, <2>1, SeenType DEF TypeInv
    <2>3. UNCHANGED <<row, request>>
        BY <1>8 DEF Refetch
    <2> QED  BY <1>0, <1>3, <2>1, <2>2, <2>3 DEF NothingCrossed
<1>9. CASE Answered
    <2> DEFINE after == IF request.leaves THEN ListAt(page.node) ELSE page
    <2>1. Filled(after) /\ Faithful(after) /\ after.value # "other"
        BY <1>0, ListPage, ListFaithful DEF NothingCrossed
    <2>2. PICK n \in Nodes, c \in Values \cup {"absent"} : c # "other" /\ Shows(n, c, after)
        <3>1. copies[EventNode] \in Values \cup {"absent"} /\ copies[EventNode] # "other"
            BY <1>0, TreeAssumption DEF NothingCrossed
        <3>2. Seen(request.node) \in Values \cup {"absent"}
            BY <1>0, SeenType DEF TypeInv
        <3> QED  BY <1>0, <1>1, <1>9, <3>1, <3>2, TreeAssumption DEF Answered
    <2>3. UNCHANGED row /\ request'.value # "other"
        BY <1>9 DEF Answered, NoRequest
    <2> HIDE DEF after
    <2> QED  BY <1>3, <2>1, <2>2, <2>3
<1>10. CASE SubmitCreate \/ Delete
    <2>1. /\ request'.value # "other" /\ UNCHANGED <<row, page>>
          /\ \A n \in Nodes : copies'[n] \in {copies[n], "absent"}
        BY <1>0, <1>10 DEF SubmitCreate, Delete, Send, InBody, NothingCrossed
    <2> QED  BY <2>1 DEF NothingCrossed
<1>11. ASSUME NEW modified, NEW typed, NEW leaves, ChangeRow(modified, typed, leaves),
              modified # "other"
       PROVE  NothingCrossed'
    <2>1. /\ request'.value # "other" /\ UNCHANGED <<row, page>>
          /\ \A n \in Nodes : copies'[n] \in {copies[n], modified}
        BY <1>0, <1>11 DEF ChangeRow, Send, InBody
    <2> QED  BY <1>11, <2>1 DEF NothingCrossed
<1>12. CASE SubmitUpdate
    <2> DEFINE modified == IF page.taken THEN page.value ELSE copies[page.node]
    <2>1. modified # "other"
        BY <1>0 DEF NothingCrossed
    <2>2. ChangeRow(modified, page.typed, kind # "event")
        BY <1>12 DEF SubmitUpdate
    <2> HIDE DEF modified
    <2> QED  BY <1>11, <2>1, <2>2
<1>13. CASE ToggleLock
    <2> DEFINE modified == IF field = "is_locked" THEN "mine" ELSE copies[page.node]
    <2>1. modified # "other"
        BY <1>0 DEF NothingCrossed
    <2>2. ChangeRow(modified, field = "is_locked", FALSE)
        BY <1>13 DEF ToggleLock
    <2> HIDE DEF modified
    <2> QED  BY <1>11, <2>1, <2>2
<1>14. CASE AcceptInsert \/ AcceptUpdate \/ AcceptDelete \/ Refuse
    <2>1. request'.value = request.value /\ UNCHANGED <<copies, page>>
        BY <1>0, <1>14 DEF AcceptInsert, AcceptUpdate, AcceptDelete, Refuse, Settle, Requests
    <2>2. row'.value # "other"
        BY <1>0, <1>14 DEF AcceptInsert, AcceptUpdate, AcceptDelete, Refuse, Written, NothingCrossed
    <2> QED  BY <2>1, <2>2 DEF NothingCrossed
<1>15. CASE OthersSave \/ OthersDelete
    <2>1. row'.value # "other" /\ UNCHANGED <<copies, page, request>>
        BY <1>0, <1>15 DEF OthersSave, OthersDelete
    <2> QED  BY <2>1 DEF NothingCrossed
<1>16. CASE UNCHANGED vars
    BY <1>16 DEF vars, NothingCrossed
<1> QED
    BY <1>4, <1>5, <1>6, <1>7, <1>8, <1>9, <1>10, <1>12, <1>13, <1>14, <1>15, <1>16
       DEF Next, Browse

\* Nothing is typed or sent at first.
LEMMA SavedInit == Init => Faithful(page) /\ SavedInv
<1> SUFFICES ASSUME Init PROVE Faithful(page) /\ SavedInv
    OBVIOUS
<1>1. Faithful(page) /\ page.value = "absent"
    BY ListFaithful DEF Init
<1>2. row.value # "other" /\ \A n \in Nodes : copies[n] # "other"
    BY DEF Init
<1> QED  BY <1>1, <1>2 DEF Init, NoRequest, SavedInv, TypedIsSent, NothingCrossed

\* Every step keeps what is typed, sent and held apart.
LEMMA SavedNext == TypeInv /\ Faithful(page) /\ SavedInv /\ [Next]_vars => (Faithful(page) /\ SavedInv)'
<1> SUFFICES ASSUME TypeInv, Faithful(page), SavedInv, [Next]_vars
             PROVE  Faithful(page)' /\ SavedInv'
    OBVIOUS
<1>1. Faithful(page)'
    BY FaithfulNext
<1>2. SavedInv'
    BY KindStays, TypedNext, CrossedNext DEF SavedInv
<1> QED  BY <1>1, <1>2

\* A form that the server accepts puts in the row what was typed.
LEMMA AcceptedIsTyped ==
    ASSUME TypeInv, SavedInv, <<kind, field>> \notin Lost,
           AcceptUpdate \/ (AcceptInsert /\ row.value = "absent")
    PROVE  /\ request.typed => row'.value = "mine"
           /\ row'.value \in Values \ {"other"}
<1>0. /\ TypedIsSent /\ NothingCrossed /\ ~Crossed /\ kind \in Kinds
      /\ row \in [node : Nodes, value : Values \cup NoRow]
    BY DEF SavedInv, Crossed, Lost, TypeInv, AdminTypeOK
<1>1. CASE AcceptUpdate
    <2>1. /\ request.op = "update" /\ row.value \in Values
          /\ row'.value = IF field \in Table[kind].takes.updates THEN request.value ELSE row.value
        BY <1>0, <1>1 DEF AcceptUpdate, Written
    <2>2. field \in Table[kind].takes.updates => request.value \in Values
        BY <1>0, <2>1, AllSent DEF Sent, TypeInv, BodyHolds
    <2> QED  BY <1>0, <2>1, <2>2 DEF TypedIsSent, NothingCrossed
<1>2. CASE AcceptInsert /\ row.value = "absent"
    <2>1. /\ request.op = "insert" /\ Complete
          /\ row'.value = IF field \in Table[kind].takes.creates THEN request.value ELSE "blank"
        BY <1>0, <1>2 DEF AcceptInsert, Written
    <2>2. field \in Table[kind].takes.creates => request.value \in Values
        BY <2>1 DEF Complete, TypeInv, BodyHolds
    <2> QED  BY <1>0, <2>1, <2>2 DEF TypedIsSent, NothingCrossed, Values
<1> QED  BY <1>1, <1>2

\* What an administrator types in a form is what the row holds once the server has accepted
\* the form, for every kind and every field that is not known to be lost.
THEOREM EntriesAreSaved == Spec => SavedAsEntered
<1>1. TypeInv /\ Faithful(page) /\ SavedInv /\ [Next]_vars =>
          (TypeInv /\ Faithful(page) /\ SavedInv)'
    BY TypeNext, SavedNext
<1>2. TypeInv /\ SavedInv /\ [Next]_vars =>
          [(/\ <<kind, field>> \notin Lost
            /\ \/ AcceptUpdate
               \/ (AcceptInsert /\ row.value = "absent"))
           => /\ request.typed => row'.value = "mine"
              /\ row'.value \in Values \ {"other"}]_vars
    BY AcceptedIsTyped
<1> QED  BY TypeInit, SavedInit, <1>1, <1>2, PTL DEF Spec, SavedAsEntered

=============================================================================
