----------------------------- MODULE AdminPages -----------------------------
(***************************************************************************)
(* An administrator at the website of the administration: lists, detail    *)
(* pages and forms for the rows of AdminTables. A behaviour is about one   *)
(* kind of row, one field of it and one row, which belongs to a node of    *)
(* the tree. Each node has its own copy of the rows that are seen from     *)
(* there, and everything the pages show and send is read from the copy of  *)
(* the node they are at, however old it is. A change is shown at once and  *)
(* sent to the server; once it is answered the copy is fetched again.      *)
(*                                                                         *)
(* Values stand for what a field holds: "old" at first, "mine" if it was   *)
(* entered here and "theirs" if another administrator or a terminal        *)
(* changed it, "blank" if a new row has nothing for it, "other" if it is   *)
(* taken from another field. "none" is a field that is not in a body.      *)
(*                                                                         *)
(* Bounds: the nodes allow every kind of row; one row; one request of this *)
(* administrator at a time.                                                *)
(***************************************************************************)
EXTENDS AdminTables

CONSTANTS
    Nodes,     \* of the tree, as far as it belongs to an event
    EventNode, \* the node of the event
    Above      \* of a node: the node and all those it is below

ASSUME TreeAssumption ==
    /\ EventNode \in Nodes
    /\ Above \in [Nodes -> SUBSET Nodes]
    /\ \A n \in Nodes : n \in Above[n]

VARIABLES
    kind,      \* the kind of row, and
    field,     \* its field, that the behaviour is about
    row,       \* in the database
    copies,    \* of the row, at each node; "absent" where the row is not listed
    page,      \* the page that is open
    request    \* of this administrator, under way

vars == <<kind, field, row, copies, page, request>>

Values == {"old", "mine", "theirs", "blank", "other"}
NoRow == {"absent", "deleted"}

\* The fields that someone might care for.
Fields(k) ==
    Table[k].create.shows \cup UNION {f.shows : f \in Table[k].updates}
        \cup Table[k].takes.creates \cup Table[k].takes.updates

NoRequest ==
    [op |-> "none", stage |-> "none", node |-> EventNode, value |-> "none",
     typed |-> FALSE, leaves |-> FALSE]

-----------------------------------------------------------------------------
(* The server. *)

\* The lists have the rows of the node and of those above; a list of tills also has
\* those below.
Listed(n) == Above[n] \cup (IF kind = "till" THEN {m \in Nodes : n \in Above[m]} ELSE {})

Seen(n) ==
    IF row.value \notin NoRow /\ row.node \in Listed(n) THEN row.value ELSE "absent"

\* A condition on the node of the row that is changed, asked at node n.
Reaches(where, n) ==
    \/ where = "here" /\ row.node = n
    \/ where = "above" /\ row.node \in Above[n]

\* A mutated form: a payload with a field missing is taken as well.
Complete_Always == TRUE

\* Every field of the payload has to be in the body, not only the one looked at.
Complete == Table[kind].takes.creates \subseteq Table[kind].sends.inserts

\* update_event writes the subject of this message in its place.
Crossed == kind = "event" /\ field = "payout_registered_message"

\* What a field holds once the request has been carried out.
Written(stored, before) ==
    IF field \notin stored THEN before
    ELSE IF Crossed THEN "other" ELSE request.value

-----------------------------------------------------------------------------
(* The pages. *)

ListAt(n) ==
    [at |-> "list", node |-> n, value |-> "absent", typed |-> FALSE,
     shown |-> FALSE, taken |-> FALSE]
DetailAt(n) == [ListAt(n) EXCEPT !.at = "detail"]
FormAt(at, n, form) ==
    [ListAt(n) EXCEPT !.at = at,
                      !.shown = field \in form.shows, !.taken = field \in form.takes]

\* The form of an update is there while its row is, and starts with what the row has when
\* it appears. The settings of the event start again whenever they change.
Rendered(p, c) ==
    IF p.at # "update" THEN p
    ELSE IF c = "absent" THEN [p EXCEPT !.value = "absent", !.typed = FALSE]
    ELSE IF p.value = "absent" \/ (kind = "event" /\ c # copies[p.node])
        THEN [p EXCEPT !.value = c, !.typed = FALSE]
    ELSE p

\* The copy of node n becomes c, and the page shows it if it is at that node.
Shows(n, c, p) ==
    /\ copies' = [copies EXCEPT ![n] = c]
    /\ page' = IF p.node = n THEN Rendered(p, c) ELSE p

LinkedNode(link) == IF link = "own" THEN row.node ELSE page.node

Opens(p) ==
    /\ page' = Rendered(p, copies[p.node])
    /\ UNCHANGED <<kind, field, row, copies, request>>

\* Another list, by the tree at the side or by the back button.
Visit(n) == kind # "event" /\ Opens(ListAt(n))

OpenDetail ==
    /\ page.at = "list"
    /\ copies[page.node] # "absent"
    /\ Table[kind].list.detail # "no"
    /\ Opens(DetailAt(LinkedNode(Table[kind].list.detail)))

EditFromList(form) ==
    /\ page.at = "list"
    /\ copies[page.node] # "absent"
    /\ Table[kind].list.edit # "no"
    /\ Opens(FormAt("update", LinkedNode(Table[kind].list.edit), form))

EditFromDetail(form) ==
    /\ page.at = "detail"
    /\ copies[page.node] # "absent"
    /\ Table[kind].detail.edits
    /\ Opens(FormAt("update", page.node, form))

\* The settings of the event have tabs instead of a list.
OpenTab(form) == kind = "event" /\ Opens(FormAt("update", EventNode, form))

OpenCreate ==
    /\ page.at = "list"
    /\ Table[kind].create # NoForm
    /\ Opens([FormAt("create", page.node, Table[kind].create) EXCEPT !.value = "blank"])

Type ==
    /\ page.at \in {"create", "update"}
    /\ page.value # "absent"
    /\ page.shown
    /\ page' = [page EXCEPT !.value = "mine", !.typed = TRUE]
    /\ UNCHANGED <<kind, field, row, copies, request>>

-----------------------------------------------------------------------------
(* Requests. *)

InBody(fields, value) == IF field \in fields THEN value ELSE "none"

Send(op, value, typed, leaves) ==
    /\ request.op = "none"
    /\ request' = [op |-> op, stage |-> "sent", node |-> page.node, value |-> value,
                   typed |-> typed, leaves |-> leaves]

\* A new row takes from the form what the page names.
SubmitCreate ==
    /\ page.at = "create"
    /\ Send("insert",
            InBody(Table[kind].sends.inserts, IF page.taken THEN page.value ELSE "blank"),
            page.typed, TRUE)
    /\ UNCHANGED <<kind, field, row, copies, page>>

\* The copy is changed in the fields the page names, and sent with all the others as they
\* are in the copy.
ChangeRow(modified, typed, leaves) ==
    /\ copies[page.node] # "absent"
    /\ Send("update", InBody(Table[kind].sends.updates, modified), typed, leaves)
    /\ copies' = IF kind = "event" THEN copies
                 ELSE [copies EXCEPT ![page.node] = modified]
    /\ UNCHANGED <<kind, field, row, page>>

SubmitUpdate ==
    /\ page.at = "update"
    /\ page.value # "absent"
    /\ ChangeRow(IF page.taken THEN page.value ELSE copies[page.node],
                 page.typed, kind # "event")

\* Locking a product or a ticket, without a form.
ToggleLock ==
    /\ \/ page.at = "list" /\ Table[kind].list.locks
       \/ page.at = "detail" /\ Table[kind].detail.locks
    /\ ChangeRow(IF field = "is_locked" THEN "mine" ELSE copies[page.node],
                 field = "is_locked", FALSE)

Delete ==
    /\ copies[page.node] # "absent"
    /\ \/ page.at = "list" /\ Table[kind].list.deletes
       \/ page.at = "detail" /\ Table[kind].detail.deletes
    /\ Send("delete", "none", FALSE, page.at = "detail" /\ Table[kind].detail.leaves)
    /\ copies' = [copies EXCEPT ![page.node] = "absent"]
    /\ UNCHANGED <<kind, field, row, page>>

-----------------------------------------------------------------------------
(* What comes of a request. *)

Settle(stage) == request' = [request EXCEPT !.stage = stage]

\* The first row that is made is the one the behaviour is about.
AcceptInsert ==
    /\ request.op = "insert" /\ request.stage = "sent"
    /\ Complete
    /\ row' = IF row.value # "absent" THEN row
              ELSE [node |-> request.node,
                    value |-> Written(Table[kind].takes.creates, "blank")]
    /\ Settle("accepted")
    /\ UNCHANGED <<kind, field, copies, page>>

AcceptUpdate ==
    /\ request.op = "update" /\ request.stage = "sent"
    /\ row.value \notin NoRow
    /\ Reaches(Table[kind].takes.edits, request.node)
    /\ row' = [row EXCEPT !.value = Written(Table[kind].takes.updates, row.value)]
    /\ Settle("accepted")
    /\ UNCHANGED <<kind, field, copies, page>>

AcceptDelete ==
    /\ request.op = "delete" /\ request.stage = "sent"
    /\ row.value \notin NoRow
    /\ Reaches(Table[kind].takes.deletes, request.node)
    /\ row' = [row EXCEPT !.value = "deleted"]
    /\ Settle("accepted")
    /\ UNCHANGED <<kind, field, copies, page>>

\* By the server for any reason, or because it was not reached.
Refuse ==
    /\ request.stage = "sent"
    /\ Settle("refused")
    /\ UNCHANGED <<kind, field, row, copies, page>>

\* The client does not throw: a refused request of a collection ends like an accepted one.
\* The list is fetched again, where a failure gives an empty list. Only the settings of
\* the event stay on the page, with an error or a success.
Answered ==
    /\ request.stage \in {"accepted", "refused"}
    /\ request' = NoRequest
    /\ LET after == IF request.leaves THEN ListAt(page.node) ELSE page
       IN  IF kind = "event" THEN Shows(EventNode, copies[EventNode], after)
           ELSE \E c \in {Seen(request.node), "absent"} : Shows(request.node, c, after)
    /\ UNCHANGED <<kind, field, row>>

\* The copy of the node that is looked at is fetched when the page is opened and whenever
\* the window gets the focus. While its change is under way it stays as changed.
Refetch ==
    /\ request.op \in {"update", "delete"} /\ request.node = page.node => kind = "event"
    /\ \E c \in {Seen(page.node)} \cup (IF kind = "event" THEN {} ELSE {"absent"}) :
           Shows(page.node, c, page)
    /\ UNCHANGED <<kind, field, row, request>>

-----------------------------------------------------------------------------
(* The others: administrators, and terminals that change a row. *)

OthersSave ==
    /\ row.value \notin NoRow
    /\ field \in Table[kind].takes.updates
    /\ row' = [row EXCEPT !.value = "theirs"]
    /\ UNCHANGED <<kind, field, copies, page, request>>

OthersDelete ==
    /\ row.value \notin NoRow
    /\ Table[kind].sends.deletes
    /\ row' = [row EXCEPT !.value = "deleted"]
    /\ UNCHANGED <<kind, field, copies, page, request>>

-----------------------------------------------------------------------------
Init ==
    /\ kind \in Kinds
    /\ field \in Fields(kind)
    /\ row \in [node : Nodes, value : {"old", "absent"}]
    /\ kind = "event" => row = [node |-> EventNode, value |-> "old"]
    /\ Table[kind].updates = {} => row.value = "absent"
    /\ copies = [n \in Nodes |-> "absent"]
    /\ page \in {ListAt(n) : n \in IF kind = "event" THEN {EventNode} ELSE Nodes}
    /\ request = NoRequest

Browse ==
    \/ \E n \in Nodes : Visit(n)
    \/ OpenDetail
    \/ \E form \in Table[kind].updates :
           EditFromList(form) \/ EditFromDetail(form) \/ OpenTab(form)
    \/ OpenCreate
    \/ Type
    \/ Refetch

Next ==
    \/ Browse
    \/ SubmitCreate \/ SubmitUpdate \/ ToggleLock \/ Delete
    \/ AcceptInsert \/ AcceptUpdate \/ AcceptDelete \/ Refuse
    \/ Answered
    \/ OthersSave \/ OthersDelete

Spec == Init /\ [][Next]_vars

-----------------------------------------------------------------------------
(* Properties. *)

Pages ==
    [at : {"list", "detail", "create", "update"}, node : Nodes,
     value : Values \cup {"absent"}, typed : BOOLEAN, shown : BOOLEAN, taken : BOOLEAN]
Requests ==
    [op : {"none", "insert", "update", "delete"},
     stage : {"none", "sent", "accepted", "refused"}, node : Nodes,
     value : Values \cup {"none"}, typed : BOOLEAN, leaves : BOOLEAN]

\* Every variable has its type. In particular the row never holds "none": what the server
\* writes was in the body.
AdminTypeOK ==
    /\ kind \in Kinds
    /\ field \in Fields(kind)
    /\ row \in [node : Nodes, value : Values \cup NoRow]
    /\ copies \in [Nodes -> Values \cup {"absent"}]
    /\ page \in Pages
    /\ request \in Requests

\* The fields the code is known to lose.
Lost ==
    {<<"user", "user_tag_pin">>, <<"user", "user_tag_uid_hex">>,
     <<"event", "pretix_topup_ids">>, <<"event", "payout_registered_message">>}

\* What the administrator enters in a field of a form is what the row holds once the
\* server has accepted the form, and no accepted form empties a field it does not have:
\* the form, the page, the collection, the payload and the service agree on the fields.
SavedAsEntered ==
    [][(/\ <<kind, field>> \notin Lost
        /\ \/ AcceptUpdate
           \/ AcceptInsert /\ row.value = "absent")
       => /\ request.typed => row'.value = "mine"
          /\ row'.value \in Values \ {"other"}]_vars

\* The kinds whose rows are opened for editing at a node where the server does not find
\* them, if they belong to a node above.
Misdirected == {"register", "layout", "terminal"}

\* A form that shows a row is opened at a node from which the server takes the edit, so
\* that no link leads to a form that can only be refused.
EditsReachTheRow ==
    (/\ page.at = "update" /\ page.value # "absent"
     /\ row.value \notin NoRow
     /\ kind \notin Misdirected)
    => Reaches(Table[kind].takes.edits, page.node)
=============================================================================
