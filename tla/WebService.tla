------------------------------ MODULE WebService ------------------------------
(***************************************************************************)
(* What the service does with what the pages of WebPages ask of it: whom   *)
(* it serves, at which nodes, for which rows, and what it changes.         *)
(***************************************************************************)
EXTENDS WebPages

(***************************************************************************)
(* An operation: groups of privileges, of each of which the user must have *)
(* one; the kind of object that the node must not forbid; the marks that   *)
(* the row needs, those that bar it, and those with which a key of the     *)
(* database forbids what the service tries; the marks that it gains and    *)
(* loses; whether it may fail for what no page shows (what the user has    *)
(* typed, settings of the event, another server); and the facts that it    *)
(* reads (a query) or changes, as far as a page shows them.                *)
(***************************************************************************)
Operation == [asks |-> {}, object |-> {}, needs |-> {}, bars |-> {}, keys |-> {}, gains |-> {}, loses |-> {},
              unseen |-> FALSE, facts |-> {}]

Administration == [Operation EXCEPT !.asks = {Admin}]

\* Operations that are served alike and differ in their facts.
Lists(op, facts) == [q \in DOMAIN facts |-> [op EXCEPT !.facts = facts[q]]]

\* The same operations, which may fail for what no page shows.
Unsure(operations) == [o \in DOMAIN operations |-> [operations[o] EXCEPT !.unseen = TRUE]]

PayoutService ==
    LET Managed == [Operation EXCEPT !.asks = {{"payout_management"}}]
        Settling == [Managed EXCEPT !.bars = {"settled"}, !.gains = {"settled"}]
    IN  [pendingPayoutDetail |-> [Managed EXCEPT !.facts = {"accounts", "payouts"}],
         payoutRunPayouts |-> [Managed EXCEPT !.facts = {"payouts"}],
         payoutRunCsvExport |-> Managed,
         payoutRunSepaXml |-> [Managed EXCEPT !.gains = {"exported"}, !.unseen = TRUE, !.facts = {"payout runs"}],
         previousPayoutRunSepaXml |-> [Managed EXCEPT !.needs = {"exported"}],
         setPayoutRunAsDone |-> [Settling EXCEPT !.facts = {"payout runs", "accounts", "transactions"}],
         revokePayoutRun |-> [Settling EXCEPT !.facts = {"payout runs", "payouts"}]]
        @@ Lists(Administration, [listPayoutRuns |-> {"payout runs"}])

\* A mutated form: that a customer is scheduled does not matter.
CustomerPayouts_Anyway ==
    LET Barred == [Operation EXCEPT !.asks = {{"payout_management", "customer_management"}},
                                    !.facts = {"accounts"}]
    IN  [preventCustomerPayout |-> [Barred EXCEPT !.gains = {"prevented"}],
         allowCustomerPayout |-> [Barred EXCEPT !.loses = {"prevented"}]]

CustomerPayouts ==
    LET Barred == [Operation EXCEPT !.asks = {{"payout_management", "customer_management"}},
                                    !.bars = {"scheduled"}, !.facts = {"accounts"}]
    IN  [preventCustomerPayout |-> [Barred EXCEPT !.gains = {"prevented"}],
         allowCustomerPayout |-> [Barred EXCEPT !.loses = {"prevented"}]]

AccountService ==
    LET Customers == [Operation EXCEPT !.asks = {Admin, {"customer_management"}}, !.facts = {"accounts"}]
        Balances == [Administration EXCEPT !.facts = {"accounts"}]
    IN  [o \in {"findCustomers", "getCustomer", "getCustomersWithBlockedPayout"} |-> Customers]
        @@ [o \in {"disableAccount", "updateAccountComment", "updateVoucherAmount", "getAccount",
                   "listSystemAccounts"} |-> Balances]
        @@ [getMoneyOverview |->
               [Operation EXCEPT !.asks = {Admin \union {"view_node_stats"}}, !.facts = {"accounts"}]]

SwitchTag ==
    Unsure([switchCustomerTag |->
        [Operation EXCEPT !.asks = {{"customer_management"}}, !.facts = {"accounts", "wristbands"}]])

SaleService ==
    LET Undoing == [Operation EXCEPT !.asks = {Admin \union {"can_book_orders"}},
                                     !.needs = {"sale"}, !.bars = {"cash", "cancelled"}, !.gains = {"cancelled"},
                                     !.facts = {"orders", "accounts"}]
    IN  [cancelOrder |-> Undoing] @@ Unsure([editOrder |-> Undoing])

OrderService ==
    Lists(Administration, [listOrders |-> {"orders"}, getOrder |-> {"orders"},
                           listTransactions |-> {"transactions"}])
    @@ Unsure(Lists(Operation, [getOrderBon |-> {}]))

OrderStatsService ==
    LET Counting == [Operation EXCEPT !.asks = {Admin \union {"view_node_stats"}}, !.facts = {"orders"}]
    IN  Unsure([o \in {"getProductStats", "getVoucherStats", "getEntryStats", "getTopUpStats", "getPayOutStats",
                       "getPaymentMethodStats", "getFreeTicketStats"} |-> Counting])
        @@ [getPresaleStats |-> Counting]

CashierService ==
    Lists(Administration, [listCashierShifts |-> {"shifts"}, getCashierShiftStats |-> {"shifts", "orders"},
                           getCashierRevenueReport |-> {"orders"}])
    @@ [closeOutCashier |->
           [Administration EXCEPT !.object = {"user"}, !.needs = {"drawer"}, !.bars = {"terminal"},
                                  !.loses = {"drawer"},
                                  !.facts = {"drawers", "shifts", "registers", "orders", "transactions"}]]

\* The user who holds a drawer refers to it, and so do its orders and shifts.
RegisterService ==
    Lists(Operation, [listCashRegistersAdmin |-> {"registers", "drawers", "registers at tills"}])
    @@ [deleteRegister |-> [Administration EXCEPT !.object = {"till"}, !.keys = {"held", "used"},
                                                  !.gains = {"deleted"}, !.facts = {"registers"}]]

TransferService ==
    Unsure([transferRegister |->
        [Administration EXCEPT !.needs = {"held"}, !.facts = {"registers", "drawers", "registers at tills"}]])

\* The orders and shifts of a user refer to the user.
UserService ==
    Lists(Operation, [listUsers |-> {"users", "drawers", "logins"}, listUserRoles |-> {"roles"},
                      listUserToRole |-> {"role assignments"}])
    @@ Lists(Administration, [getUserVoucherGrantStats |-> {"orders"},
                              listUserRoleAssignments |-> {"role assignments", "roles"}])
    @@ [deleteUser |-> [Administration EXCEPT !.object = {"user"}, !.keys = {"used"},
                                              !.gains = {"deleted"}, !.facts = {"users"}],
        changeUserPassword |-> [Administration EXCEPT !.object = {"user"}]]

\* The roles that a user gets, and those that are taken away, must be among those that the
\* roles of the administrator may assign.
RoleService ==
    [updateUserToRoles |-> [Administration EXCEPT !.bars = {"unassignable"}, !.facts = {"role assignments"}]]
    @@ Unsure([changePassword |-> Operation])

UserTagService ==
    LET Guarded == [Administration EXCEPT !.object = {"user_tag"}]
        Wristbands == [Guarded EXCEPT !.facts = {"wristbands"}]
    IN  [o \in {"listUserTagSecrets", "getUserTagDetail"} |-> Wristbands]
        @@ Unsure([createUserTags |-> Wristbands, createUserTagSecret |-> Wristbands, userTagsCsvExport |-> Guarded])
        @@ [findUserTags |-> Administration,
            updateUserTagComment |-> [Administration EXCEPT !.facts = {"wristbands"}]]
        @@ Lists(Operation, [listUserTagVariants |-> {}])

\* No two tills are at one terminal. The orders of a till refer to it.
TillService ==
    LET Moves == [Administration EXCEPT !.object = {"till"},
                      !.facts = {"tills at terminals", "registers at tills", "logins"}]
    IN  [removeFromTerminal |-> [Moves EXCEPT !.loses = {"terminal", "till", "user"}],
         switchTerminal |-> [Moves EXCEPT !.keys = {"taken"}, !.gains = {"terminal"}],
         deleteTill |-> [Administration EXCEPT !.object = {"till"}, !.keys = {"used"}, !.gains = {"deleted"},
                                               !.facts = {"tills"}]]
        @@ Lists(Operation, [listTills |-> {"tills", "tills at terminals", "registers at tills"},
                             listTillProfiles |-> {}])

\* The user of a terminal is logged out together with its till. A till that is at a
\* terminal refers to it, and is not moved to another without being removed first.
TerminalService ==
    LET Own == [Administration EXCEPT !.object = {"terminal"},
                   !.facts = {"tills at terminals", "registers at tills", "logins"}]
    IN  [switchTill |-> [Own EXCEPT !.bars = {"taken"}, !.gains = {"till"}, !.loses = {"user"}],
         logoutTerminal |-> [Own EXCEPT !.loses = {"registered", "till", "user"}],
         deleteTerminal |-> [Own EXCEPT !.keys = {"till"}, !.gains = {"deleted"}, !.facts = {"terminals"}]]
        @@ Lists(Administration, [listTerminals |-> {"terminals", "tills at terminals", "logins", "devices"}])

ForceLogout ==
    [forceLogoutUser |-> [Administration EXCEPT !.object = {"till"}, !.loses = {"user"},
                                                !.facts = {"logins", "registers at tills"}]]

DeviceService ==
    Unsure(Lists(Administration, [listMdmDevices |-> {"devices"}, getMdmDeviceLocation |-> {},
                                  listTerminalLocations |-> {"devices"}]))
    @@ [changeMdmDeviceMapping |-> [Administration EXCEPT !.object = {"terminal"}, !.facts = {"devices"}]]

TreeService ==
    Lists(Operation, [getTreeForCurrentUser |-> {"tree"}, getEventDesign |-> {"event design"}])
    @@ Lists(Administration, [getRestrictedEventSettings |-> {"event settings"}])
    @@ Unsure(Lists(Administration,
             [updateEvent |-> {"event settings", "tree"}]
             @@ [o \in {"createNode", "updateNode", "createEvent"} |-> {"tree"}]
             @@ [o \in {"updateAppLogo", "updateCustomerLogo", "updateWristbandGuide", "updateBonLogo"} |->
                    {"event design"}]))

\* The audit log of a delete refers to the node that was deleted.
NodeDelete == [deleteNode |-> [Administration EXCEPT !.keys = {"logged"}, !.gains = {"deleted"}, !.facts = {"tree"}]]

ReportService ==
    Unsure(Lists(Administration,
          [o \in {"generateTestBon", "generateTestRevenueReport", "generateRevenueReport", "generateDailyReport",
                  "generatePayoutReport", "checkPretixConnection"} |-> {}]
          @@ [configureSumupToken |-> {"event settings"}]))
    @@ Lists(Administration, [listAuditLogs |-> {"audit log"}])

DsfinvkService == Unsure([o \in {"exportDsfinvk", "exportAo146A"} |-> Administration])

PretixService == Unsure([fetchPretixProducts |-> Operation])

SumUpService ==
    Unsure(Lists(Administration, [o \in {"listSumupCheckouts", "listSumupTransactions"} |-> {"sumup"}]))

TicketService ==
    [o \in {"listExternalTickets", "generateWebhookUrl"} |-> [Administration EXCEPT !.object = {"ticket"}]]

CatalogueService == [o \in {"listProducts", "listTaxRates"} |-> Operation]

TseService == [listTses |-> Administration]

-----------------------------------------------------------------------------
service ==
    PayoutService @@ CustomerPayouts @@ AccountService @@ SwitchTag @@ SaleService @@ OrderService
    @@ OrderStatsService @@ CashierService @@ RegisterService @@ TransferService @@ UserService
    @@ RoleService @@ UserTagService @@ TillService @@ TerminalService @@ ForceLogout @@ DeviceService
    @@ TreeService @@ NodeDelete @@ ReportService @@ DsfinvkService @@ PretixService @@ SumUpService @@ TicketService
    @@ CatalogueService @@ TseService

HasPrivileges(operation, powers) ==
    \A group \in operation.asks : group \intersect powers # {}

AtNode(operation, forbids) == operation.object \intersect forbids = {}

\* Whether the service lets the user do o with the row; what is not there is not found.
Allows(o, row, powers, forbids) ==
    /\ o \in DOMAIN service
    /\ HasPrivileges(service[o], powers)
    /\ AtNode(service[o], forbids)
    /\ service[o].needs \subseteq row
    /\ service[o].bars \intersect row = {}

\* What may become of o: it is "applied"; the service has "refused" it, in its own words;
\* or it is "broken" by an error of the database or of another server.
Verdicts(o, row, powers, forbids) ==
    IF ~Allows(o, row, powers, forbids) THEN {"refused"}
    ELSE IF service[o].keys \intersect row # {} THEN {"broken"}
    ELSE IF service[o].unseen THEN {"applied", "refused", "broken"}
    ELSE {"applied"}

After(o, row) == (row \ service[o].loses) \union service[o].gains

\* What q shows depends on what o changes.
Concerns(o, q) == service[o].facts \intersect service[q].facts # {}
=============================================================================
