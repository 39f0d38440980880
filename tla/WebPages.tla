------------------------------- MODULE WebPages -------------------------------
(***************************************************************************)
(* The pages of the administration site that do more than edit a row: what *)
(* each one reads, which of it decides about the page, and which           *)
(* operations it offers, to whom, for which rows, and what it says and     *)
(* does afterwards. WebService says what the service does with the calls,  *)
(* WebViews is the machine that runs one of these pages; the pages that    *)
(* create and edit rows are in AdminTables.                                *)
(***************************************************************************)
EXTENDS TLC

(***************************************************************************)
(* A page: the privileges its guard asks (any of them), the query it waits *)
(* for, the others it shows, the marks that the row it is about may have,  *)
(* what it does when that row cannot be read ("spins": it shows that it is *)
(* loading; "leaves"; "alert": it says so; "blank": it shows an empty      *)
(* page), and its offers. An offer: the marks of the row that the button   *)
(* needs and those that bar it, for whom it is there, whether it goes      *)
(* through the endpoints generated for RTK Query ("rtk") or through a      *)
(* collection ("sdk"), what the user is told ("anyway" is a success        *)
(* whatever the service says), which collections the handler fetches again *)
(* and whether also after a failure, and whether it leaves the page.       *)
(***************************************************************************)
APage == [asks |-> {}, main |-> "nothing", shows |-> {}, rows |-> {{}},
          missing |-> "blank", offers |-> <<>>]

Offer == [needs |-> {}, bars |-> {}, asks |-> {}, via |-> "rtk", tells |-> "outcome",
          after |-> {}, always |-> FALSE, leaves |-> FALSE]

Admin == {"node_administration"}

\* The form of an operation of the API: it leaves after a success and only logs
\* a failure.
ChangeLayout == [Offer EXCEPT !.tells = "nothing", !.leaves = TRUE]

\* A delete through a collection: its client never throws, so the page leaves
\* whatever the service said.
CollectionDelete(own) ==
    [Offer EXCEPT !.via = "sdk", !.tells = "nothing", !.after = own,
                  !.always = TRUE, !.leaves = TRUE]

\* A mutated form: everybody has the actions.
DetailLayout_Open(offers) == offers

\* What is among the actions of a page is there for administrators only.
DetailLayout(offers) == [o \in DOMAIN offers |-> [offers[o] EXCEPT !.asks = Admin]]

-----------------------------------------------------------------------------
(* Payout runs.  A run is settled when it is done or revoked, and exported *)
(* once a SEPA file was made of it.                                         *)

PayoutRunShown ==
    [APage EXCEPT !.main = "payout-runs", !.shows = {"users", "payout-runs/payouts"},
                  !.rows = SUBSET {"exported", "settled"}, !.missing = "spins"]

PayoutRunHandlers ==
    [o \in {"setPayoutRunAsDone", "revokePayoutRun"} |-> [Offer EXCEPT !.after = {"payout-runs"}]]
    @@ [o \in {"payoutRunCsvExport", "previousPayoutRunSepaXml"} |-> [Offer EXCEPT !.tells = "failure"]]

DownloadSepaXMLModal == [Offer EXCEPT !.tells = "failure", !.after = {"payout-runs"}]

PayoutRunDetail ==
    LET Handlers == PayoutRunHandlers @@ ("payoutRunSepaXml" :> DownloadSepaXMLModal)
        Unsettled == {"setPayoutRunAsDone", "revokePayoutRun", "payoutRunSepaXml"}
    IN  [PayoutRunShown EXCEPT !.offers = DetailLayout(
            [o \in DOMAIN Handlers |->
                [Handlers[o] EXCEPT !.bars = IF o \in Unsettled THEN {"settled"} ELSE {},
                                    !.needs = IF o = "previousPayoutRunSepaXml" THEN {"exported"} ELSE {}]])]

PendingPayoutDetail == {"pendingPayoutDetail"}

-----------------------------------------------------------------------------
(* Customers and accounts.                                                  *)

OrderTable == {"orders", "users", "tills"}

\* The alert offers to allow the payout to everyone, the actions of the page
\* only to who may manage payouts; neither unwraps the answer.
AllowPayoutAlert == [Offer EXCEPT !.needs = {"prevented"}, !.tells = "nothing"]

EditAccountVoucherAmountModal ==
    [Offer EXCEPT !.tells = "failure"]

CustomerDetail ==
    [asks |-> Admin, main |-> "getCustomer", shows |-> OrderTable, rows |-> {{}, {"prevented"}, {"scheduled"}},
         missing |-> "leaves",
         offers |->
            [disableAccount |-> Offer,
             updateAccountComment |-> [Offer EXCEPT !.tells = "nothing"],
             preventCustomerPayout |->
                [Offer EXCEPT !.bars = {"prevented", "scheduled"}, !.asks = Admin, !.tells = "nothing"],
             allowCustomerPayout |-> AllowPayoutAlert,
             updateVoucherAmount |-> EditAccountVoucherAmountModal]]

TagPinAutocomplete == [Offer EXCEPT !.tells = "nothing"]

CustomerTagSwap ==
    [APage EXCEPT !.offers = [findUserTags |-> TagPinAutocomplete, switchCustomerTag |-> Offer]]

-----------------------------------------------------------------------------
(* Orders.  Only a sale paid by wristband can be cancelled, and only once.  *)

Orders == {{}, {"sale"}, {"sale", "cash"}, {"sale", "cancelled"}}

CashRegisterCell == {"cash-registers"}

\* The buttons are there for every order whose type is "sale", cancelled or
\* not; a failure is swallowed and left to the error middleware.
OrderDetail ==
    [APage EXCEPT !.main = "getOrder", !.shows = {"tills", "users"} \union CashRegisterCell,
                  !.rows = Orders, !.missing = "leaves",
                  !.offers = DetailLayout([cancelOrder |->
                     [Offer EXCEPT !.needs = {"sale"}, !.tells = "success"]])]

LineItemEdit == [Offer EXCEPT !.tells = "success", !.leaves = TRUE]

SaleEdit ==
    [APage EXCEPT !.asks = Admin, !.main = "getOrder", !.shows = {"products"}, !.rows = Orders,
                  !.missing = "leaves", !.offers = [editOrder |-> LineItemEdit]]

-----------------------------------------------------------------------------
(* Cashiers, their shifts and their drawers.  A cashier has no drawer, or   *)
(* one, with or without being logged in at a terminal.                      *)

CashierShiftStatsOverview == {"getCashierShiftStats", "users", "tills"}

CashierShiftTable == {"cashier-shifts", "users", "cash-registers"}

UserSelect == {"users"}

\* Without a balance of the drawer there is no form; that the cashier is still
\* logged in is a warning above it.
CashierCloseOut ==
    [APage EXCEPT !.main = "users", !.rows = {{}, {"drawer"}, {"drawer", "terminal"}}, !.missing = "spins",
                  !.shows = {"terminals"} \union UserSelect \union CashierShiftStatsOverview,
                  !.offers = [closeOutCashier |->
                     [Offer EXCEPT !.needs = {"drawer"}, !.tells = "nothing",
                                   !.after = {"users"}, !.leaves = TRUE]]]

CashierShiftDetail ==
    [APage EXCEPT !.main = "cashier-shifts", !.missing = "spins",
                  !.shows = {"users"} \union CashRegisterCell \union CashierShiftStatsOverview]

\* A drawer that is held is used: its shift begins with an order.
Registers == {{}, {"used"}, {"held", "used"}}

CashRegisterTransfer ==
    [APage EXCEPT !.asks = Admin, !.main = "cash-registers", !.rows = Registers, !.missing = "spins",
                  !.shows = UserSelect,
                  !.offers = [transferRegister |->
                     [Offer EXCEPT !.needs = {"held"}, !.tells = "nothing",
                                   !.after = {"cash-registers"}, !.leaves = TRUE]]]

TransactionTable == {"transactions", "users", "tills"}

CashRegisterDetail ==
    [APage EXCEPT !.main = "cash-registers", !.rows = Registers, !.missing = "spins",
                  !.shows = {"tills", "users"} \union CashierShiftTable \union TransactionTable,
                  !.offers = DetailLayout([deleteRegister |-> CollectionDelete({"cash-registers"})])]

TransactionDetail ==
    [APage EXCEPT !.main = "transactions", !.shows = {"system-accounts", "users"}, !.missing = "leaves"]

-----------------------------------------------------------------------------
(* Users and their roles.                                                   *)

UserCashierSection == {"cash-registers"} \union CashierShiftTable

UserRoleAssignmentsSection == {"users/role-assignments"}

\* A user is used once there is an order, a shift or a log of theirs.
UserDetail ==
    [APage EXCEPT !.main = "users", !.rows = {{}, {"used"}}, !.missing = "leaves",
                  !.shows = {"getUserVoucherGrantStats", "terminals"}
                            \union UserRoleAssignmentsSection \union UserCashierSection,
                  !.offers = DetailLayout([deleteUser |-> CollectionDelete({"users"})])]

UserPasswordChange == [APage EXCEPT !.asks = Admin, !.offers = [changeUserPassword |-> ChangeLayout]]

\* However the roles were changed, the service is sent the whole list, and the
\* assignments of the user are fetched again with the collection itself.
UserToRoleCollection ==
    [Offer EXCEPT !.via = "sdk", !.tells = "nothing", !.always = TRUE,
                  !.after = {"user-to-roles", "users/role-assignments"}]

\* One may choose among all roles, also those that one may not assign.
RoleSelect == {{}, {"unassignable"}}

UserToRoleList ==
    [APage EXCEPT !.main = "user-to-roles", !.rows = RoleSelect, !.shows = {"users", "user-roles"},
                  !.offers = [updateUserToRoles |-> [UserToRoleCollection EXCEPT !.asks = Admin]]]

UserToRoleUpdate ==
    [APage EXCEPT !.asks = Admin, !.main = "user-to-roles", !.rows = RoleSelect,
                  !.shows = {"user-roles"} \union UserSelect \union UserRoleAssignmentsSection,
                  !.offers = [updateUserToRoles |-> [UserToRoleCollection EXCEPT !.leaves = TRUE]]]

-----------------------------------------------------------------------------
(* Wristbands.                                                              *)

UserTagVariantSelect == {"user-tag-variants"}

UserTagsExportDialogContent == UserTagVariantSelect

FindUserTags ==
    [APage EXCEPT !.asks = Admin, !.shows = UserTagsExportDialogContent,
                  !.offers = [o \in {"findUserTags", "userTagsCsvExport"} |-> [Offer EXCEPT !.tells = "failure"]]]

\* There is no form before the secrets are read, and an alert if they cannot be.
UserTagCreateSingle ==
    [APage EXCEPT !.asks = Admin, !.main = "listUserTagSecrets", !.missing = "alert",
                  !.shows = UserTagVariantSelect,
                  !.offers = [createUserTags |-> [Offer EXCEPT !.leaves = TRUE]]]

TagsForm ==
    [APage EXCEPT !.asks = Admin, !.main = "listUserTagSecrets", !.missing = "alert",
                  !.shows = UserTagVariantSelect]

UserTagsCreate == [TagsForm EXCEPT !.offers = [createUserTags |-> ChangeLayout]]

UserTagSecretCreate ==
    [APage EXCEPT !.asks = Admin, !.offers = [createUserTagSecret |-> ChangeLayout]]

UserTagDetail ==
    [APage EXCEPT !.asks = Admin, !.main = "getUserTagDetail", !.missing = "leaves", !.shows = {"users"},
                  !.offers = [updateUserTagComment |-> [Offer EXCEPT !.tells = "nothing"]]]

-----------------------------------------------------------------------------
(* Accounts, and the search for customers.                                  *)

AccountDetail == [APage EXCEPT !.main = "getAccount", !.missing = "leaves"]

SystemAccountList == [APage EXCEPT !.asks = Admin, !.main = "system-accounts"]

CustomerSearch == [APage EXCEPT !.offers = [findCustomers |-> [Offer EXCEPT !.tells = "failure"]]]

CustomersWithBlockedPayout == [APage EXCEPT !.main = "getCustomersWithBlockedPayout"]

-----------------------------------------------------------------------------
(* The user's own account.                                                  *)

PasswordChange == [APage EXCEPT !.offers = [changePassword |-> Offer]]

-----------------------------------------------------------------------------
(* Tills and terminals.  A till is at a terminal or not, and used if it has *)
(* orders; a terminal is registered or not, and may be at a till, with a    *)
(* user logged in or not. What was chosen to be put there may be taken.     *)

TillRows == {{}, {"terminal"}, {"used", "terminal"}, {"taken"}}

TillOverview == [APage EXCEPT !.main = "cash-registers", !.shows = {"tills", "terminals", "users"}]

\* The handlers that move a till fetch both collections again, whatever became of it.
Moving ==
    [Offer EXCEPT !.tells = "nothing", !.after = {"tills", "terminals"}, !.always = TRUE]

\* One may choose among the terminals, or tills, that the list says are free. It is
\* read together with the row (a bound).
Choosing == [Moving EXCEPT !.bars = {"taken"}]

TillSwitchTerminal == [shows |-> {"terminals"}, offer |-> Choosing]

TerminalSwitchTill == [shows |-> {"tills"}, offer |-> Choosing]

TillDetail ==
    [APage EXCEPT !.main = "tills", !.rows = TillRows, !.missing = "spins",
                  !.shows = {"till-profiles", "tses"} \union TillSwitchTerminal.shows \union OrderTable,
                  !.offers = DetailLayout(
                     [deleteTill |-> CollectionDelete({"tills"}),
                      removeFromTerminal |-> [Moving EXCEPT !.needs = {"terminal"}],
                      switchTerminal |-> TillSwitchTerminal.offer])]

\* Nobody is logged in at a terminal that has no till (a bound).
TerminalRows == {{}, {"till"}, {"registered"}, {"registered", "taken"}, {"registered", "till"},
                 {"registered", "till", "user"}}

\* Logging out fetches the terminals again, not the till the user was logged in at.
TerminalHandlers ==
    [o \in {"logoutTerminal", "forceLogoutUser"} |-> [Moving EXCEPT !.after = {"terminals"}]]
    @@ ("removeFromTerminal" :> Moving) @@ ("switchTill" :> TerminalSwitchTill.offer)
    @@ ("deleteTerminal" :> CollectionDelete({"terminals"}))

TerminalMap == {"getMdmDeviceLocation"}

TerminalDetail ==
    LET Needs == [deleteTerminal |-> {}, switchTill |-> {}, logoutTerminal |-> {"registered"},
                  removeFromTerminal |-> {"till"}, forceLogoutUser |-> {"user"}]
        Offers == [o \in DOMAIN Needs |-> [TerminalHandlers[o] EXCEPT !.needs = Needs[o]]]
    IN  [APage EXCEPT !.main = "terminals", !.rows = TerminalRows, !.missing = "spins",
                      !.shows = {"tills", "users"} \union TerminalMap \union TerminalSwitchTill.shows,
                      !.offers = ("forceLogoutUser" :> Offers["forceLogoutUser"]) @@ DetailLayout(Offers)]

TerminalOverview == [APage EXCEPT !.main = "terminal-locations"]

\* The answer of the generated client is not looked at: "success" is what it says.
MdmDeviceChangeMapping ==
    [Offer EXCEPT !.via = "sdk", !.tells = "anyway", !.after = {"mdm-devices", "tills", "terminals"},
                  !.always = TRUE, !.asks = Admin]

MdmDeviceList ==
    [APage EXCEPT !.main = "mdm-devices", !.shows = {"terminals"},
                  !.offers = [changeMdmDeviceMapping |-> MdmDeviceChangeMapping]]

-----------------------------------------------------------------------------
(* Receipts. *)

LineItemTable == {"products", "tax-rates"}

OrderBon == [APage EXCEPT !.main = "getOrderBon", !.missing = "alert", !.shows = {"getEventDesign"}]

-----------------------------------------------------------------------------
(* Nodes and events.  What the tree has of a node comes with the tree.      *)

\* A failure would be told if it had the shape that isErrorResp looks for.
NodeConfiguration == [Offer EXCEPT !.tells = "nothing"]

NodeSettings ==
    [APage EXCEPT !.main = "getTreeForCurrentUser", !.rows = {{"logged"}}, !.missing = "spins",
                  !.offers = [updateNode |-> NodeConfiguration,
                              deleteNode |-> [Offer EXCEPT !.leaves = TRUE]]]

NodeCreate ==
    [APage EXCEPT !.asks = Admin, !.main = "getTreeForCurrentUser", !.missing = "spins",
                  !.offers = [createNode |-> [Offer EXCEPT !.tells = "nothing", !.leaves = TRUE]]]

EventCreate ==
    [APage EXCEPT !.asks = Admin, !.main = "getTreeForCurrentUser", !.missing = "spins",
                  !.offers = [createEvent |-> [Offer EXCEPT !.tells = "failure", !.leaves = TRUE]]]

LogoUploadSection == Offer

TabDesign ==
    [APage EXCEPT !.main = "getRestrictedEventSettings", !.missing = "alert", !.shows = {"getEventDesign"},
                  !.offers = [o \in {"updateAppLogo", "updateCustomerLogo", "updateWristbandGuide",
                                     "updateBonLogo"} |-> LogoUploadSection]]

\* Asked whenever the form has all it takes to ask.
PretixProductSelects == [Offer EXCEPT !.tells = "failure"]

TabPretix ==
    [APage EXCEPT !.main = "getRestrictedEventSettings", !.missing = "alert",
                  !.offers = [fetchPretixProducts |-> PretixProductSelects]
                             @@ [o \in {"updateEvent", "checkPretixConnection", "generateWebhookUrl"} |-> Offer]]

BonPreviewPopup == {"getEventDesign"}

TabBon ==
    [APage EXCEPT !.main = "getRestrictedEventSettings", !.missing = "alert", !.shows = BonPreviewPopup,
                  !.offers = [o \in {"generateTestBon", "generateTestRevenueReport"} |->
                                 [Offer EXCEPT !.tells = "failure"]]
                             @@ [updateEvent |-> Offer]]

SumupOauthCallback == [APage EXCEPT !.offers = [configureSumupToken |-> Offer]]

RevenueReports ==
    [APage EXCEPT !.offers = [o \in {"generateRevenueReport", "generatePayoutReport", "generateDailyReport"} |->
                                 [Offer EXCEPT !.tells = "failure"]]]

DsfinvkExport ==
    [APage EXCEPT !.offers = [o \in {"exportDsfinvk", "exportAo146A"} |-> [Offer EXCEPT !.tells = "failure"]]]

MoneyOverview == [APage EXCEPT !.main = "getMoneyOverview", !.missing = "alert"]

CashierRevenueReport == [APage EXCEPT !.main = "getCashierRevenueReport", !.missing = "alert"]

PresaleStatsCard == {"getPresaleStats"}

VoucherStatsCard == {"getVoucherStats", "getFreeTicketStats"}

PaymentMethodStatsCard == {"getPaymentMethodStats"}

TimelineStats == {"getEntryStats", "getTopUpStats", "getPayOutStats"}

EventStats == TimelineStats \union PresaleStatsCard \union VoucherStatsCard \union PaymentMethodStatsCard

IndividualProductStats == {"getProductStats"}

NodeSpecificStats == IndividualProductStats

NodeStats ==
    [APage EXCEPT !.asks = Admin, !.main = "getTreeForCurrentUser", !.missing = "spins",
                  !.shows = EventStats \union NodeSpecificStats]

AuditLogList == [APage EXCEPT !.main = "audit-logs", !.shows = {"users"}]

AuditLogDetail == [APage EXCEPT !.main = "audit-logs", !.shows = {"users"}, !.missing = "spins"]

-----------------------------------------------------------------------------
(* SumUp, and the tickets sold before the event.                            *)

SumUpTransactionList == [APage EXCEPT !.asks = Admin, !.main = "listSumupTransactions"]

SumUpCheckoutList == [APage EXCEPT !.asks = Admin, !.main = "listSumupCheckouts"]

SumUpTransactionDetail ==
    [APage EXCEPT !.asks = Admin, !.main = "listSumupTransactions", !.missing = "spins"]

ExternalTicketList == [APage EXCEPT !.main = "external-tickets"]

\* Each card waits for its own query, and says so if it fails.
EventOverview ==
    [MoneyOverview EXCEPT !.shows = PresaleStatsCard \union {CashierRevenueReport.main}]

PayoutRunList ==
    [APage EXCEPT !.main = "payout-runs", !.shows = {"users"} \union PendingPayoutDetail]

-----------------------------------------------------------------------------
(* The ways to a page. The menu of a node has the entries for which the    *)
(* user has all privileges and the node allows one of the kinds of object; *)
(* parts of the site without an entry are reached by links. The layout of  *)
(* a part and the guards around it send everybody else home, and so does   *)
(* the guard of the page. The pages that edit rows are left out.           *)

nodeMenuEntryDefinitions ==
    LET Entry(privileges, objects) == [privileges |-> privileges, objects |-> objects]
    IN  [users |-> Entry({}, {"user"}), userRoles |-> Entry({}, {"user_role"}),
         userToRoles |-> Entry({}, {}), products |-> Entry({}, {"product"}),
         tickets |-> Entry({}, {"ticket"}), terminals |-> Entry({}, {"terminal"}),
         tills |-> Entry({}, {"till"}), sumup |-> Entry(Admin, {}), customers |-> Entry(Admin, {}),
         userTags |-> Entry(Admin, {"user_tag"}), tses |-> Entry(Admin, {"tse"})]

useCurrentUserHasPrivilege(privileges, powers) == privileges \subseteq powers

useCurrentNodeAllowsObject(objects, forbids) == objects \intersect forbids = {}

isMenuEntryValidAtNode(entry, powers, forbids) ==
    /\ useCurrentUserHasPrivilege(entry.privileges, powers)
    /\ entry.objects # {} => ~(entry.objects \subseteq forbids)

\* What is asked of the user and of the node before a page is shown.
Guard == [privileges |-> {}, objects |-> {}]

TreeObjectGuard(object) == [Guard EXCEPT !.objects = {object}]

PrivilegeGuard(privilege, guard) == [guard EXCEPT !.privileges = {privilege}]

TillPageLayout == TreeObjectGuard("till")
CustomerPageLayout == TreeObjectGuard("account")
TicketPageLayout == TreeObjectGuard("ticket")
UserTagPageLayout == TreeObjectGuard("user_tag")
TerminalPageLayout == Guard
SumUpPageLayout == Guard
EventPageLayout == Guard
NodePageLayout == EventPageLayout

Part(guard, pages) == [guard |-> guard, pages |-> pages]

nodePart ==
    Part(NodePageLayout,
         [NodeOverview |-> EventOverview, NodeStats |-> NodeStats, SumupOauthCallback |-> SumupOauthCallback,
          NodeSettings |-> NodeSettings, TabDesign |-> TabDesign, TabPretix |-> TabPretix, TabBon |-> TabBon,
          AuditLogDetail |-> AuditLogDetail, AuditLogList |-> AuditLogList, RevenueReports |-> RevenueReports,
          SystemAccountList |-> SystemAccountList, AccountDetail |-> AccountDetail,
          PayoutRunList |-> PayoutRunList, PayoutRunDetail |-> PayoutRunDetail, DsfinvkExport |-> DsfinvkExport])
createPart == Part(Guard, [EventCreate |-> EventCreate, NodeCreate |-> NodeCreate])
customersPart ==
    Part(CustomerPageLayout,
         [CustomerSearch |-> CustomerSearch, CustomersWithBlockedPayout |-> CustomersWithBlockedPayout,
          CustomerTagSwap |-> CustomerTagSwap, CustomerDetail |-> CustomerDetail])
sumupPart ==
    Part(SumUpPageLayout,
         [SumUpTransactionList |-> SumUpTransactionList, SumUpCheckoutList |-> SumUpCheckoutList,
          SumUpTransactionDetail |-> SumUpTransactionDetail])
ticketsPart == Part(TicketPageLayout, [ExternalTicketList |-> ExternalTicketList])
tillsPart ==
    Part(TillPageLayout,
         [TillOverview |-> TillOverview, CashRegisterDetail |-> CashRegisterDetail,
          CashRegisterTransfer |-> CashRegisterTransfer, TillDetail |-> TillDetail])
terminalsPart ==
    Part(TerminalPageLayout,
         [TerminalOverview |-> TerminalOverview, MdmDeviceList |-> MdmDeviceList,
          TerminalDetail |-> TerminalDetail])
userTagsPart ==
    Part(PrivilegeGuard("node_administration", UserTagPageLayout),
         [FindUserTags |-> FindUserTags, UserTagCreateSingle |-> UserTagCreateSingle,
          UserTagSecretCreate |-> UserTagSecretCreate, UserTagsCreate |-> UserTagsCreate,
          UserTagDetail |-> UserTagDetail])
ordersPart ==
    Part(Guard, [SaleEdit |-> SaleEdit, OrderBon |-> OrderBon, OrderDetail |-> OrderDetail,
                 TransactionDetail |-> TransactionDetail])
usersPart ==
    Part(Guard, [UserPasswordChange |-> UserPasswordChange, CashierCloseOut |-> CashierCloseOut,
                 CashierShiftDetail |-> CashierShiftDetail, UserDetail |-> UserDetail])
userToRolesPart == Part(Guard, [UserToRoleList |-> UserToRoleList, UserToRoleUpdate |-> UserToRoleUpdate])
profilePart == Part(Guard, [PasswordChange |-> PasswordChange])

router ==
    [node |-> nodePart, create |-> createPart, customers |-> customersPart, sumup |-> sumupPart,
     tickets |-> ticketsPart, tills |-> tillsPart, terminals |-> terminalsPart, userTags |-> userTagsPart,
     orders |-> ordersPart, users |-> usersPart, userToRoles |-> userToRolesPart, profile |-> profilePart]

Passes(guard, page, powers, forbids) ==
    /\ useCurrentUserHasPrivilege(guard.privileges \union page.asks, powers)
    /\ useCurrentNodeAllowsObject(guard.objects, forbids)

\* Whether the user who follows the menu, or a link where there is no entry,
\* comes to see the page.
Reached(part, name, powers, forbids) ==
    /\ part \in DOMAIN nodeMenuEntryDefinitions =>
          isMenuEntryValidAtNode(nodeMenuEntryDefinitions[part], powers, forbids)
    /\ Passes(router[part].guard, router[part].pages[name], powers, forbids)
=============================================================================
