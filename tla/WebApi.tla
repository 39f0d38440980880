------------------------------- MODULE WebApi --------------------------------
(***************************************************************************)
(* How the administration site keeps what it reads. The endpoints that are *)
(* generated for RTK Query carry tags: a change of data invalidates every  *)
(* query that provides one of its tags. The collections keep what the same *)
(* service lists under keys, and a page that changes something names the   *)
(* keys under which to read again.                                         *)
(***************************************************************************)
EXTENDS Sequences, TLC

Endpoints(tags, queries, mutations) ==
    [o \in queries \union mutations |-> [tags |-> tags, query |-> o \in queries]]

-----------------------------------------------------------------------------
(* The endpoints, in the order of the tags of the service.                 *)

products ==
    Endpoints({"products"},
        {"listProducts"},
        {"createProduct", "updateProduct", "deleteProduct"})

users ==
    Endpoints({"users"},
        {"listUsers", "getUserVoucherGrantStats", "listUserRoleAssignments"},
        {"createUser", "updateUser", "deleteUser", "changeUserPassword"})

userRoles ==
    Endpoints({"user-roles"},
        {"listUserRoles"},
        {"createUserRole", "updateUserRole", "deleteUserRole"})

userToRoles ==
    Endpoints({"user-to-roles"},
        {"listUserToRole"},
        {"updateUserToRoles"})

taxRates ==
    Endpoints({"tax-rates"},
        {"listTaxRates"},
        {"createTaxRate", "updateTaxRate", "deleteTaxRate"})

auth ==
    Endpoints({"auth"},
        {},
        {"login", "changePassword", "logout"})

tills ==
    Endpoints({"tills"},
        {"listTills"},
        {"createTill", "updateTill", "deleteTill"})

tillMoves ==
    Endpoints({"terminals", "tills"},
        {},
        {"removeFromTerminal", "switchTerminal"})

tillLayouts ==
    Endpoints({"till-layouts"},
        {"listTillLayouts"},
        {"createTillLayout", "updateTillLayout", "deleteTillLayout"})

tillProfiles ==
    Endpoints({"till-profiles"},
        {"listTillProfiles"},
        {"createTillProfile", "updateTillProfile", "deleteTillProfile"})

tillButtons ==
    Endpoints({"till-buttons"},
        {"listTillButtons"},
        {"createTillButton", "updateTillButton", "deleteTillButton"})

registerStockings ==
    Endpoints({"till-register-stockings"},
        {"listRegisterStockings"},
        {"createRegisterStocking", "updateRegisterStocking",
         "deleteRegisterStocking"})

registers ==
    Endpoints({"till-registers"},
        {"listCashRegistersAdmin"},
        {"createRegister", "transferRegister", "updateRegister",
         "deleteRegister"})

config ==
    Endpoints({"config"},
        {"getPublicConfig"},
        {})

accounts ==
    Endpoints({"accounts"},
        {"listSystemAccounts", "getMoneyOverview", "getAccount"},
        {"disableAccount", "updateBalance", "updateVoucherAmount",
         "updateAccountComment"})

orders ==
    Endpoints({"orders"},
        {"listOrders", "getOrder", "getOrderBon"},
        {"cancelOrder", "editOrder"})

cashiers ==
    Endpoints({"cashiers"},
        {"listCashierShifts", "getCashierShiftStats",
         "getCashierRevenueReport"},
        {"closeOutCashier"})

stats ==
    Endpoints({"stats"},
        {"getProductStats", "getVoucherStats", "getEntryStats",
         "getTopUpStats", "getPayOutStats", "getPaymentMethodStats",
         "getFreeTicketStats"},
        {})

tickets ==
    Endpoints({"tickets"},
        {"listTickets", "listExternalTickets", "getPresaleStats"},
        {"createTicket", "updateTicket", "deleteTicket"})

userTags ==
    Endpoints({"user_tags"},
        {"listUserTagSecrets", "getUserTagDetail"},
        {"createUserTagSecret", "createUserTags", "userTagsCsvExport",
         "findUserTags", "updateUserTagComment"})

userTagVariants ==
    Endpoints({"user_tags"},
        {"listUserTagVariants", "getUserTagVariant"},
        {"createUserTagVariant", "updateUserTagVariant",
         "deleteUserTagVariant"})

tses ==
    Endpoints({"tses"},
        {"listTses"},
        {"createTse", "updateTse"})

payouts ==
    Endpoints({"payouts"},
        {"listPayoutRuns", "pendingPayoutDetail", "payoutRunPayouts"},
        {"createPayoutRun", "payoutRunCsvExport", "payoutRunSepaXml",
         "previousPayoutRunSepaXml", "setPayoutRunAsDone", "revokePayoutRun"})

tree ==
    Endpoints({"tree"},
        {"getTreeForCurrentUser", "getEventDesign",
         "getRestrictedEventSettings"},
        {"createNode", "updateNode", "archiveNode", "createEvent",
         "updateEvent", "updateBonLogo", "updateAppLogo",
         "updateCustomerLogo", "updateWristbandGuide", "deleteNode"})

treeReports ==
    Endpoints({"tree"},
        {"listAuditLogs"},
        {"generateTestBon", "checkPretixConnection", "fetchPretixProducts",
         "generateWebhookUrl", "generateTestRevenueReport",
         "generateRevenueReport", "generateDailyReport",
         "generateTestDailyReport", "generatePayoutReport", "exportDsfinvk",
         "exportAo146A", "configureSumupToken"})

sumup ==
    Endpoints({"sumup"},
        {"listSumupCheckouts", "listSumupTransactions", "getSumupCheckout"},
        {})

customers ==
    Endpoints({"accounts"},
        {"getCustomer", "getCustomersWithBlockedPayout"},
        {"findCustomers", "preventCustomerPayout", "allowCustomerPayout",
         "switchCustomerTag"})

terminals ==
    Endpoints({"terminals"},
        {"listTerminals", "listMdmDevices", "getMdmDeviceLocation",
         "listTerminalLocations"},
        {"createTerminal", "changeMdmDeviceMapping", "updateTerminal",
         "deleteTerminal", "logoutTerminal"})

terminalMoves ==
    Endpoints({"terminals", "tills"},
        {},
        {"switchTill"})

forcedLogouts ==
    Endpoints({"terminals"},
        {},
        {"forceLogoutUser"})

transactions ==
    Endpoints({"transactions"},
        {"listTransactions", "getTransaction"},
        {})

webhooks ==
    Endpoints({"webhooks"},
        {},
        {"triggerWebhook"})

media ==
    Endpoints({"media"},
        {"getBlob"},
        {})
-----------------------------------------------------------------------------
(* What the site changes about them: what only returns a file leaves the   *)
(* cache alone, and another wristband concerns the wristbands, too.        *)

overrides ==
    Endpoints({}, {}, {"generateTestRevenueReport", "generateRevenueReport",
                       "generateTestDailyReport", "generateDailyReport",
                       "generatePayoutReport", "exportDsfinvk", "exportAo146A"})
    @@ Endpoints({"accounts", "user_tags"}, {}, {"switchCustomerTag"})

api ==
    overrides @@ products @@ users @@ userRoles @@ userToRoles @@ taxRates
    @@ auth @@ tills @@ tillMoves @@ tillLayouts @@ tillProfiles
    @@ tillButtons @@ registerStockings @@ registers @@ config @@ accounts
    @@ orders @@ cashiers @@ stats @@ tickets @@ userTags
    @@ userTagVariants @@ tses @@ payouts @@ tree @@ treeReports
    @@ sumup @@ customers @@ terminals @@ terminalMoves @@ forcedLogouts
    @@ transactions @@ webhooks @@ media

\* The queries that o makes RTK Query read again, whether it succeeds or fails.
Invalidates(o, q) ==
    /\ o \in DOMAIN api /\ q \in DOMAIN api
    /\ api[o].tags \intersect api[q].tags # {}

-----------------------------------------------------------------------------
(* The collections. Under which key they keep what they list, without the  *)
(* node; the client gives an empty list for a failed request.              *)

productsCollection ==
    "products" :> [queryKey |-> <<"products">>, queryFn |-> "listProducts"]

usersCollection ==
    "users" :> [queryKey |-> <<"users", "all">>, queryFn |-> "listUsers"]

userRoleAssignmentsCollection ==
    "users/role-assignments" :> [queryKey |-> <<"users", "user", "role-assignments">>,
                                 queryFn |-> "listUserRoleAssignments"]

userRolesCollection ==
    "user-roles" :> [queryKey |-> <<"user-roles">>, queryFn |-> "listUserRoles"]

userToRolesCollection ==
    "user-to-roles" :> [queryKey |-> <<"user-to-roles">>, queryFn |-> "listUserToRole"]

taxRatesCollection ==
    "tax-rates" :> [queryKey |-> <<"tax_rates">>, queryFn |-> "listTaxRates"]

tillsCollection ==
    "tills" :> [queryKey |-> <<"tills">>, queryFn |-> "listTills"]

tillProfilesCollection ==
    "till-profiles" :> [queryKey |-> <<"till_profiles">>, queryFn |-> "listTillProfiles"]

cashRegistersCollection ==
    "cash-registers" :> [queryKey |-> <<"cash-registers">>, queryFn |-> "listCashRegistersAdmin"]

cashierShiftsCollection ==
    "cashier-shifts" :> [queryKey |-> <<"cashier-shifts">>, queryFn |-> "listCashierShifts"]

ordersCollection ==
    "orders" :> [queryKey |-> <<"orders", "filter">>, queryFn |-> "listOrders"]

transactionsCollection ==
    "transactions" :> [queryKey |-> <<"transactions", "filter">>, queryFn |-> "listTransactions"]

systemAccountsCollection ==
    "system-accounts" :> [queryKey |-> <<"system-accounts">>, queryFn |-> "listSystemAccounts"]

payoutRunsCollection ==
    "payout-runs" :> [queryKey |-> <<"payout-runs">>, queryFn |-> "listPayoutRuns"]

payoutRunPayoutsCollection ==
    "payout-runs/payouts" :> [queryKey |-> <<"payout-runs", "run", "payouts">>, queryFn |-> "payoutRunPayouts"]

externalTicketsCollection ==
    "external-tickets" :> [queryKey |-> <<"external-tickets">>, queryFn |-> "listExternalTickets"]

userTagVariantsCollection ==
    "user-tag-variants" :> [queryKey |-> <<"user-tag-variants">>, queryFn |-> "listUserTagVariants"]

tsesCollection ==
    "tses" :> [queryKey |-> <<"tses">>, queryFn |-> "listTses"]

terminalsCollection ==
    "terminals" :> [queryKey |-> <<"terminals">>, queryFn |-> "listTerminals"]

terminalLocationsCollection ==
    "terminal-locations" :> [queryKey |-> <<"terminal-locations">>, queryFn |-> "listTerminalLocations"]

mdmDevicesCollection ==
    "mdm-devices" :> [queryKey |-> <<"mdm-devices">>, queryFn |-> "listMdmDevices"]

auditLogsCollection ==
    "audit-logs" :> [queryKey |-> <<"audit-logs">>, queryFn |-> "listAuditLogs"]

collections ==
    productsCollection @@ usersCollection @@ userRoleAssignmentsCollection
    @@ userRolesCollection @@ userToRolesCollection @@ taxRatesCollection
    @@ tillsCollection @@ tillProfilesCollection @@ cashRegistersCollection
    @@ cashierShiftsCollection @@ ordersCollection @@ transactionsCollection
    @@ systemAccountsCollection @@ payoutRunsCollection @@ payoutRunPayoutsCollection
    @@ externalTicketsCollection @@ userTagVariantsCollection @@ tsesCollection
    @@ terminalsCollection @@ terminalLocationsCollection @@ mdmDevicesCollection
    @@ auditLogsCollection

\* Whether q is kept under the key that starts with the resource.
refetchNodeCollection(resource, q) ==
    /\ q \in DOMAIN collections
    /\ Head(collections[q].queryKey) = resource

\* Reading again what a handler names: a resource, or one collection.
ReadAgain(name, q) == q = name \/ refetchNodeCollection(name, q)

\* The operation of the service that a page asks when it reads q.
QueryOp(q) == IF q \in DOMAIN collections THEN collections[q].queryFn ELSE q
=============================================================================
