----------------------------- MODULE AdminTables -----------------------------
(***************************************************************************)
(* What the administration website knows of each kind of row it edits. A   *)
(* form field passes five hands on its way to the database, each of which  *)
(* names the fields it passes on: the form shows it, the page takes it     *)
(* into the row, the collection puts it in the body of the request, the    *)
(* payload of the API has it, and the service stores it. The lists and the *)
(* detail pages say from which node of the tree a row is opened, and the   *)
(* service from which node it lets itself be told. AdminPages puts these   *)
(* tables to work.                                                         *)
(*                                                                         *)
(*   form      [shows, takes]                                              *)
(*   list      [edit, detail: the node of the link, deletes, locks]        *)
(*   detail    [edits, deletes, leaves: for the list once deleted, locks]  *)
(*   sends     [inserts, updates: the fields of the body, deletes]         *)
(*   takes     [creates, updates: the fields stored,                       *)
(*              edits, deletes: the node it may be done from]              *)
(*                                                                         *)
(* A link is to the "own" node of the row or to the "present" one, or      *)
(* there is "no" link. A service takes a request for a row of the node     *)
(* "here", or also of one "above" it, or "never". The names of the sets    *)
(* that start with z are those of the schemas; the ids are left out.       *)
(***************************************************************************)

NoForm == [shows |-> {}, takes |-> {}]
NoDetail == [edits |-> FALSE, deletes |-> FALSE, leaves |-> FALSE, locks |-> FALSE]
NoList == [edit |-> "no", detail |-> "no", deletes |-> FALSE, locks |-> FALSE]

-----------------------------------------------------------------------------
(* Tills.                                                                  *)

zNewTill ==
    {"name", "description", "active_shift", "active_profile_id", "terminal_id"}
zTill ==
    zNewTill \cup {"z_nr", "active_cash_register_id",
                   "current_cash_register_name",
                   "current_cash_register_balance", "tse_id", "tse_serial"}
TillForm == {"name", "description", "active_profile_id", "terminal_id"}
TillCreate == [shows |-> TillForm, takes |-> TillForm]
TillUpdate == [shows |-> TillForm, takes |-> TillForm \cup {"active_shift"}]
TillList ==
    [edit |-> "own", detail |-> "own", deletes |-> TRUE, locks |-> FALSE]
TillDetail ==
    [edits |-> TRUE, deletes |-> TRUE, leaves |-> TRUE, locks |-> FALSE]
TillCollection == [inserts |-> zTill, updates |-> zTill, deletes |-> TRUE]
TillService ==
    [creates |-> zNewTill, updates |-> zNewTill,
     edits |-> "here", deletes |-> "here"]
Till ==
    [create |-> TillCreate, updates |-> {TillUpdate},
     list |-> TillList, detail |-> TillDetail,
     sends |-> TillCollection, takes |-> TillService]

-----------------------------------------------------------------------------
(* Till profiles.                                                          *)

zNewTillProfile ==
    {"name", "description", "layout_id", "allow_top_up", "allow_cash_out",
     "allow_ticket_sale", "allow_ticket_vouchers", "enable_ssp_payment",
     "enable_cash_payment", "enable_card_payment"}
zTillProfile == zNewTillProfile
TillProfileForm ==
    {"name", "description", "allow_top_up", "allow_cash_out",
     "allow_ticket_sale", "allow_ticket_vouchers", "enable_ssp_payment",
     "enable_cash_payment", "enable_card_payment", "layout_id"}
TillProfileCreate == [shows |-> TillProfileForm, takes |-> TillProfileForm]

\* A mutated form: the update does not name a flag that was added later.
TillProfileUpdate_Forgets ==
    [shows |-> TillProfileForm, takes |-> TillProfileForm \ {"allow_ticket_vouchers"}]

TillProfileUpdate == [shows |-> TillProfileForm, takes |-> TillProfileForm]
TillProfileList ==
    [edit |-> "own", detail |-> "own", deletes |-> TRUE, locks |-> FALSE]
TillProfileDetail ==
    [edits |-> TRUE, deletes |-> TRUE, leaves |-> TRUE, locks |-> FALSE]
TillProfileCollection ==
    [inserts |-> zTillProfile, updates |-> zTillProfile, deletes |-> TRUE]
TillProfileService ==
    [creates |-> zNewTillProfile, updates |-> zNewTillProfile,
     edits |-> "above", deletes |-> "here"]
TillProfile ==
    [create |-> TillProfileCreate, updates |-> {TillProfileUpdate},
     list |-> TillProfileList, detail |-> TillProfileDetail,
     sends |-> TillProfileCollection, takes |-> TillProfileService]

-----------------------------------------------------------------------------
(* Till layouts.                                                           *)

zNewTillLayout == {"name", "description", "button_ids", "ticket_ids"}
zTillLayout == zNewTillLayout
TillLayoutChange == {"name", "description", "button_ids", "ticket_ids"}
TillLayoutCreate == [shows |-> TillLayoutChange, takes |-> TillLayoutChange]
TillLayoutUpdate == [shows |-> TillLayoutChange, takes |-> TillLayoutChange]
TillLayoutList ==
    [edit |-> "present", detail |-> "present", deletes |-> TRUE, locks |-> FALSE]
TillLayoutDetail ==
    [edits |-> TRUE, deletes |-> TRUE, leaves |-> TRUE, locks |-> FALSE]
TillLayoutCollection ==
    [inserts |-> zTillLayout, updates |-> zTillLayout, deletes |-> TRUE]
TillLayoutService ==
    [creates |-> zNewTillLayout, updates |-> zNewTillLayout,
     edits |-> "here", deletes |-> "here"]
TillLayout ==
    [create |-> TillLayoutCreate, updates |-> {TillLayoutUpdate},
     list |-> TillLayoutList, detail |-> TillLayoutDetail,
     sends |-> TillLayoutCollection, takes |-> TillLayoutService]

-----------------------------------------------------------------------------
(* Buttons of the layouts.                                                 *)

zNewTillButton == {"name", "product_ids"}
zTillButton == zNewTillButton \cup {"price"}
TillButtonForm == {"name", "product_ids"}
TillButtonCreate == [shows |-> TillButtonForm, takes |-> TillButtonForm]
TillButtonUpdate == [shows |-> TillButtonForm, takes |-> TillButtonForm]

\* A mutated form: the row is opened where the list is.
TillButtonList_Present ==
    [edit |-> "present", detail |-> "no", deletes |-> TRUE, locks |-> FALSE]

TillButtonList ==
    [edit |-> "own", detail |-> "no", deletes |-> TRUE, locks |-> FALSE]
TillButtonCollection ==
    [inserts |-> zTillButton, updates |-> zTillButton, deletes |-> TRUE]
TillButtonService ==
    [creates |-> zNewTillButton, updates |-> zNewTillButton,
     edits |-> "here", deletes |-> "here"]
TillButton ==
    [create |-> TillButtonCreate, updates |-> {TillButtonUpdate},
     list |-> TillButtonList, detail |-> NoDetail,
     sends |-> TillButtonCollection, takes |-> TillButtonService]

-----------------------------------------------------------------------------
(* Cash registers and their stockings.                                     *)

zNewCashRegister == {"name"}
zCashRegister ==
    zNewCashRegister \cup {"current_cashier_id", "current_till_id", "balance",
                           "account_id"}
CashRegisterForm == {"name"}
CashRegisterCreate == [shows |-> CashRegisterForm, takes |-> CashRegisterForm]
CashRegisterUpdate == [shows |-> CashRegisterForm, takes |-> CashRegisterForm]
CashRegisterList ==
    [edit |-> "present", detail |-> "own", deletes |-> TRUE, locks |-> FALSE]
CashRegisterDetail ==
    [edits |-> TRUE, deletes |-> TRUE, leaves |-> TRUE, locks |-> FALSE]
CashRegisterCollection ==
    [inserts |-> zCashRegister, updates |-> zCashRegister, deletes |-> TRUE]
CashRegisterService ==
    [creates |-> zNewCashRegister, updates |-> zNewCashRegister,
     edits |-> "here", deletes |-> "here"]
CashRegister ==
    [create |-> CashRegisterCreate, updates |-> {CashRegisterUpdate},
     list |-> CashRegisterList, detail |-> CashRegisterDetail,
     sends |-> CashRegisterCollection, takes |-> CashRegisterService]

zNewCashRegisterStocking ==
    {"name", "euro200", "euro100", "euro50", "euro20", "euro10", "euro5",
     "euro2", "euro1", "cent50", "cent20", "cent10", "cent5", "cent2", "cent1",
     "variable_in_euro"}
zCashRegisterStocking == zNewCashRegisterStocking \cup {"total"}
cashRegisterStockingDenominationFields ==
    {"euro200", "euro100", "euro50", "euro20", "euro10", "euro5", "euro2",
     "euro1", "cent50", "cent20", "cent10", "cent5", "cent2", "cent1"}
CashRegisterStockingForm ==
    {"name", "variable_in_euro"} \cup cashRegisterStockingDenominationFields
CashRegisterStockingCreate ==
    [shows |-> CashRegisterStockingForm, takes |-> CashRegisterStockingForm]
CashRegisterStockingUpdate ==
    [shows |-> CashRegisterStockingForm, takes |-> CashRegisterStockingForm]
CashRegisterStockingList ==
    [edit |-> "present", detail |-> "own", deletes |-> TRUE, locks |-> FALSE]
CashRegisterStockingDetail ==
    [edits |-> TRUE, deletes |-> TRUE, leaves |-> TRUE, locks |-> FALSE]
CashRegisterStockingCollection ==
    [inserts |-> zCashRegisterStocking,
     updates |-> zCashRegisterStocking, deletes |-> TRUE]
CashRegisterStockingService ==
    [creates |-> zNewCashRegisterStocking,
     updates |-> zNewCashRegisterStocking,
     edits |-> "above", deletes |-> "here"]
CashRegisterStocking ==
    [create |-> CashRegisterStockingCreate, updates |-> {CashRegisterStockingUpdate},
     list |-> CashRegisterStockingList, detail |-> CashRegisterStockingDetail,
     sends |-> CashRegisterStockingCollection, takes |-> CashRegisterStockingService]

-----------------------------------------------------------------------------
(* Terminals and TSEs.                                                     *)

zNewTerminal == {"name", "description"}
zTerminal ==
    zNewTerminal \cup {"till_id", "session_uuid", "registration_uuid",
                       "active_user_id", "active_user_role_id", "last_seen",
                       "mdm_device_id"}
TerminalForm == {"name", "description"}
TerminalCreate == [shows |-> TerminalForm, takes |-> TerminalForm]
TerminalUpdate == [shows |-> TerminalForm, takes |-> TerminalForm]
TerminalList ==
    [edit |-> "present", detail |-> "present", deletes |-> TRUE, locks |-> FALSE]
TerminalDetail ==
    [edits |-> TRUE, deletes |-> TRUE, leaves |-> TRUE, locks |-> FALSE]
TerminalCollection ==
    [inserts |-> zTerminal, updates |-> zTerminal, deletes |-> TRUE]
TerminalService ==
    [creates |-> zNewTerminal, updates |-> zNewTerminal,
     edits |-> "here", deletes |-> "here"]
Terminal ==
    [create |-> TerminalCreate, updates |-> {TerminalUpdate},
     list |-> TerminalList, detail |-> TerminalDetail,
     sends |-> TerminalCollection, takes |-> TerminalService]

zUpdateTse == {"name", "ws_url", "ws_timeout", "password", "first_operation"}
zNewTse == zUpdateTse \cup {"type", "serial"}
zTse ==
    zNewTse \cup {"status", "hashalgo", "time_format", "public_key",
                  "certificate", "process_data_encoding", "tse_description",
                  "certificate_date"}
TseForm ==
    {"name", "serial", "ws_url", "ws_timeout", "password", "first_operation"}
UpdateTseForm == {"name", "ws_url", "ws_timeout", "password", "first_operation"}
TseCreate == [shows |-> TseForm, takes |-> TseForm \cup {"type"}]
TseUpdate == [shows |-> UpdateTseForm, takes |-> UpdateTseForm]
TseList ==
    [edit |-> "own", detail |-> "present", deletes |-> FALSE, locks |-> FALSE]
TseDetail ==
    [edits |-> TRUE, deletes |-> FALSE, leaves |-> FALSE, locks |-> FALSE]
TseCollection == [inserts |-> zTse, updates |-> zTse, deletes |-> FALSE]
TseService ==
    [creates |-> zNewTse, updates |-> zUpdateTse,
     edits |-> "above", deletes |-> "never"]
Tse ==
    [create |-> TseCreate, updates |-> {TseUpdate},
     list |-> TseList, detail |-> TseDetail,
     sends |-> TseCollection, takes |-> TseService]

-----------------------------------------------------------------------------
(* Products, tickets and tax rates.                                        *)

zNewProduct ==
    {"name", "price", "fixed_price", "price_in_vouchers", "tax_rate_id",
     "user_tag_variant_ids", "is_locked", "is_returnable", "is_deposit",
     "target_account_id"}
zProduct ==
    zNewProduct \cup {"tax_name", "tax_rate", "tax_type", "type",
                      "price_per_voucher"}
ProductForm ==
    {"name", "is_returnable", "is_deposit", "fixed_price", "price",
     "price_in_vouchers", "tax_rate_id", "user_tag_variant_ids"}
ProductCreate ==
    [shows |-> ProductForm, takes |-> ProductForm \cup {"is_locked"}]
ProductUpdate ==
    [shows |-> ProductForm, takes |-> ProductForm \cup {"is_locked"}]
ProductList ==
    [edit |-> "present", detail |-> "present", deletes |-> TRUE, locks |-> TRUE]
ProductDetail ==
    [edits |-> TRUE, deletes |-> TRUE, leaves |-> FALSE, locks |-> TRUE]
ProductCollection ==
    [inserts |-> zProduct, updates |-> zProduct, deletes |-> TRUE]
ProductService ==
    [creates |-> zNewProduct, updates |-> zNewProduct,
     edits |-> "above", deletes |-> "above"]
Product ==
    [create |-> ProductCreate, updates |-> {ProductUpdate},
     list |-> ProductList, detail |-> ProductDetail,
     sends |-> ProductCollection, takes |-> ProductService]

zNewTicket ==
    {"name", "price", "tax_rate_id", "user_tag_variant_ids", "is_locked",
     "initial_top_up_amount"}
zTicket == zNewTicket \cup {"tax_name", "tax_rate", "total_price"}
TicketForm ==
    {"name", "price", "initial_top_up_amount", "tax_rate_id",
     "user_tag_variant_ids"}
TicketCreate == [shows |-> TicketForm, takes |-> TicketForm \cup {"is_locked"}]
TicketUpdate == [shows |-> TicketForm, takes |-> TicketForm \cup {"is_locked"}]
TicketList ==
    [edit |-> "present", detail |-> "present", deletes |-> TRUE, locks |-> TRUE]
TicketDetail ==
    [edits |-> TRUE, deletes |-> TRUE, leaves |-> TRUE, locks |-> TRUE]
TicketCollection == [inserts |-> zTicket, updates |-> zTicket, deletes |-> TRUE]
TicketService ==
    [creates |-> zNewTicket, updates |-> zNewTicket,
     edits |-> "above", deletes |-> "above"]
Ticket ==
    [create |-> TicketCreate, updates |-> {TicketUpdate},
     list |-> TicketList, detail |-> TicketDetail,
     sends |-> TicketCollection, takes |-> TicketService]

zNewTaxRate == {"name", "rate", "description", "tax_type"}
zTaxRate == zNewTaxRate
TaxRateForm == {"name", "rate", "description", "tax_type"}
TaxRateCreate == [shows |-> TaxRateForm, takes |-> TaxRateForm]
TaxRateUpdate == [shows |-> TaxRateForm, takes |-> TaxRateForm]
TaxRateList ==
    [edit |-> "present", detail |-> "no", deletes |-> TRUE, locks |-> FALSE]
TaxRateCollection ==
    [inserts |-> zTaxRate, updates |-> zTaxRate, deletes |-> TRUE]
TaxRateService ==
    [creates |-> zNewTaxRate, updates |-> zNewTaxRate,
     edits |-> "above", deletes |-> "above"]
TaxRate ==
    [create |-> TaxRateCreate, updates |-> {TaxRateUpdate},
     list |-> TaxRateList, detail |-> NoDetail,
     sends |-> TaxRateCollection, takes |-> TaxRateService]

-----------------------------------------------------------------------------
(* Variants of wristbands.                                                 *)

zNewUserTagVariant == {"variant_name", "description", "priority"}
zUserTagVariant == zNewUserTagVariant
UserTagVariantForm == {"variant_name", "description", "priority"}
UserTagVariantCreate ==
    [shows |-> UserTagVariantForm, takes |-> UserTagVariantForm]
UserTagVariantUpdate ==
    [shows |-> UserTagVariantForm, takes |-> UserTagVariantForm]
UserTagVariantList ==
    [edit |-> "present", detail |-> "no", deletes |-> TRUE, locks |-> FALSE]
UserTagVariantCollection ==
    [inserts |-> zUserTagVariant, updates |-> zUserTagVariant, deletes |-> TRUE]
UserTagVariantService ==
    [creates |-> zNewUserTagVariant, updates |-> zNewUserTagVariant,
     edits |-> "above", deletes |-> "above"]
UserTagVariant ==
    [create |-> UserTagVariantCreate, updates |-> {UserTagVariantUpdate},
     list |-> UserTagVariantList, detail |-> NoDetail,
     sends |-> UserTagVariantCollection, takes |-> UserTagVariantService]

-----------------------------------------------------------------------------
(* Users and roles.                                                        *)

\* The PIN of a wristband only serves to find it: nothing stores it with the
\* user.
zUser ==
    {"login", "display_name", "user_tag_pin", "user_tag_uid", "description",
     "user_tag_id", "transport_account_id", "cash_register_id",
     "cash_drawer_balance", "terminal_ids", "user_tag_uid_hex"}
zUpdateUserPayload ==
    {"login", "display_name", "description", "user_tag_pin",
     "user_tag_uid_hex"}
zCreateUserPayload == zUpdateUserPayload \cup {"password"}
UserCreateForm ==
    {"login", "display_name", "description", "password", "user_tag_uid_hex",
     "user_tag_pin"}
UserUpdateForm ==
    {"login", "display_name", "description", "user_tag_uid_hex",
     "user_tag_pin"}
\* The row that is made of the form has no wristband, whatever was entered.
UserCreate ==
    [shows |-> UserCreateForm, takes |-> UserCreateForm \ {"user_tag_uid_hex"}]
UserUpdate == [shows |-> UserUpdateForm, takes |-> UserUpdateForm]
UserList ==
    [edit |-> "own", detail |-> "own", deletes |-> TRUE, locks |-> FALSE]
UserDetail ==
    [edits |-> TRUE, deletes |-> TRUE, leaves |-> TRUE, locks |-> FALSE]
UserCollection ==
    [inserts |-> zUser \cup {"password"}, updates |-> zUpdateUserPayload, deletes |-> TRUE]
UserService ==
    [creates |-> zCreateUserPayload \ {"user_tag_pin"},
     updates |-> zUpdateUserPayload \ {"user_tag_pin"},
     edits |-> "here", deletes |-> "here"]
User ==
    [create |-> UserCreate, updates |-> {UserUpdate},
     list |-> UserList, detail |-> UserDetail,
     sends |-> UserCollection, takes |-> UserService]

zUpdateUserRolePrivilegesPayload ==
    {"can_assign_all_roles", "assignable_role_ids", "event_privileges",
     "node_privileges"}
zNewUserRole == zUpdateUserRolePrivilegesPayload \cup {"name"}
UserRoleForm ==
    {"name", "can_assign_all_roles", "assignable_role_ids", "event_privileges",
     "node_privileges"}
UserRoleUpdateForm ==
    {"can_assign_all_roles", "assignable_role_ids", "event_privileges",
     "node_privileges"}
UserRoleCreate == [shows |-> UserRoleForm, takes |-> UserRoleForm]
UserRoleUpdate == [shows |-> UserRoleUpdateForm, takes |-> UserRoleUpdateForm]
UserRoleList ==
    [edit |-> "present", detail |-> "present", deletes |-> TRUE, locks |-> FALSE]
UserRoleDetail ==
    [edits |-> TRUE, deletes |-> FALSE, leaves |-> FALSE, locks |-> FALSE]
UserRoleCollection ==
    [inserts |-> zNewUserRole,
     updates |-> zUpdateUserRolePrivilegesPayload, deletes |-> TRUE]
UserRoleService ==
    [creates |-> zNewUserRole, updates |-> zUpdateUserRolePrivilegesPayload,
     edits |-> "above", deletes |-> "above"]
UserRole ==
    [create |-> UserRoleCreate, updates |-> {UserRoleUpdate},
     list |-> UserRoleList, detail |-> UserRoleDetail,
     sends |-> UserRoleCollection, takes |-> UserRoleService]

-----------------------------------------------------------------------------
(* Runs of payouts, which are only made here (see Payout for the rest).    *)

zNewPayoutRun == {"max_payout_sum", "max_num_payouts"}
zPayoutRunWithStats ==
    {"created_by", "created_at", "set_done_by", "set_done_at", "done",
     "revoked", "sepa_was_generated", "total_donation_amount",
     "total_payout_amount", "n_payouts"}
PayoutRunCreate == [shows |-> zNewPayoutRun, takes |-> zNewPayoutRun]
PayoutRunList ==
    [edit |-> "no", detail |-> "present", deletes |-> FALSE, locks |-> FALSE]
\* The row goes through the schema of the collection, which the two fields do
\* not pass.
PayoutRunCollection ==
    [inserts |-> zNewPayoutRun \cap zPayoutRunWithStats, updates |-> {}, deletes |-> FALSE]
PayoutRunService ==
    [creates |-> zNewPayoutRun, updates |-> {},
     edits |-> "never", deletes |-> "never"]
PayoutRun ==
    [create |-> PayoutRunCreate, updates |-> {},
     list |-> PayoutRunList, detail |-> NoDetail,
     sends |-> PayoutRunCollection, takes |-> PayoutRunService]

-----------------------------------------------------------------------------
(* Settings of the event, a form for each tab of the page.                 *)

zUpdateEvent ==
    {"sumup_api_key", "sumup_affiliate_key", "sumup_merchant_code",
     "sumup_oauth_client_id", "sumup_oauth_client_secret", "pretix_api_key",
     "email_smtp_password", "headwind_url", "headwind_username",
     "headwind_password", "currency_identifier", "max_account_balance",
     "start_date", "end_date", "daily_end_time", "sumup_topup_enabled",
     "sumup_payment_enabled", "customer_portal_url",
     "customer_portal_about_page_url", "customer_portal_data_privacy_url",
     "customer_portal_contact_email", "customer_portal_feedback_url",
     "pretix_presale_enabled", "pretix_shop_url", "pretix_organizer",
     "pretix_event", "pretix_ticket_ids", "pretix_topup_ids", "ust_id",
     "bon_issuer", "bon_street", "bon_zip", "bon_city", "bon_country",
     "bon_title", "sepa_enabled", "sepa_sender_name", "sepa_sender_iban",
     "sepa_description", "sepa_max_num_payouts_in_run",
     "sepa_allowed_country_codes", "email_enabled", "email_default_sender",
     "email_smtp_host", "email_smtp_port", "email_smtp_username",
     "payout_done_subject", "payout_done_message", "payout_registered_subject",
     "payout_registered_message", "payout_sender", "headwind_enabled",
     "translation_texts"}
TabGeneral ==
    {"currency_identifier", "max_account_balance", "ust_id", "start_date",
     "end_date", "daily_end_time"}
TabSumUp ==
    {"sumup_topup_enabled", "sumup_payment_enabled", "sumup_affiliate_key",
     "sumup_api_key", "sumup_merchant_code", "sumup_oauth_client_id",
     "sumup_oauth_client_secret"}
TabBon ==
    {"bon_title", "bon_issuer", "bon_street", "bon_zip", "bon_city",
     "bon_country"}
TabCustomerPortal ==
    {"customer_portal_url", "customer_portal_contact_email",
     "customer_portal_about_page_url", "customer_portal_data_privacy_url",
     "customer_portal_feedback_url"}
TabMail ==
    {"email_enabled", "email_default_sender", "email_smtp_host",
     "email_smtp_port", "email_smtp_username", "email_smtp_password"}
TabMdm ==
    {"headwind_enabled", "headwind_url", "headwind_username",
     "headwind_password"}
TabPayout ==
    {"sepa_enabled", "sepa_sender_name", "sepa_sender_iban",
     "sepa_description", "sepa_allowed_country_codes", "payout_done_subject",
     "payout_done_message", "payout_registered_subject",
     "payout_registered_message", "payout_sender"}
TabPretix ==
    {"pretix_presale_enabled", "pretix_shop_url", "pretix_api_key",
     "pretix_organizer", "pretix_event", "pretix_ticket_ids",
     "pretix_topup_ids"}
TabAgb == {"translation_texts"}
TabFaq == {"translation_texts"}
TabPrivacyPolicy == {"translation_texts"}
EventUpdates ==
    {[shows |-> tab, takes |-> tab] : tab \in
        {TabGeneral, TabSumUp, TabBon, TabCustomerPortal, TabMail, TabMdm,
         TabPayout, TabPretix, TabAgb, TabFaq, TabPrivacyPolicy}}
\* Of the payload, the service writes neither the number of payouts of a run
\* nor the items of the presale that are top-ups.
EventService ==
    [creates |-> {},
     updates |-> zUpdateEvent \ {"sepa_max_num_payouts_in_run", "pretix_topup_ids"},
     edits |-> "here", deletes |-> "never"]
Event ==
    [create |-> NoForm, updates |-> EventUpdates,
     list |-> NoList, detail |-> NoDetail,
     sends |-> [inserts |-> {}, updates |-> zUpdateEvent, deletes |-> FALSE],
     takes |-> EventService]

-----------------------------------------------------------------------------
(* The kinds.                                                              *)

Table ==
    [till |-> Till, profile |-> TillProfile, layout |-> TillLayout, button |-> TillButton,
     register |-> CashRegister, stocking |-> CashRegisterStocking, terminal |-> Terminal, tse |-> Tse,
     product |-> Product, ticket |-> Ticket, taxRate |-> TaxRate, variant |-> UserTagVariant,
     user |-> User, role |-> UserRole, payoutRun |-> PayoutRun, event |-> Event]
Kinds == DOMAIN Table
=============================================================================
