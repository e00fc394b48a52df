----------------------------- MODULE Migrations -----------------------------
(***************************************************************************)
(* The migrations of src/migrations, one definition for each class, and    *)
(* the list of them in src/database/data-source.ts.                        *)
(*                                                                         *)
(* The classes spell every statement twice, for MySQL/MariaDB and for      *)
(* PostgreSQL.  The statements here are the ones for MySQL, where an ALTER *)
(* TABLE may do several things; OnPostgres marks what only the other       *)
(* branch does.  Statements that touch only rows, types or indexes without *)
(* a foreign key are left out.  The number is the time stamp in the name   *)
(* of the class, (stamp - 1744000000000) / 10^7.                           *)
(***************************************************************************)
EXTENDS SqlSchema

InitialSchema1744300000000 ==
    Migration(30,
         << Create("users", {"id", "email", "password_hash", "created_at"}, {}),
            Create("condominiums",
                {"id", "owner_id", "name", "created_at", "updated_at"},
                {Restricted("FK_condominiums_owner_id", "owner_id", "users")}),
            Create("groupings",
                {"id", "condominium_id", "name", "created_at"},
                {Cascade("FK_groupings_condominium_id", "condominium_id", "condominiums")}),
            Create("units",
                {"id", "grouping_id", "identifier", "floor", "notes", "created_at",
                 "updated_at"},
                {Cascade("FK_units_grouping_id", "grouping_id", "groupings")}) >>,
         << Drop("units"), Drop("groupings"), Drop("condominiums"), Drop("users") >>)

UnitPersonsAndInvitations1744500000000 ==
    Migration(50,
         << Create("people",
                {"id", "cpf", "email", "full_name", "phone", "user_id", "created_at"},
                {SetNull("FK_people_user_id", "user_id", "users")}),
            Create("unit_invitations",
                {"id", "token_hash", "email", "cpf", "person_id", "unit_id", "as_owner",
                 "as_responsible", "invited_by_user_id", "expires_at", "consumed_at",
                 "created_at"},
                {Cascade("FK_unit_invitations_person", "person_id", "people"),
                 Cascade("FK_unit_invitations_unit", "unit_id", "units"),
                 Restricted("FK_unit_invitations_inviter", "invited_by_user_id", "users")}),
            AddWith("units",
                {"owner_person_id", "responsible_person_id"},
                {SetNull("FK_units_owner_person", "owner_person_id", "people"),
                 SetNull("FK_units_responsible_person", "responsible_person_id", "people")}) >>,
         << Unbind("units", {"FK_units_responsible_person"}),
            Unbind("units", {"FK_units_owner_person"}),
            DropColumns("units", {"responsible_person_id", "owner_person_id"}),
            Drop("unit_invitations"), Drop("people") >>)

UsersPhoneSmsLogin1744600000000 ==
    Migration(60,
         << Add("users", {"phone"}),
            Create("login_sms_challenges",
                {"id", "phone", "code_hash", "expires_at", "created_at"}, {}) >>,
         << Drop("login_sms_challenges"), DropColumns("users", {"phone"}) >>)

PeopleAddress1744700000000 ==
    Migration(70,
         << Add("people",
                {"address_zip", "address_street", "address_number", "address_complement",
                 "address_neighborhood", "address_city", "address_state"}) >>,
         << DropColumns("people",
                {"address_zip", "address_street", "address_number", "address_complement",
                 "address_neighborhood", "address_city", "address_state"}) >>)

Financial1744850000000 ==
    Migration(85,
         << Create("financial_funds",
                {"id", "condominium_id", "name", "is_temporary", "ends_at", "created_at"},
                {Cascade("FK_financial_funds_condo", "condominium_id", "condominiums")}),
            Create("financial_transactions",
                {"id", "condominium_id", "fund_id", "kind", "amount_cents", "occurred_on",
                 "title", "description", "allocation_rule", "created_at", "updated_at"},
                {Cascade("FK_fin_tx_condo", "condominium_id", "condominiums"),
                 SetNull("FK_fin_tx_fund", "fund_id", "financial_funds")}),
            Index("financial_transactions", "IDX_fin_tx_condo_date", "condominium_id"),
            Create("transaction_unit_shares",
                {"id", "transaction_id", "unit_id", "share_cents"},
                {Cascade("FK_share_tx", "transaction_id", "financial_transactions"),
                 Cascade("FK_share_unit", "unit_id", "units")}) >>,
         << Drop("transaction_unit_shares"), Drop("financial_transactions"),
            Drop("financial_funds") >>)

PasswordResetChallenges1744900000000 ==
    Migration(90,
         << Create("password_reset_challenges",
                {"id", "channel", "destination", "code_hash", "expires_at", "created_at"}, {}) >>,
         << Drop("password_reset_challenges") >>)

FinancialFundPeriod1744950000000 ==
    Migration(95,
         << Add("financial_funds", {"period_start_ym", "period_end_ym"}) >>,
         << DropColumns("financial_funds", {"period_end_ym", "period_start_ym"}) >>)

FundsPermanentAllocation1744960000000 ==
    Migration(96,
         << Add("financial_funds",
                {"is_permanent", "allocation_rule", "permanent_monthly_debit_cents",
                 "term_total_per_unit_cents", "term_installment_count",
                 "term_monthly_per_unit_cents"}),
            DropColumns("financial_funds", {"is_temporary", "ends_at"}) >>,
         << Add("financial_funds", {"is_temporary", "ends_at"}),
            DropColumns("financial_funds",
                {"term_monthly_per_unit_cents", "term_installment_count",
                 "term_total_per_unit_cents", "permanent_monthly_debit_cents",
                 "allocation_rule", "is_permanent"}) >>)

TransactionReceipt1744970000000 ==
    Migration(97,
         << MySQLOnly(Add("financial_transactions", {"receipt_storage_key"})) >>,
         << MySQLOnly(DropColumns("financial_transactions", {"receipt_storage_key"})) >>)

CondominiumFees1744980000000 ==
    Migration(98,
         << Create("fund_monthly_accruals",
                {"id", "fund_id", "competence_ym", "transaction_id", "created_at"},
                {Cascade("FK_accrual_fund", "fund_id", "financial_funds"),
                 Cascade("FK_accrual_tx", "transaction_id", "financial_transactions")}),
            Create("condominium_fee_charges",
                {"id", "condominium_id", "competence_ym", "unit_id", "amount_due_cents",
                 "adjustment_cents", "due_on", "status", "paid_at",
                 "income_transaction_id", "created_at", "updated_at"},
                {Cascade("FK_fee_charge_condo", "condominium_id", "condominiums"),
                 Cascade("FK_fee_charge_unit", "unit_id", "units"),
                 SetNull("FK_fee_charge_income_tx", "income_transaction_id",
                         "financial_transactions")}) >>,
         << DropStrict("condominium_fee_charges"), DropStrict("fund_monthly_accruals") >>)

DropFeeAdjustment1744990000000 ==
    Migration(99,
         << IfColumn("condominium_fee_charges", "adjustment_cents",
                << DropColumns("condominium_fee_charges", {"adjustment_cents"}) >>) >>,
         << Add("condominium_fee_charges", {"adjustment_cents"}) >>)

PlanningGovernanceDocuments1750000000000 ==
    Migration(600,
         << Create("condominium_participants",
                {"id", "condominium_id", "user_id", "person_id", "role", "created_at"},
                {Cascade("FK_cp_condo", "condominium_id", "condominiums"),
                 Cascade("FK_cp_user", "user_id", "users"),
                 SetNull("FK_cp_person", "person_id", "people")}),
            Create("planning_polls",
                {"id", "condominium_id", "title", "body", "opens_at", "closes_at",
                 "status", "assembly_type", "decided_option_id", "created_by_user_id",
                 "created_at", "updated_at"},
                {Cascade("FK_pp_condo", "condominium_id", "condominiums"),
                 Restricted("FK_pp_creator", "created_by_user_id", "users")}),
            Create("planning_poll_options",
                {"id", "poll_id", "label", "sort_order"},
                {Cascade("FK_ppo_poll", "poll_id", "planning_polls")}),
            Create("planning_poll_votes",
                {"id", "poll_id", "unit_id", "option_id", "cast_by_user_id", "cast_at"},
                {Cascade("FK_ppv_poll", "poll_id", "planning_polls"),
                 Cascade("FK_ppv_unit", "unit_id", "units"),
                 Cascade("FK_ppv_option", "option_id", "planning_poll_options"),
                 Restricted("FK_ppv_user", "cast_by_user_id", "users")}),
            Index("planning_poll_votes", "UQ_poll_unit_vote", "poll_id"),
            Create("condominium_documents",
                {"id", "condominium_id", "kind", "status", "title", "storage_key",
                 "mime_type", "poll_id", "visible_to_all_residents", "created_by_user_id",
                 "election_payload", "created_at", "updated_at"},
                {Cascade("FK_cd_condo", "condominium_id", "condominiums"),
                 SetNull("FK_cd_poll", "poll_id", "planning_polls"),
                 Restricted("FK_cd_creator", "created_by_user_id", "users")}),
            Create("governance_audit_logs",
                {"id", "condominium_id", "action", "performed_by_user_id", "payload",
                 "created_at"},
                {Cascade("FK_gal_condo", "condominium_id", "condominiums"),
                 Restricted("FK_gal_user", "performed_by_user_id", "users")}) >>,
         << Drop("governance_audit_logs"), Drop("condominium_documents"),
            Drop("planning_poll_votes"), Drop("planning_poll_options"),
            Drop("planning_polls"), Drop("condominium_participants") >>)

\* An index that serves the key on poll_id while the unique one is replaced.
AddTemporary ==
    UnlessIndex("planning_poll_votes", "IDX_ppv_poll_id_fk",
        << Index("planning_poll_votes", "IDX_ppv_poll_id_fk", "poll_id") >>)

DropTemporary ==
    << IfIndex("planning_poll_votes", "IDX_ppv_poll_id_fk",
           << Unindex("planning_poll_votes", "IDX_ppv_poll_id_fk") >>) >>

PlanningPollMultipleChoice1750050000000 ==
    Migration(605,
         << UnlessColumn("planning_polls", "allow_multiple",
                << Add("planning_polls", {"allow_multiple"}) >>),
            IfIndex("planning_poll_votes", "UQ_poll_unit_option", DropTemporary),
            UnlessIndex("planning_poll_votes", "UQ_poll_unit_option",
                << AddTemporary,
                   IfIndex("planning_poll_votes", "UQ_poll_unit_vote",
                       << Unindex("planning_poll_votes", "UQ_poll_unit_vote") >>),
                   Index("planning_poll_votes", "UQ_poll_unit_option", "poll_id") >>
                \o DropTemporary) >>,
         << IfIndex("planning_poll_votes", "UQ_poll_unit_option",
                << AddTemporary,
                   Unindex("planning_poll_votes", "UQ_poll_unit_option"),
                   Index("planning_poll_votes", "UQ_poll_unit_vote", "poll_id") >>
                \o DropTemporary),
            IfColumn("planning_polls", "allow_multiple",
                << DropColumns("planning_polls", {"allow_multiple"}) >>) >>)

PlanningPollAttachments1750100000000 ==
    Migration(610,
         << Create("planning_poll_attachments",
                {"id", "poll_id", "storage_key", "original_filename", "mime_type",
                 "size_bytes", "sort_order", "uploaded_by_user_id", "created_at"},
                {Cascade("FK_ppa_poll", "poll_id", "planning_polls"),
                 Restricted("FK_ppa_user", "uploaded_by_user_id", "users")}) >>,
         << Drop("planning_poll_attachments") >>)

CondominiumInvitations1750150000000 ==
    Migration(615,
         << Create("condominium_invitations",
                {"id", "token_hash", "email", "condominium_id", "person_id",
                 "invited_by_user_id", "expires_at", "consumed_at", "created_at"},
                {Cascade("FK_condo_inv_condo", "condominium_id", "condominiums"),
                 Cascade("FK_condo_inv_person", "person_id", "people"),
                 Restricted("FK_condo_inv_inviter", "invited_by_user_id", "users")}) >>,
         << Drop("condominium_invitations") >>)

CondominiumInvitationsUnit1750160000000 ==
    Migration(616,
         << Add("condominium_invitations", {"unit_id"}),
            Bind("condominium_invitations",
                {Cascade("FK_condo_inv_unit", "unit_id", "units")}) >>,
         << Unbind("condominium_invitations", {"FK_condo_inv_unit"}),
            DropColumns("condominium_invitations", {"unit_id"}) >>)

CondominiumInvitationPlainToken1750170000000 ==
    Migration(617,
         << Add("condominium_invitations", {"invite_token_plain"}) >>,
         << DropColumns("condominium_invitations", {"invite_token_plain"}) >>)

UsersPlatformAdmin1750200000000 ==
    Migration(620,
         << Add("users", {"platform_admin"}) >>,
         << DropColumns("users", {"platform_admin"}) >>)

SaasBilling1750210000000 ==
    Migration(621,
         << Create("saas_condominium_billing",
                {"id", "condominium_id", "monthly_amount_cents", "currency",
                 "asaas_customer_id", "status", "notes", "created_at", "updated_at"},
                {Cascade("FK_saas_billing_condo", "condominium_id", "condominiums")}),
            Create("saas_charge",
                {"id", "condominium_id", "reference_month", "amount_cents", "due_date",
                 "status", "asaas_payment_id", "invoice_url", "bank_slip_url",
                 "pix_qr_payload", "paid_at", "raw_last_webhook_at", "created_at",
                 "updated_at"},
                {Cascade("FK_saas_charge_condo", "condominium_id", "condominiums")}) >>,
         << Drop("saas_charge"), Drop("saas_condominium_billing") >>)

SaasPlans1750220000000 ==
    Migration(622,
         << Create("saas_plans",
                {"id", "name", "price_per_unit_cents", "currency", "is_default", "active",
                 "notes", "created_at", "updated_at"}, {}),
            Add("users", {"plan_id"}),
            Bind("users", {Restricted("FK_users_plan_id", "plan_id", "saas_plans")}),
            Index("users", "IDX_users_plan_id", "plan_id") >>,
         << Unbind("users", {"FK_users_plan_id"}), Unindex("users", "IDX_users_plan_id"),
            DropColumns("users", {"plan_id"}), DropStrict("saas_plans") >>)

SaasUserVouchers1750230000000 ==
    Migration(623,
         << Create("saas_user_vouchers",
                {"id", "user_id", "discount_percent", "valid_from", "valid_to", "label",
                 "notes", "active", "created_at", "updated_at"},
                {Cascade("FK_saas_user_vouchers_user", "user_id", "users")}) >>,
         << Drop("saas_user_vouchers") >>)

SaasVouchersCatalog1750240000000 ==
    Migration(624,
         << Drop("saas_user_vouchers"),
            Create("saas_vouchers",
                {"id", "name", "code", "discount_percent", "valid_from", "valid_to",
                 "notes", "active", "created_at", "updated_at"}, {}),
            Add("condominiums", {"saas_voucher_id"}),
            Bind("condominiums",
                {SetNull("FK_condominiums_saas_voucher", "saas_voucher_id", "saas_vouchers")}),
            Index("condominiums", "IDX_condominiums_saas_voucher", "saas_voucher_id") >>,
         << Unbind("condominiums", {"FK_condominiums_saas_voucher"}),
            Unindex("condominiums", "IDX_condominiums_saas_voucher"),
            DropColumns("condominiums", {"saas_voucher_id"}), Drop("saas_vouchers"),
            OnPostgres(
                << Create("saas_user_vouchers",
                       {"id", "user_id", "discount_percent", "valid_from", "valid_to", "label",
                        "notes", "active", "created_at", "updated_at"},
                       {Cascade("FK_saas_user_vouchers_user", "user_id", "users")}) >>) >>)

SaasBillingDueDay1750250000000 ==
    Migration(625,
         << Add("saas_condominium_billing", {"billing_due_day"}) >>,
         << DropColumns("saas_condominium_billing", {"billing_due_day"}) >>)

\* mutant: down forgets the foreign key
SaasPlanKeyKept ==
    Migration(626,
         << Add("condominiums", {"saas_plan_id"}),
            Bind("condominiums",
                {Restricted("FK_condominiums_saas_plan_id", "saas_plan_id", "saas_plans")}) >>,
         << DropColumns("condominiums", {"saas_plan_id"}) >>)

CondominiumSaasPlan1750260000000 ==
    Migration(626,
         << Add("condominiums", {"saas_plan_id"}),
            Bind("condominiums",
                {Restricted("FK_condominiums_saas_plan_id", "saas_plan_id", "saas_plans")}) >>,
         << Unbind("condominiums", {"FK_condominiums_saas_plan_id"}),
            DropColumns("condominiums", {"saas_plan_id"}) >>)

SaasPlanCatalogBlurb1750270000000 ==
    Migration(627,
         << Add("saas_plans", {"catalog_blurb"}) >>,
         << DropColumns("saas_plans", {"catalog_blurb"}) >>)

SaasPlanPeriodsChangeRequests1750280000000 ==
    Migration(628,
         << Create("condominium_saas_plan_period",
                {"id", "condominium_id", "saas_plan_id", "valid_from", "valid_to",
                 "created_at"},
                {Cascade("FK_csp_condo", "condominium_id", "condominiums"),
                 Restricted("FK_csp_plan", "saas_plan_id", "saas_plans")}),
            Create("saas_plan_change_request",
                {"id", "condominium_id", "from_plan_id", "requested_plan_id",
                 "requested_by_user_id", "status", "tenant_message", "admin_note",
                 "decided_at", "decided_by_user_id", "created_at", "updated_at"},
                {Cascade("FK_spcr_condo", "condominium_id", "condominiums"),
                 SetNull("FK_spcr_from_plan", "from_plan_id", "saas_plans"),
                 Restricted("FK_spcr_req_plan", "requested_plan_id", "saas_plans"),
                 Cascade("FK_spcr_user", "requested_by_user_id", "users"),
                 SetNull("FK_spcr_decider", "decided_by_user_id", "users")}),
            Add("saas_charge", {"billing_breakdown"}) >>,
         << DropColumns("saas_charge", {"billing_breakdown"}),
            DropStrict("saas_plan_change_request"),
            DropStrict("condominium_saas_plan_period") >>)

SaasPlanUnitPriceTiers1750290000000 ==
    Migration(629,
         << Add("saas_plans", {"unit_price_tiers"}) >>,
         << DropColumns("saas_plans", {"unit_price_tiers"}) >>)

TransactionRecurringSeries1750300000000 ==
    Migration(630,
         << Add("financial_transactions", {"recurring_series_id"}),
            Index("financial_transactions", "IDX_fin_tx_recurring_series", "condominium_id") >>,
         << Unindex("financial_transactions", "IDX_fin_tx_recurring_series"),
            DropColumns("financial_transactions", {"recurring_series_id"}) >>)

CondominiumBillingContact1750310000000 ==
    Migration(631,
         << Add("condominiums",
                {"billing_pix_key", "billing_pix_beneficiary_name", "billing_pix_city",
                 "syndic_whatsapp_for_receipts"}) >>,
         << DropColumns("condominiums",
                {"syndic_whatsapp_for_receipts", "billing_pix_city",
                 "billing_pix_beneficiary_name", "billing_pix_key"}) >>)

TransactionCompetencyRecurrence1750310000000 ==
    Migration(631,
         << Create("financial_transaction_recurrences",
                {"id", "condominium_id", "kind", "title", "description", "amount_cents",
                 "fund_id", "allocation_rule", "frequency", "end_mode",
                 "occurrences_limit", "run_until", "occurrences_created",
                 "next_occurrence_on", "competency_align", "active", "created_at",
                 "updated_at"},
                {Cascade("FK_fin_tx_recurrence_condo", "condominium_id", "condominiums"),
                 SetNull("FK_fin_tx_recurrence_fund", "fund_id", "financial_funds")}),
            Add("financial_transactions", {"competency_on"}),
            Add("financial_transactions", {"recurrence_id"}),
            Bind("financial_transactions",
                {SetNull("FK_fin_tx_recurrence", "recurrence_id",
                         "financial_transaction_recurrences")}) >>,
         << Unbind("financial_transactions", {"FK_fin_tx_recurrence"}),
            DropColumns("financial_transactions", {"recurrence_id"}),
            DropColumns("financial_transactions", {"competency_on"}),
            Drop("financial_transaction_recurrences") >>)

CondominiumManagementLogo1750320000000 ==
    Migration(632,
         << Add("condominiums", {"management_logo_storage_key"}) >>,
         << DropColumns("condominiums", {"management_logo_storage_key"}) >>)

UnitMemberDisplayNames1750330000000 ==
    Migration(633,
         << Add("units", {"owner_display_name", "responsible_display_name"}) >>,
         << DropColumns("units", {"owner_display_name", "responsible_display_name"}) >>)

DropCondominiumDocumentMembersNote1750350000000 ==
    Migration(635,
         << NotOnMySQL(IfColumn("condominiums", "document_members_note",
                << DropColumns("condominiums", {"document_members_note"}) >>)) >>,
         << >>)

UnitMultipleResponsibles1750360000000 ==
    Migration(636,
         << Create("unit_responsible_people",
                {"id", "unit_id", "person_id", "created_at"},
                {Cascade("FK_urp_unit", "unit_id", "units"),
                 Cascade("FK_urp_person", "person_id", "people")}),
            Unbind("units", {"FK_units_responsible_person"}),
            DropColumns("units", {"responsible_person_id"}) >>,
         << Add("units", {"responsible_person_id"}),
            Bind("units",
                {SetNull("FK_units_responsible_person", "responsible_person_id", "people")}),
            DropStrict("unit_responsible_people") >>)

CondominiumTransparencyPixQrcode1750370000000 ==
    Migration(637,
         << Add("condominiums", {"transparency_pdf_include_pix_qrcode"}) >>,
         << DropColumns("condominiums", {"transparency_pdf_include_pix_qrcode"}) >>)

CondominiumBillingChargeModel1750380000000 ==
    Migration(638,
         << Add("condominiums",
                {"billing_charge_model", "billing_default_due_day",
                 "billing_late_interest_bps"}) >>,
         << DropColumns("condominiums",
                {"billing_late_interest_bps", "billing_default_due_day",
                 "billing_charge_model"}) >>)

SaasPlanFeatures1750390000000 ==
    Migration(639,
         << Add("saas_plans", {"features"}) >>,
         << DropColumns("saas_plans", {"features"}) >>)

FeeChargePaymentReceipt1750400000000 ==
    Migration(640,
         << Add("condominium_fee_charges", {"payment_receipt_storage_key"}) >>,
         << DropColumns("condominium_fee_charges", {"payment_receipt_storage_key"}) >>)

UserSignaturePng1750410000000 ==
    Migration(641,
         << Add("users", {"signature_png", "signature_updated_at"}) >>,
         << DropColumns("users", {"signature_png"}),
            DropColumns("users", {"signature_updated_at"}) >>)

PlanningPollCompetenceDate1750420000000 ==
    Migration(642,
         << Add("planning_polls", {"competence_date"}) >>,
         << DropColumns("planning_polls", {"competence_date"}) >>)

Communications1750430000000 ==
    Migration(643,
         << Create("communications",
                {"id", "condominium_id", "title", "body", "status", "created_by_user_id",
                 "sent_at", "created_at", "updated_at"},
                {Cascade("FK_comm_condo", "condominium_id", "condominiums"),
                 Restricted("FK_comm_creator", "created_by_user_id", "users")}),
            Index("communications", "FK_comm_condo", "condominium_id"),
            Index("communications", "IDX_comm_condo_status", "condominium_id"),
            Create("communication_attachments",
                {"id", "communication_id", "storage_key", "mime_type", "original_filename",
                 "size_bytes", "sort_order", "uploaded_by_user_id", "created_at"},
                {Cascade("FK_ca_comm", "communication_id", "communications"),
                 Restricted("FK_ca_uploader", "uploaded_by_user_id", "users")}),
            Create("communication_recipients",
                {"id", "communication_id", "user_id", "email_snapshot", "phone_snapshot",
                 "email_status", "sms_status", "email_error", "sms_error",
                 "email_token_hash", "email_token_expires_at", "read_at", "read_source",
                 "created_at"},
                {Cascade("FK_cr_comm", "communication_id", "communications"),
                 Cascade("FK_cr_user", "user_id", "users")}) >>,
         << Drop("communication_recipients"), Drop("communication_attachments"),
            Drop("communications") >>)

CommunicationAudienceChannels1751000000000 ==
    Migration(700,
         << Add("communications",
                {"audience_scope", "audience_unit_ids", "audience_grouping_ids",
                 "channel_email_enabled", "channel_sms_enabled",
                 "channel_whatsapp_enabled", "recipient_delivery_prefs"}),
            Add("communication_recipients", {"whatsapp_status", "whatsapp_error"}) >>,
         << DropColumns("communication_recipients", {"whatsapp_error"}),
            DropColumns("communication_recipients", {"whatsapp_status"}),
            DropColumns("communications", {"recipient_delivery_prefs"}),
            DropColumns("communications", {"channel_whatsapp_enabled"}),
            DropColumns("communications", {"channel_sms_enabled"}),
            DropColumns("communications", {"channel_email_enabled"}),
            DropColumns("communications", {"audience_grouping_ids"}),
            DropColumns("communications", {"audience_unit_ids"}),
            DropColumns("communications", {"audience_scope"}) >>)

CommunicationReadLinks1751100000000 ==
    Migration(710,
         << Create("communication_read_links",
                {"id", "communication_id", "user_id", "unit_id", "channel", "token_hash",
                 "expires_at", "consumed_at", "created_at"},
                {Cascade("FK_crl_comm", "communication_id", "communications"),
                 Cascade("FK_crl_user", "user_id", "users"),
                 Cascade("FK_crl_unit", "unit_id", "units")}) >>,
         << Drop("communication_read_links") >>)

CommunicationReadAccessLogs1751200000000 ==
    Migration(720,
         << Create("communication_read_access_logs",
                {"id", "communication_id", "user_id", "unit_id", "channel", "kind",
                 "read_link_id", "accessed_at"},
                {Cascade("FK_cral_comm", "communication_id", "communications"),
                 Cascade("FK_cral_user", "user_id", "users"),
                 SetNull("FK_cral_link", "read_link_id", "communication_read_links"),
                 SetNull("FK_cral_unit", "unit_id", "units")}) >>,
         << Drop("communication_read_access_logs") >>)

CommunicationDisplayNames1751210000000 ==
    Migration(721,
         << Add("communication_recipients", {"recipient_display_name"}),
            Add("communication_read_access_logs", {"reader_display_name"}),
            Add("communications", {"last_broadcast_user_id", "last_broadcast_user_name"}) >>,
         << DropColumns("communication_recipients", {"recipient_display_name"}),
            DropColumns("communication_read_access_logs", {"reader_display_name"}),
            DropColumns("communications", {"last_broadcast_user_name"}),
            DropColumns("communications", {"last_broadcast_user_id"}) >>)

SupportTickets1751220000000 ==
    Migration(722,
         << Create("support_tickets",
                {"id", "user_id", "condominium_id", "category", "title", "body", "status",
                 "created_at", "updated_at"},
                {Cascade("FK_st_user", "user_id", "users"),
                 SetNull("FK_st_condo", "condominium_id", "condominiums")}) >>,
         << Drop("support_tickets") >>)

SupportTicketMessagesViewToken1751230000000 ==
    Migration(723,
         << Add("support_tickets", {"view_token"}),
            Create("support_ticket_messages",
                {"id", "ticket_id", "author_user_id", "from_platform_admin", "body",
                 "created_at"},
                {Cascade("FK_stm_ticket", "ticket_id", "support_tickets"),
                 Cascade("FK_stm_author", "author_user_id", "users")}) >>,
         << Drop("support_ticket_messages"),
            DropColumns("support_tickets", {"view_token"}) >>)

EnsureTransactionCompetencyColumns1751240000000 ==
    Migration(724,
         << UnlessTable("financial_transaction_recurrences",
                << Create("financial_transaction_recurrences",
                       {"id", "condominium_id", "kind", "title", "description",
                        "amount_cents", "fund_id", "allocation_rule", "frequency",
                        "end_mode", "occurrences_limit", "run_until", "occurrences_created",
                        "next_occurrence_on", "competency_align", "active", "created_at",
                        "updated_at"},
                       {Cascade("FK_fin_tx_recurrence_condo", "condominium_id", "condominiums"),
                        SetNull("FK_fin_tx_recurrence_fund", "fund_id", "financial_funds")}) >>),
            UnlessColumn("financial_transactions", "competency_on",
                << Add("financial_transactions", {"competency_on"}) >>),
            UnlessColumn("financial_transactions", "recurrence_id",
                << Add("financial_transactions", {"recurrence_id"}),
                   Bind("financial_transactions",
                       {SetNull("FK_fin_tx_recurrence", "recurrence_id",
                                "financial_transaction_recurrences")}) >>) >>,
         << >>)

CondominiumFeeChargePaymentLogs1751250000000 ==
    Migration(725,
         << Create("condominium_fee_charge_payment_logs",
                {"id", "charge_id", "actor_user_id", "action", "detail", "created_at"},
                {Cascade("FK_fee_charge_payment_log_charge", "charge_id",
                         "condominium_fee_charges")}) >>,
         << Drop("condominium_fee_charge_payment_logs") >>)

\* mutant: with the person goes the unit
UnitsGoWithPerson ==
    Migration(726,
         << Add("units", {"financial_responsible_person_id"}),
            Bind("units",
                {Cascade("FK_units_financial_responsible_person",
                         "financial_responsible_person_id", "people")}) >>,
         << Unbind("units", {"FK_units_financial_responsible_person"}),
            DropColumns("units", {"financial_responsible_person_id"}) >>)

UnitsFinancialResponsiblePerson1751260000000 ==
    Migration(726,
         << Add("units", {"financial_responsible_person_id"}),
            Bind("units",
                {SetNull("FK_units_financial_responsible_person",
                         "financial_responsible_person_id", "people")}) >>,
         << Unbind("units", {"FK_units_financial_responsible_person"}),
            DropColumns("units", {"financial_responsible_person_id"}) >>)

SupportTicketTarget1751300000000 ==
    Migration(730,
         << Add("support_tickets", {"target"}) >>,
         << DropColumns("support_tickets", {"target"}) >>)

SupportMessageAttachments1751310000000 ==
    Migration(731,
         << Add("support_ticket_messages", {"attachments_json"}) >>,
         << DropColumns("support_ticket_messages", {"attachments_json"}) >>)

CondominiumLibraryDocuments1751320000000 ==
    Migration(732,
         << Create("condominium_library_documents",
                {"id", "condominium_id", "storage_key", "mime_type", "original_filename",
                 "uploaded_by_user_id", "uploaded_by_display_name", "created_at"},
                {Cascade("FK_cld_condo", "condominium_id", "condominiums"),
                 SetNull("FK_cld_uploader", "uploaded_by_user_id", "users")}) >>,
         << Drop("condominium_library_documents") >>)

TransactionDocument1751330000000 ==
    Migration(733,
         << MySQLOnly(Add("financial_transactions", {"document_storage_key"})) >>,
         << MySQLOnly(DropColumns("financial_transactions", {"document_storage_key"})) >>)

TransactionMultiDocuments1751340000000 ==
    Migration(734,
         << Add("financial_transactions", {"document_storage_keys"}) >>,
         << DropColumns("financial_transactions", {"document_storage_keys"}) >>)

CondominiumInvitationsEmailOptionalPhone1751350000000 ==
    Migration(735,
         << Add("condominium_invitations", {"phone"}) >>,
         << DropColumns("condominium_invitations", {"phone"}) >>)

CondominiumLibraryDownloadLog1751400000000 ==
    Migration(740,
         << Create("condominium_library_document_downloads",
                {"id", "condominium_id", "document_id", "user_id", "downloaded_at"},
                {Cascade("FK_cldd_condo", "condominium_id", "condominiums"),
                 Cascade("FK_cldd_doc", "document_id", "condominium_library_documents"),
                 Cascade("FK_cldd_user", "user_id", "users")}) >>,
         << Drop("condominium_library_document_downloads") >>)

UnitsPendingWhatsappPhone1751410000000 ==
    Migration(741,
         << MySQLOnly(Add("units", {"pending_whatsapp_phone"})) >>,
         << MySQLOnly(DropColumns("units", {"pending_whatsapp_phone"})) >>)

FinancialTransactionPaymentStatus1751420000000 ==
    Migration(742,
         << UnlessColumn("financial_transactions", "payment_status",
                << Add("financial_transactions", {"payment_status"}) >>) >>,
         << IfColumn("financial_transactions", "payment_status",
                << DropColumns("financial_transactions", {"payment_status"}) >>) >>)

CommunicationSoftDelete1751430000000 ==
    Migration(743,
         << Add("communications", {"deleted_at", "deleted_by_user_id"}),
            Index("communications", "IDX_comm_condo_not_deleted", "condominium_id") >>,
         << Unindex("communications", "IDX_comm_condo_not_deleted"),
            DropColumns("communications", {"deleted_by_user_id"}),
            DropColumns("communications", {"deleted_at"}) >>)

Suppliers1751430000000 ==
    Migration(743,
         << Create("supplier_categories",
                {"id", "name", "created_by_user_id", "created_at"},
                {Cascade("FK_supplier_cat_user", "created_by_user_id", "users")}),
            Create("suppliers",
                {"id", "condominium_id", "category_id", "name", "legal_name",
                 "document_cnpj_cpf", "pix_key_type", "pix_key_value", "phone", "email",
                 "notes", "address_line", "created_at", "updated_at"},
                {Cascade("FK_suppliers_condo", "condominium_id", "condominiums"),
                 Restricted("FK_suppliers_category", "category_id", "supplier_categories")}) >>,
         << DropStrict("suppliers"), DropStrict("supplier_categories") >>)

CommunicationPdfChannel1751440000000 ==
    Migration(744,
         << Add("communications", {"channel_pdf_enabled"}),
            Add("communication_recipients", {"pdf_status"}) >>,
         << DropColumns("communication_recipients", {"pdf_status"}),
            DropColumns("communications", {"channel_pdf_enabled"}) >>)

CondominiumWorks1751450000000 ==
    Migration(745,
         << Create("condominium_works",
                {"id", "condominium_id", "title", "description", "status",
                 "created_by_user_id", "created_at", "updated_at"},
                {Cascade("FK_cw_condo", "condominium_id", "condominiums"),
                 Cascade("FK_cw_creator", "created_by_user_id", "users")}),
            Index("condominium_works", "IDX_cw_condo_updated", "condominium_id"),
            Create("condominium_work_budgets",
                {"id", "work_id", "supplier_name", "amount_cents", "valid_until", "status",
                 "notes", "created_by_user_id", "created_at"},
                {Cascade("FK_cwb_work", "work_id", "condominium_works"),
                 Cascade("FK_cwb_creator", "created_by_user_id", "users")}),
            Create("condominium_work_timeline_entries",
                {"id", "work_id", "kind", "body", "storage_key", "original_filename",
                 "mime_type", "size_bytes", "budget_id", "author_user_id",
                 "author_display_name", "created_at"},
                {Cascade("FK_cwte_work", "work_id", "condominium_works"),
                 Cascade("FK_cwte_budget", "budget_id", "condominium_work_budgets"),
                 Cascade("FK_cwte_author", "author_user_id", "users")}) >>,
         << Drop("condominium_work_timeline_entries"), Drop("condominium_work_budgets"),
            Drop("condominium_works") >>)

FinancialTransactionSupplier1751450000000 ==
    Migration(745,
         << Add("financial_transactions", {"supplier_id"}),
            Bind("financial_transactions",
                {SetNull("FK_fin_tx_supplier", "supplier_id", "suppliers")}),
            Index("financial_transactions", "IDX_fin_tx_supplier", "supplier_id") >>,
         << Unindex("financial_transactions", "IDX_fin_tx_supplier"),
            Unbind("financial_transactions", {"FK_fin_tx_supplier"}),
            DropColumns("financial_transactions", {"supplier_id"}) >>)

CondominiumWorkBudgetAttachments1751460000000 ==
    Migration(746,
         << Create("condominium_work_budget_attachments",
                {"id", "budget_id", "storage_key", "original_filename", "mime_type",
                 "size_bytes", "created_at"},
                {Cascade("FK_cwba_budget", "budget_id", "condominium_work_budgets")}) >>,
         << Drop("condominium_work_budget_attachments") >>)

ConstructionWorks1751460000000 ==
    Migration(746,
         << Create("construction_projects",
                {"id", "condominium_id", "title", "description", "status", "started_on",
                 "expected_end_on", "completed_on", "supplier_id", "created_at",
                 "updated_at"},
                {Cascade("FK_construction_projects_condo", "condominium_id", "condominiums"),
                 SetNull("FK_construction_projects_supplier", "supplier_id", "suppliers")}),
            Create("construction_project_updates",
                {"id", "project_id", "occurred_on", "body", "created_by_user_id",
                 "attachment_storage_keys", "created_at", "updated_at"},
                {Cascade("FK_construction_updates_project", "project_id", "construction_projects"),
                 SetNull("FK_construction_updates_user", "created_by_user_id", "users")}) >>,
         << Drop("construction_project_updates"), Drop("construction_projects") >>)

CondominiumWorkTimelineAttachments1751470000000 ==
    Migration(747,
         << Create("condominium_work_timeline_attachments",
                {"id", "entry_id", "storage_key", "original_filename", "mime_type",
                 "size_bytes", "created_at"},
                {Cascade("FK_cwta_entry", "entry_id", "condominium_work_timeline_entries")}),
            Drop("condominium_work_budget_attachments") >>,
         << Drop("condominium_work_timeline_attachments") >>)

PlanningPollMinutesAndMeetingNotes1751470000000 ==
    Migration(747,
         << UnlessColumn("planning_polls", "minutes_body",
                << Add("planning_polls", {"minutes_body"}) >>),
            UnlessTable("planning_poll_meeting_notes",
                << Create("planning_poll_meeting_notes",
                       {"id", "condominium_id", "poll_id", "text", "created_by_user_id",
                        "created_at"},
                       {Cascade("FK_ppmn_poll", "poll_id", "planning_polls"),
                        Cascade("FK_ppmn_condo", "condominium_id", "condominiums"),
                        Restricted("FK_ppmn_user", "created_by_user_id", "users")}) >>) >>,
         << Drop("planning_poll_meeting_notes"),
            DropColumns("planning_polls", {"minutes_body"}) >>)

CondominiumBankAccounts1751480000000 ==
    Migration(748,
         << Create("condominium_bank_accounts",
                {"id", "condominium_id", "name", "bank_name", "initial_balance_cents",
                 "is_active", "created_at", "updated_at"},
                {Cascade("FK_bank_accounts_condo", "condominium_id", "condominiums")}) >>,
         << Drop("condominium_bank_accounts") >>)

TransactionBankAccount1751490000000 ==
    Migration(749,
         << AddWith("financial_transactions",
                {"bank_account_id"},
                {Restricted("FK_fin_tx_bank_account", "bank_account_id",
                            "condominium_bank_accounts")}),
            Index("financial_transactions", "IDX_fin_tx_bank_account", "bank_account_id"),
            AddWith("condominium_fee_charges",
                {"bank_account_id"},
                {SetNull("FK_fee_charge_bank_account", "bank_account_id",
                         "condominium_bank_accounts")}),
            AddWith("financial_transaction_recurrences",
                {"bank_account_id"},
                {SetNull("FK_fin_rec_bank_account", "bank_account_id",
                         "condominium_bank_accounts")}) >>,
         << Unbind("financial_transaction_recurrences", {"FK_fin_rec_bank_account"}),
            DropColumns("financial_transaction_recurrences", {"bank_account_id"}),
            Unbind("condominium_fee_charges", {"FK_fee_charge_bank_account"}),
            DropColumns("condominium_fee_charges", {"bank_account_id"}),
            Unindex("financial_transactions", "IDX_fin_tx_bank_account"),
            Unbind("financial_transactions", {"FK_fin_tx_bank_account"}),
            DropColumns("financial_transactions", {"bank_account_id"}) >>)

TransactionTransfer1751500000000 ==
    Migration(750,
         << Add("financial_transactions", {"transfer_group_id", "transfer_counterpart_id"}),
            Index("financial_transactions", "idx_financial_transactions_transfer_group",
                  "condominium_id") >>,
         << MySQLOnly(Unindex("financial_transactions",
                              "idx_financial_transactions_transfer_group")),
            DropColumns("financial_transactions", {"transfer_counterpart_id", "transfer_group_id"}) >>)

BankAccountInitialBalanceOn1751510000000 ==
    Migration(751,
         << Add("condominium_bank_accounts", {"initial_balance_on"}) >>,
         << DropColumns("condominium_bank_accounts", {"initial_balance_on"}) >>)

TransactionWorkLink1751520000000 ==
    Migration(752,
         << Add("financial_transactions", {"work_id"}),
            Bind("financial_transactions",
                {SetNull("fk_financial_transactions_work", "work_id", "condominium_works")}),
            Index("financial_transactions", "idx_financial_transactions_work", "condominium_id"),
            Add("condominium_work_timeline_entries", {"financial_transaction_id"}),
            Index("condominium_work_timeline_entries", "uq_work_timeline_financial_transaction",
                  "financial_transaction_id"),
            Bind("condominium_work_timeline_entries",
                {Cascade("fk_work_timeline_financial_transaction", "financial_transaction_id",
                         "financial_transactions")}) >>,
         << MySQLOnly(Unbind("condominium_work_timeline_entries",
                             {"fk_work_timeline_financial_transaction"})),
            MySQLOnly(Unindex("condominium_work_timeline_entries",
                              "uq_work_timeline_financial_transaction")),
            DropColumns("condominium_work_timeline_entries", {"financial_transaction_id"}),
            MySQLOnly(Unbind("financial_transactions", {"fk_financial_transactions_work"})),
            MySQLOnly(Unindex("financial_transactions", "idx_financial_transactions_work")),
            DropColumns("financial_transactions", {"work_id"}) >>)

CondominiumFeeSlipDeliveryLogs1751530000000 ==
    Migration(753,
         << Create("condominium_fee_slip_delivery_logs",
                {"id", "condominium_id", "competence_ym", "charge_id", "unit_id",
                 "unit_identifier", "actor_user_id", "action", "detail", "created_at"},
                {SetNull("FK_fee_slip_delivery_charge", "charge_id",
                         "condominium_fee_charges")}) >>,
         << Drop("condominium_fee_slip_delivery_logs") >>)

CondominiumWorkQueueOrder1751540000000 ==
    Migration(754,
         << Add("condominium_works", {"queue_order"}),
            Index("condominium_works", "IDX_cw_condo_queue", "condominium_id") >>,
         << Unindex("condominium_works", "IDX_cw_condo_queue"),
            DropColumns("condominium_works", {"queue_order"}) >>)

CondominiumSuppliers1751550000000 ==
    Migration(755,
         << Create("condominium_suppliers",
                {"id", "condominium_id", "name", "phone", "pix_key", "created_at",
                 "updated_at"},
                {Cascade("FK_condominium_suppliers_condo", "condominium_id", "condominiums")}),
            Index("condominium_suppliers", "IDX_condominium_suppliers_condo", "condominium_id"),
            Index("condominium_suppliers", "IDX_condominium_suppliers_condo_name",
                  "condominium_id"),
            AddWith("condominium_work_budgets",
                {"supplier_id"},
                {SetNull("FK_condominium_work_budgets_supplier", "supplier_id",
                         "condominium_suppliers")}),
            Index("condominium_work_budgets", "IDX_condominium_work_budgets_supplier",
                  "supplier_id") >>,
         << DropColumnsWith("condominium_work_budgets",
                {"FK_condominium_work_budgets_supplier"},
                {"supplier_id"}),
            Unindex("condominium_suppliers", "IDX_condominium_suppliers_condo_name"),
            DropStrict("condominium_suppliers") >>)

SupplierCategories1751560000000 ==
    Migration(756,
         << Create("condominium_supplier_categories",
                {"id", "condominium_id", "name", "created_at", "updated_at"}, {}),
            AddWith("condominium_suppliers",
                {"category_id"},
                {SetNull("FK_condominium_suppliers_category", "category_id",
                         "condominium_supplier_categories")}),
            Index("condominium_suppliers", "IDX_condominium_suppliers_category", "category_id") >>,
         << DropColumnsWith("condominium_suppliers",
                {"FK_condominium_suppliers_category"},
                {"category_id"}),
            DropStrict("condominium_supplier_categories") >>)

SupplierContactName1751570000000 ==
    Migration(757,
         << Add("condominium_suppliers", {"contact_name"}) >>,
         << DropColumns("condominium_suppliers", {"contact_name"}) >>)

WorkBudgetScheduledAt1751580000000 ==
    Migration(758,
         << Add("condominium_work_budgets", {"scheduled_at"}) >>,
         << DropColumns("condominium_work_budgets", {"scheduled_at"}) >>)

PlanningPollQuestions1751590000000 ==
    Migration(759,
         << UnlessTable("planning_poll_questions",
                << Create("planning_poll_questions",
                       {"id", "poll_id", "title", "sort_order", "allow_multiple",
                        "decided_option_id"},
                       {Cascade("FK_ppq_poll", "poll_id", "planning_polls")}) >>),
            UnlessColumn("planning_poll_options", "question_id",
                << Add("planning_poll_options", {"question_id"}) >>),
            UnlessRef("planning_poll_options", "FK_ppo_question",
                << Bind("planning_poll_options",
                       {Cascade("FK_ppo_question", "question_id",
                                "planning_poll_questions")}) >>) >>,
         << IfRef("planning_poll_options", "FK_ppo_question",
                << Unbind("planning_poll_options", {"FK_ppo_question"}) >>),
            IfColumn("planning_poll_options", "question_id",
                << DropColumns("planning_poll_options", {"question_id"}) >>),
            IfTable("planning_poll_questions", << DropStrict("planning_poll_questions") >>) >>)

PlanningPollMinutesBody1751600000000 ==
    Migration(760,
         << Add("planning_polls", {"minutes_body"}) >>,
         << DropColumns("planning_polls", {"minutes_body"}) >>)

PlanningPollAbstentions1751610000000 ==
    Migration(761,
         << MySQLOnly(UnlessTable("planning_poll_abstentions",
                << Create("planning_poll_abstentions",
                       {"id", "poll_id", "unit_id", "question_id", "recorded_by_user_id",
                        "recorded_at"},
                       {Cascade("FK_planning_poll_abstentions_poll", "poll_id", "planning_polls"),
                        Cascade("FK_planning_poll_abstentions_unit", "unit_id", "units"),
                        Cascade("FK_planning_poll_abstentions_question", "question_id",
                                "planning_poll_questions"),
                        Restricted("FK_planning_poll_abstentions_user", "recorded_by_user_id",
                                   "users")}) >>)) >>,
         << MySQLOnly(IfTable("planning_poll_abstentions",
                << DropStrict("planning_poll_abstentions") >>)) >>)

PlanningPollFinalResolution1751700000000 ==
    Migration(770,
         << Add("planning_polls", {"final_opinion"}) >>,
         << DropColumns("planning_polls", {"final_opinion"}) >>)

PlanningPollArchivedAt1751800000000 ==
    Migration(780,
         << Add("planning_polls", {"archived_at"}) >>,
         << DropColumns("planning_polls", {"archived_at"}) >>)

WorkBudgetTitle1751810000000 ==
    Migration(781,
         << Add("condominium_work_budgets", {"title"}) >>,
         << DropColumns("condominium_work_budgets", {"title"}) >>)

CondominiumMaintenances1751820000000 ==
    Migration(782,
         << Create("condominium_maintenances",
                {"id", "condominium_id", "title", "description", "location",
                 "replaced_parts", "supplier_id", "supplier_name", "status",
                 "created_by_user_id", "created_at", "updated_at"}, {}),
            Create("condominium_maintenance_timeline_entries",
                {"id", "maintenance_id", "kind", "body", "storage_key",
                 "original_filename", "mime_type", "size_bytes",
                 "financial_transaction_id", "author_user_id", "author_display_name",
                 "created_at"}, {}),
            Create("condominium_maintenance_timeline_attachments",
                {"id", "entry_id", "storage_key", "original_filename", "mime_type",
                 "size_bytes", "created_at"}, {}),
            OnPostgres(
                << Bind("condominium_maintenances",
                       {Cascade("FK_cm_condo", "condominium_id", "condominiums"),
                        Cascade("FK_cm_creator", "created_by_user_id", "users")}),
                   Bind("condominium_maintenance_timeline_entries",
                       {Cascade("FK_cmte_maintenance", "maintenance_id",
                                "condominium_maintenances"),
                        Cascade("FK_cmte_author", "author_user_id", "users")}),
                   Bind("condominium_maintenance_timeline_attachments",
                       {Cascade("FK_cmta_entry", "entry_id",
                                "condominium_maintenance_timeline_entries")}) >>),
            Add("financial_transactions", {"maintenance_id"}),
            OnPostgres(
                << Bind("condominium_maintenance_timeline_entries",
                       {Cascade("FK_cmte_financial_transaction", "financial_transaction_id",
                                "financial_transactions")}),
                   Bind("financial_transactions",
                       {SetNull("FK_ft_maintenance", "maintenance_id",
                                "condominium_maintenances")}) >>) >>,
         << OnPostgres(
                << Unbind("financial_transactions", {"FK_ft_maintenance"}),
                   Unbind("condominium_maintenance_timeline_entries",
                       {"FK_cmte_financial_transaction"}) >>),
            DropColumns("financial_transactions", {"maintenance_id"}),
            DropStrict("condominium_maintenance_timeline_attachments"),
            DropStrict("condominium_maintenance_timeline_entries"),
            DropStrict("condominium_maintenances") >>)

CondominiumWorkAllocationRule1751830000000 ==
    Migration(783,
         << Add("condominium_works", {"allocation_rule"}) >>,
         << DropColumns("condominium_works", {"allocation_rule"}) >>)

UnitFeeCreditEntries1751840000000 ==
    Migration(784,
         << Create("unit_fee_credit_entries",
                {"id", "condominium_id", "unit_id", "signed_amount_cents", "entry_kind",
                 "justification", "payment_receipt_storage_key", "bank_account_id",
                 "charge_id", "actor_user_id", "created_at"},
                {Cascade("FK_unit_fee_credit_condo", "condominium_id", "condominiums"),
                 Cascade("FK_unit_fee_credit_unit", "unit_id", "units"),
                 SetNull("FK_unit_fee_credit_bank", "bank_account_id", "condominium_bank_accounts"),
                 SetNull("FK_unit_fee_credit_charge", "charge_id", "condominium_fee_charges")}) >>,
         << Drop("unit_fee_credit_entries") >>)

UnitFeeCreditFinancialTransaction1751850000000 ==
    Migration(785,
         << Add("unit_fee_credit_entries", {"financial_transaction_id"}),
            Bind("unit_fee_credit_entries",
                {SetNull("FK_unit_fee_credit_tx", "financial_transaction_id",
                         "financial_transactions")}),
            Index("unit_fee_credit_entries", "IDX_unit_fee_credit_tx",
                  "financial_transaction_id") >>,
         << Unindex("unit_fee_credit_entries", "IDX_unit_fee_credit_tx"),
            Unbind("unit_fee_credit_entries", {"FK_unit_fee_credit_tx"}),
            DropColumns("unit_fee_credit_entries", {"financial_transaction_id"}) >>)

(***************************************************************************)
(* migrations of the data source, in the order of the file.                *)
(***************************************************************************)

Registered ==
    << InitialSchema1744300000000,
       UnitPersonsAndInvitations1744500000000,
       UsersPhoneSmsLogin1744600000000,
       PeopleAddress1744700000000,
       Financial1744850000000,
       PasswordResetChallenges1744900000000,
       FinancialFundPeriod1744950000000,
       FundsPermanentAllocation1744960000000,
       TransactionReceipt1744970000000,
       CondominiumFees1744980000000,
       DropFeeAdjustment1744990000000,
       PlanningGovernanceDocuments1750000000000,
       PlanningPollMultipleChoice1750050000000,
       PlanningPollAttachments1750100000000,
       CondominiumInvitations1750150000000,
       CondominiumInvitationsUnit1750160000000,
       CondominiumInvitationPlainToken1750170000000,
       UsersPlatformAdmin1750200000000,
       SaasBilling1750210000000,
       SaasPlans1750220000000,
       SaasUserVouchers1750230000000,
       SaasVouchersCatalog1750240000000,
       SaasBillingDueDay1750250000000,
       CondominiumSaasPlan1750260000000,
       SaasPlanCatalogBlurb1750270000000,
       SaasPlanPeriodsChangeRequests1750280000000,
       SaasPlanUnitPriceTiers1750290000000,
       TransactionRecurringSeries1750300000000,
       CondominiumBillingContact1750310000000,
       TransactionCompetencyRecurrence1750310000000,
       CondominiumManagementLogo1750320000000,
       UnitMemberDisplayNames1750330000000,
       DropCondominiumDocumentMembersNote1750350000000,
       UnitMultipleResponsibles1750360000000,
       CondominiumTransparencyPixQrcode1750370000000,
       CondominiumBillingChargeModel1750380000000,
       SaasPlanFeatures1750390000000,
       FeeChargePaymentReceipt1750400000000,
       UserSignaturePng1750410000000,
       PlanningPollCompetenceDate1750420000000,
       Communications1750430000000,
       CommunicationAudienceChannels1751000000000,
       CommunicationReadLinks1751100000000,
       CommunicationReadAccessLogs1751200000000,
       CommunicationDisplayNames1751210000000,
       SupportTickets1751220000000,
       SupportTicketMessagesViewToken1751230000000,
       SupportTicketTarget1751300000000,
       SupportMessageAttachments1751310000000,
       CondominiumLibraryDocuments1751320000000,
       CondominiumLibraryDownloadLog1751400000000,
       TransactionDocument1751330000000,
       TransactionMultiDocuments1751340000000,
       CondominiumInvitationsEmailOptionalPhone1751350000000,
       EnsureTransactionCompetencyColumns1751240000000,
       CondominiumFeeChargePaymentLogs1751250000000,
       UnitsFinancialResponsiblePerson1751260000000,
       UnitsPendingWhatsappPhone1751410000000,
       FinancialTransactionPaymentStatus1751420000000,
       Suppliers1751430000000,
       FinancialTransactionSupplier1751450000000,
       CondominiumWorks1751450000000,
       ConstructionWorks1751460000000,
       CondominiumWorkBudgetAttachments1751460000000,
       CondominiumWorkTimelineAttachments1751470000000,
       PlanningPollMinutesAndMeetingNotes1751470000000,
       CondominiumBankAccounts1751480000000,
       TransactionBankAccount1751490000000,
       TransactionTransfer1751500000000,
       BankAccountInitialBalanceOn1751510000000,
       TransactionWorkLink1751520000000,
       CondominiumWorkQueueOrder1751540000000,
       CondominiumSuppliers1751550000000,
       SupplierCategories1751560000000,
       SupplierContactName1751570000000,
       WorkBudgetScheduledAt1751580000000,
       WorkBudgetTitle1751810000000,
       CondominiumMaintenances1751820000000,
       CondominiumWorkAllocationRule1751830000000,
       UnitFeeCreditEntries1751840000000,
       UnitFeeCreditFinancialTransaction1751850000000,
       PlanningPollQuestions1751590000000,
       PlanningPollAbstentions1751610000000 >>

\* Classes in src/migrations that the list leaves out.
Unlisted ==
    { CommunicationSoftDelete1751430000000,
      CommunicationPdfChannel1751440000000,
      CondominiumFeeSlipDeliveryLogs1751530000000,
      PlanningPollMinutesBody1751600000000,
      PlanningPollFinalResolution1751700000000,
      PlanningPollArchivedAt1751800000000 }
=============================================================================
