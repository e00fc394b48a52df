---------------------------- MODULE EntityTables ----------------------------
(***************************************************************************)
(* The entities of TypeORM: the table each class is stored in, the columns *)
(* its queries name, and its relations with the onDelete they declare      *)
(* (RESTRICT when there is none).  One definition for each class of the    *)
(* *.entity.ts files, and the set of those the application loads.          *)
(***************************************************************************)
EXTENDS Naturals

Entity(t, cols, relations) == [table |-> t, cols |-> cols, relations |-> relations]

To(c, t, rule) == [col |-> c, to |-> t, rule |-> rule]

\* Deleting the row of t deletes this one, sets the column to NULL, or is refused.
DeletedWith(c, t)  == To(c, t, "cascade")
Forgets(c, t)      == To(c, t, "set_null")
Holds(c, t)        == To(c, t, "restrict")

LoginSmsChallenge ==
    Entity("login_sms_challenges",
        {"id", "phone", "code_hash", "expires_at", "created_at"}, {})

PasswordResetChallenge ==
    Entity("password_reset_challenges",
        {"id", "channel", "destination", "code_hash", "expires_at", "created_at"}, {})

CommunicationAttachment ==
    Entity("communication_attachments",
        {"id", "communication_id", "storage_key", "mime_type", "original_filename",
         "size_bytes", "sort_order", "uploaded_by_user_id", "created_at"},
        {DeletedWith("communication_id", "communications"),
         Holds("uploaded_by_user_id", "users")})

CommunicationReadAccessLog ==
    Entity("communication_read_access_logs",
        {"id", "communication_id", "user_id", "reader_display_name", "unit_id", "channel",
         "kind", "read_link_id", "accessed_at"},
        {DeletedWith("communication_id", "communications"),
         Forgets("read_link_id", "communication_read_links")})

CommunicationReadLink ==
    Entity("communication_read_links",
        {"id", "communication_id", "user_id", "unit_id", "channel", "token_hash",
         "expires_at", "consumed_at", "created_at"},
        {DeletedWith("communication_id", "communications")})

CommunicationRecipient ==
    Entity("communication_recipients",
        {"id", "communication_id", "user_id", "recipient_display_name", "email_snapshot",
         "phone_snapshot", "email_status", "sms_status", "email_error", "sms_error",
         "whatsapp_status", "whatsapp_error", "email_token_hash", "email_token_expires_at",
         "read_at", "read_source", "created_at"},
        {DeletedWith("communication_id", "communications"),
         DeletedWith("user_id", "users")})

Communication ==
    Entity("communications",
        {"id", "condominium_id", "title", "body", "status", "created_by_user_id", "sent_at",
         "last_broadcast_user_id", "last_broadcast_user_name", "audience_scope",
         "audience_unit_ids", "audience_grouping_ids", "channel_email_enabled",
         "channel_sms_enabled", "channel_whatsapp_enabled", "recipient_delivery_prefs",
         "created_at", "updated_at"},
        {DeletedWith("condominium_id", "condominiums"),
         Holds("created_by_user_id", "users")})

CondominiumLibraryDocumentDownload ==
    Entity("condominium_library_document_downloads",
        {"id", "condominium_id", "document_id", "user_id", "downloaded_at"},
        {DeletedWith("condominium_id", "condominiums"),
         DeletedWith("document_id", "condominium_library_documents"),
         DeletedWith("user_id", "users")})

CondominiumLibraryDocument ==
    Entity("condominium_library_documents",
        {"id", "condominium_id", "storage_key", "mime_type", "original_filename",
         "uploaded_by_user_id", "uploaded_by_display_name", "created_at"},
        {DeletedWith("condominium_id", "condominiums"),
         Forgets("uploaded_by_user_id", "users")})

CondominiumMaintenanceTimelineAttachment ==
    Entity("condominium_maintenance_timeline_attachments",
        {"id", "entry_id", "storage_key", "original_filename", "mime_type", "size_bytes",
         "created_at"},
        {DeletedWith("entry_id", "condominium_maintenance_timeline_entries")})

CondominiumMaintenanceTimelineEntry ==
    Entity("condominium_maintenance_timeline_entries",
        {"id", "maintenance_id", "kind", "body", "storage_key", "original_filename",
         "mime_type", "size_bytes", "financial_transaction_id", "author_user_id",
         "author_display_name", "created_at"},
        {DeletedWith("maintenance_id", "condominium_maintenances"),
         DeletedWith("financial_transaction_id", "financial_transactions"),
         DeletedWith("author_user_id", "users")})

CondominiumMaintenance ==
    Entity("condominium_maintenances",
        {"id", "condominium_id", "title", "description", "location", "replaced_parts",
         "supplier_id", "supplier_name", "status", "created_by_user_id", "created_at",
         "updated_at"},
        {DeletedWith("condominium_id", "condominiums"),
         DeletedWith("created_by_user_id", "users")})

CondominiumSupplierCategory ==
    Entity("condominium_supplier_categories",
        {"id", "condominium_id", "name", "created_at", "updated_at"}, {})

CondominiumSupplier ==
    Entity("condominium_suppliers",
        {"id", "condominium_id", "name", "contact_name", "phone", "pix_key", "category_id",
         "created_at", "updated_at"},
        {DeletedWith("condominium_id", "condominiums"),
         Forgets("category_id", "condominium_supplier_categories")})

CondominiumWorkBudget ==
    Entity("condominium_work_budgets",
        {"id", "work_id", "supplier_id", "supplier_name", "title", "amount_cents",
         "valid_until", "scheduled_at", "status", "notes", "created_by_user_id",
         "created_at"},
        {DeletedWith("work_id", "condominium_works"),
         Forgets("supplier_id", "condominium_suppliers"),
         DeletedWith("created_by_user_id", "users")})

CondominiumWorkTimelineAttachment ==
    Entity("condominium_work_timeline_attachments",
        {"id", "entry_id", "storage_key", "original_filename", "mime_type", "size_bytes",
         "created_at"},
        {DeletedWith("entry_id", "condominium_work_timeline_entries")})

CondominiumWorkTimelineEntry ==
    Entity("condominium_work_timeline_entries",
        {"id", "work_id", "kind", "body", "storage_key", "original_filename", "mime_type",
         "size_bytes", "budget_id", "financial_transaction_id", "author_user_id",
         "author_display_name", "created_at"},
        {DeletedWith("work_id", "condominium_works"),
         DeletedWith("budget_id", "condominium_work_budgets"),
         DeletedWith("financial_transaction_id", "financial_transactions"),
         DeletedWith("author_user_id", "users")})

CondominiumWork ==
    Entity("condominium_works",
        {"id", "condominium_id", "title", "description", "status", "queue_order",
         "allocation_rule", "created_by_user_id", "created_at", "updated_at"},
        {DeletedWith("condominium_id", "condominiums"),
         DeletedWith("created_by_user_id", "users")})

Condominium ==
    Entity("condominiums",
        {"id", "owner_id", "name", "saas_plan_id", "saas_voucher_id", "billing_pix_key",
         "billing_pix_beneficiary_name", "billing_pix_city",
         "transparency_pdf_include_pix_qrcode", "billing_charge_model",
         "billing_default_due_day", "billing_late_interest_bps",
         "syndic_whatsapp_for_receipts", "management_logo_storage_key", "created_at",
         "updated_at"},
        {Holds("owner_id", "users"), Holds("saas_plan_id", "saas_plans"),
         Forgets("saas_voucher_id", "saas_vouchers")})

CondominiumBankAccount ==
    Entity("condominium_bank_accounts",
        {"id", "condominium_id", "name", "bank_name", "initial_balance_cents",
         "initial_balance_on", "is_active", "created_at", "updated_at"},
        {DeletedWith("condominium_id", "condominiums")})

CondominiumFeeChargePaymentLog ==
    Entity("condominium_fee_charge_payment_logs",
        {"id", "charge_id", "actor_user_id", "action", "detail", "created_at"},
        {DeletedWith("charge_id", "condominium_fee_charges")})

CondominiumFeeCharge ==
    Entity("condominium_fee_charges",
        {"id", "condominium_id", "competence_ym", "unit_id", "amount_due_cents", "due_on",
         "status", "paid_at", "income_transaction_id", "bank_account_id",
         "payment_receipt_storage_key", "created_at", "updated_at"},
        {DeletedWith("condominium_id", "condominiums"), DeletedWith("unit_id", "units"),
         Forgets("bank_account_id", "condominium_bank_accounts"),
         Forgets("income_transaction_id", "financial_transactions")})

CondominiumFeeSlipDeliveryLog ==
    Entity("condominium_fee_slip_delivery_logs",
        {"id", "condominium_id", "competence_ym", "charge_id", "unit_id", "unit_identifier",
         "actor_user_id", "action", "detail", "created_at"},
        {Forgets("charge_id", "condominium_fee_charges")})

FinancialFund ==
    Entity("financial_funds",
        {"id", "condominium_id", "name", "is_permanent", "allocation_rule",
         "permanent_monthly_debit_cents", "term_total_per_unit_cents",
         "term_installment_count", "term_monthly_per_unit_cents", "period_start_ym",
         "period_end_ym", "created_at"},
        {DeletedWith("condominium_id", "condominiums")})

FinancialTransactionRecurrence ==
    Entity("financial_transaction_recurrences",
        {"id", "condominium_id", "kind", "title", "description", "amount_cents", "fund_id",
         "bank_account_id", "allocation_rule", "frequency", "end_mode", "occurrences_limit",
         "run_until", "occurrences_created", "next_occurrence_on", "competency_align",
         "active", "created_at", "updated_at"},
        {DeletedWith("condominium_id", "condominiums"),
         Forgets("fund_id", "financial_funds"),
         Forgets("bank_account_id", "condominium_bank_accounts")})

FinancialTransaction ==
    Entity("financial_transactions",
        {"id", "condominium_id", "fund_id", "bank_account_id", "supplier_id", "work_id",
         "maintenance_id", "kind", "amount_cents", "occurred_on", "competency_on", "title",
         "description", "document_storage_key", "document_storage_keys",
         "receipt_storage_key", "allocation_rule", "transfer_group_id",
         "transfer_counterpart_id", "recurring_series_id", "recurrence_id",
         "payment_status", "created_at", "updated_at"},
        {DeletedWith("condominium_id", "condominiums"),
         Forgets("fund_id", "financial_funds"),
         Holds("bank_account_id", "condominium_bank_accounts"),
         Forgets("supplier_id", "suppliers"), Forgets("work_id", "condominium_works"),
         Forgets("maintenance_id", "condominium_maintenances")})

FundMonthlyAccrual ==
    Entity("fund_monthly_accruals",
        {"id", "fund_id", "competence_ym", "transaction_id", "created_at"},
        {DeletedWith("fund_id", "financial_funds"),
         DeletedWith("transaction_id", "financial_transactions")})

TransactionUnitShare ==
    Entity("transaction_unit_shares",
        {"id", "transaction_id", "unit_id", "share_cents"},
        {DeletedWith("transaction_id", "financial_transactions"),
         DeletedWith("unit_id", "units")})

UnitFeeCreditEntry ==
    Entity("unit_fee_credit_entries",
        {"id", "condominium_id", "unit_id", "signed_amount_cents", "entry_kind",
         "justification", "payment_receipt_storage_key", "bank_account_id", "charge_id",
         "financial_transaction_id", "actor_user_id", "created_at"},
        {DeletedWith("condominium_id", "condominiums"), DeletedWith("unit_id", "units"),
         Forgets("bank_account_id", "condominium_bank_accounts"),
         Forgets("charge_id", "condominium_fee_charges"),
         Forgets("financial_transaction_id", "financial_transactions")})

Grouping ==
    Entity("groupings",
        {"id", "condominium_id", "name", "created_at"},
        {DeletedWith("condominium_id", "condominiums")})

CondominiumInvitation ==
    Entity("condominium_invitations",
        {"id", "token_hash", "invite_token_plain", "email", "phone", "condominium_id",
         "person_id", "unit_id", "invited_by_user_id", "expires_at", "consumed_at",
         "created_at"},
        {DeletedWith("condominium_id", "condominiums"), DeletedWith("person_id", "people"),
         DeletedWith("unit_id", "units"), Holds("invited_by_user_id", "users")})

Person ==
    Entity("people",
        {"id", "cpf", "email", "full_name", "address_zip", "address_street",
         "address_number", "address_complement", "address_neighborhood", "address_city",
         "address_state", "phone", "user_id", "created_at"},
        {Forgets("user_id", "users")})

UnitInvitation ==
    Entity("unit_invitations",
        {"id", "token_hash", "email", "cpf", "person_id", "unit_id", "as_owner",
         "as_responsible", "invited_by_user_id", "expires_at", "consumed_at", "created_at"},
        {DeletedWith("person_id", "people"), DeletedWith("unit_id", "units"),
         Holds("invited_by_user_id", "users")})

CondominiumDocument ==
    Entity("condominium_documents",
        {"id", "condominium_id", "kind", "status", "title", "storage_key", "mime_type",
         "poll_id", "visible_to_all_residents", "created_by_user_id", "election_payload",
         "created_at", "updated_at"},
        {DeletedWith("condominium_id", "condominiums"),
         Forgets("poll_id", "planning_polls"), Holds("created_by_user_id", "users")})

CondominiumParticipant ==
    Entity("condominium_participants",
        {"id", "condominium_id", "user_id", "person_id", "role", "created_at"},
        {DeletedWith("condominium_id", "condominiums"), DeletedWith("user_id", "users"),
         Forgets("person_id", "people")})

GovernanceAuditLog ==
    Entity("governance_audit_logs",
        {"id", "condominium_id", "action", "performed_by_user_id", "payload", "created_at"},
        {DeletedWith("condominium_id", "condominiums"),
         Holds("performed_by_user_id", "users")})

PlanningPollAbstention ==
    Entity("planning_poll_abstentions",
        {"id", "poll_id", "unit_id", "question_id", "recorded_by_user_id", "recorded_at"},
        {DeletedWith("poll_id", "planning_polls"), DeletedWith("unit_id", "units"),
         DeletedWith("question_id", "planning_poll_questions"),
         Holds("recorded_by_user_id", "users")})

PlanningPollAttachment ==
    Entity("planning_poll_attachments",
        {"id", "poll_id", "storage_key", "original_filename", "mime_type", "size_bytes",
         "sort_order", "uploaded_by_user_id", "created_at"},
        {DeletedWith("poll_id", "planning_polls"), Holds("uploaded_by_user_id", "users")})

PlanningPollMeetingNote ==
    Entity("planning_poll_meeting_notes",
        {"id", "condominium_id", "poll_id", "text", "created_by_user_id", "created_at"},
        {DeletedWith("poll_id", "planning_polls"), Holds("created_by_user_id", "users")})

PlanningPollOption ==
    Entity("planning_poll_options",
        {"id", "poll_id", "question_id", "label", "sort_order"},
        {DeletedWith("poll_id", "planning_polls"),
         DeletedWith("question_id", "planning_poll_questions")})

PlanningPollQuestion ==
    Entity("planning_poll_questions",
        {"id", "poll_id", "title", "sort_order", "allow_multiple", "decided_option_id"},
        {DeletedWith("poll_id", "planning_polls")})

PlanningPollVote ==
    Entity("planning_poll_votes",
        {"id", "poll_id", "unit_id", "option_id", "cast_by_user_id", "cast_at"},
        {DeletedWith("poll_id", "planning_polls"), DeletedWith("unit_id", "units"),
         DeletedWith("option_id", "planning_poll_options"),
         Holds("cast_by_user_id", "users")})

PlanningPoll ==
    Entity("planning_polls",
        {"id", "condominium_id", "title", "body", "minutes_body", "opens_at", "closes_at",
         "status", "assembly_type", "allow_multiple", "competence_date",
         "decided_option_id", "final_opinion", "archived_at", "created_by_user_id",
         "created_at", "updated_at"},
        {DeletedWith("condominium_id", "condominiums"),
         Holds("created_by_user_id", "users")})

CondominiumSaasPlanPeriod ==
    Entity("condominium_saas_plan_period",
        {"id", "condominium_id", "saas_plan_id", "valid_from", "valid_to", "created_at"},
        {DeletedWith("condominium_id", "condominiums"),
         Holds("saas_plan_id", "saas_plans")})

SaasCharge ==
    Entity("saas_charge",
        {"id", "condominium_id", "reference_month", "amount_cents", "due_date", "status",
         "asaas_payment_id", "invoice_url", "bank_slip_url", "pix_qr_payload", "paid_at",
         "raw_last_webhook_at", "created_at", "updated_at"},
        {DeletedWith("condominium_id", "condominiums")})

SaasCondominiumBilling ==
    Entity("saas_condominium_billing",
        {"id", "condominium_id", "monthly_amount_cents", "currency", "asaas_customer_id",
         "status", "billing_due_day", "notes", "created_at", "updated_at"},
        {DeletedWith("condominium_id", "condominiums")})

SaasPlanChangeRequest ==
    Entity("saas_plan_change_request",
        {"id", "condominium_id", "from_plan_id", "requested_plan_id",
         "requested_by_user_id", "status", "tenant_message", "admin_note", "decided_at",
         "decided_by_user_id", "created_at", "updated_at"},
        {DeletedWith("condominium_id", "condominiums"),
         Forgets("from_plan_id", "saas_plans"), Holds("requested_plan_id", "saas_plans"),
         DeletedWith("requested_by_user_id", "users"),
         Forgets("decided_by_user_id", "users")})

SaasPlan ==
    Entity("saas_plans",
        {"id", "name", "price_per_unit_cents", "unit_price_tiers", "currency", "is_default",
         "active", "catalog_blurb", "notes", "features", "created_at", "updated_at"}, {})

SaasVoucher ==
    Entity("saas_vouchers",
        {"id", "name", "code", "discount_percent", "valid_from", "valid_to", "notes",
         "active", "created_at", "updated_at"}, {})

SupplierCategory ==
    Entity("supplier_categories",
        {"id", "name", "created_by_user_id", "created_at"},
        {DeletedWith("created_by_user_id", "users")})

Supplier ==
    Entity("suppliers",
        {"id", "condominium_id", "category_id", "name", "legal_name", "document_cnpj_cpf",
         "pix_key_type", "pix_key_value", "phone", "email", "notes", "address_line",
         "created_at", "updated_at"},
        {DeletedWith("condominium_id", "condominiums"),
         Holds("category_id", "supplier_categories")})

SupportTicketMessage ==
    Entity("support_ticket_messages",
        {"id", "ticket_id", "author_user_id", "from_platform_admin", "body",
         "attachments_json", "created_at"},
        {DeletedWith("ticket_id", "support_tickets"),
         DeletedWith("author_user_id", "users")})

SupportTicket ==
    Entity("support_tickets",
        {"id", "user_id", "condominium_id", "target", "category", "title", "body", "status",
         "view_token", "created_at", "updated_at"},
        {DeletedWith("user_id", "users"), Forgets("condominium_id", "condominiums")})

UnitResponsiblePerson ==
    Entity("unit_responsible_people",
        {"id", "unit_id", "person_id", "created_at"},
        {DeletedWith("unit_id", "units"), DeletedWith("person_id", "people")})

Unit ==
    Entity("units",
        {"id", "grouping_id", "identifier", "floor", "notes", "owner_person_id",
         "owner_display_name", "responsible_display_name", "pending_whatsapp_phone",
         "financial_responsible_person_id", "created_at", "updated_at"},
        {DeletedWith("grouping_id", "groupings"), Forgets("owner_person_id", "people"),
         Forgets("financial_responsible_person_id", "people")})

User ==
    Entity("users",
        {"id", "email", "password_hash", "phone", "created_at", "platform_admin", "plan_id",
         "signature_png", "signature_updated_at"},
        {Holds("plan_id", "saas_plans")})

ConstructionProjectUpdate ==
    Entity("construction_project_updates",
        {"id", "project_id", "occurred_on", "body", "created_by_user_id",
         "attachment_storage_keys", "created_at", "updated_at"},
        {DeletedWith("project_id", "construction_projects"),
         Forgets("created_by_user_id", "users")})

ConstructionProject ==
    Entity("construction_projects",
        {"id", "condominium_id", "title", "description", "status", "started_on",
         "expected_end_on", "completed_on", "supplier_id", "created_at", "updated_at"},
        {DeletedWith("condominium_id", "condominiums"),
         Forgets("supplier_id", "suppliers")})

(***************************************************************************)
(* The classes that some module of the application hands to TypeORM.  The  *)
(* other two belong to code no module provides.                            *)
(***************************************************************************)

Entities ==
    { LoginSmsChallenge, PasswordResetChallenge, CommunicationAttachment,
      CommunicationReadAccessLog, CommunicationReadLink, CommunicationRecipient,
      Communication, CondominiumLibraryDocumentDownload, CondominiumLibraryDocument,
      CondominiumMaintenanceTimelineAttachment, CondominiumMaintenanceTimelineEntry,
      CondominiumMaintenance, CondominiumSupplierCategory, CondominiumSupplier,
      CondominiumWorkBudget, CondominiumWorkTimelineAttachment,
      CondominiumWorkTimelineEntry, CondominiumWork, Condominium, CondominiumBankAccount,
      CondominiumFeeChargePaymentLog, CondominiumFeeCharge, FinancialFund,
      FinancialTransaction, FundMonthlyAccrual, TransactionUnitShare, UnitFeeCreditEntry,
      Grouping, CondominiumInvitation, Person, UnitInvitation, CondominiumDocument,
      CondominiumParticipant, GovernanceAuditLog, PlanningPollAbstention,
      PlanningPollAttachment, PlanningPollMeetingNote, PlanningPollOption,
      PlanningPollQuestion, PlanningPollVote, PlanningPoll, CondominiumSaasPlanPeriod,
      SaasCharge, SaasCondominiumBilling, SaasPlanChangeRequest, SaasPlan, SaasVoucher,
      SupplierCategory, Supplier, SupportTicketMessage, SupportTicket,
      UnitResponsiblePerson, Unit, User, ConstructionProjectUpdate, ConstructionProject }
=============================================================================
