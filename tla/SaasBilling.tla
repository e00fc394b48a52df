----------------------------- MODULE SaasBilling -----------------------------
(***************************************************************************)
(* The subscription of one condominium to the platform: the monthly        *)
(* charges PlatformBillingAsaasService issues through the payment gateway  *)
(* Asaas, the webhooks and the synchronisation that bring the payments     *)
(* back, and the daily cycle that suspends a debtor.                       *)
(*                                                                         *)
(* Handlers are split at their awaits; `save` is that of EntitySave.  The  *)
(* gateway is external: it reports each change of a payment in a webhook   *)
(* that stays in `mail` until it is answered, so it may come late, twice   *)
(* or out of order; a webhook may also be lost.                            *)
(***************************************************************************)
EXTENDS Integers, FiniteSetsExt, EntitySave

CONSTANTS
    Charges,        \* the identifiers charges can get
    Admins,         \* workers that serve administrators,
    Hooks,          \*   webhooks,
    Crons,          \*   and the two crons; a worker may do several of these
    Patches,        \* the statuses administrators give the billing row
    MaxMonth,       \* bound: months that are billed
    MaxDay,         \* bound: days that pass
    Period,         \* days from one due date to the next
    GenerateBefore, \* SAAS_BILLING_GENERATE_DAYS_BEFORE
    SuspendAfter,   \* SAAS_BILLING_SUSPEND_DAYS_AFTER_DUE
    MaxFaults,      \* bound: crashes, errors, lost and repeated webhooks; None: no bound
    AnswersLost     \* whether the answer of createPayment, or the save of it, may be lost

Workers == Admins \cup Hooks \cup Crons

Months == 1..MaxMonth

Row == [month  : Months,
        status : {"pending", "confirmed", "overdue", "cancelled"},
        linked : BOOLEAN]                       \* asaasPaymentId is set

RowOrNone == Row \cup {None}

Billing == [status : {"active", "suspended"}, customer : BOOLEAN]

BillingOrNone == Billing \cup {None}

Reports == {"PENDING", "OVERDUE", "RECEIVED", "REFUNDED"}

Webhook == [c : Charges, report : Reports]

Payment == [month : Months, report : Reports]

PCs == {"idle",
        "bill_read", "bill_load", "bill_write",
        "find", "remove", "price", "insert", "pay", "pay_load", "pay_write", "undo",
        "suspend", "plan",
        "sync_get", "sync_load", "sync_write",
        "hook_load", "hook_write"}

Request == [pc    : PCs,
            then  : PCs,                        \* what follows the save of the billing row
            c     : Charges \cup {None},
            month : Months \cup {None},
            ent   : RowOrNone,                  \* the charge of the handler
            base  : RowOrNone,                  \* the row `save` compares it with
            bill  : BillingOrNone,              \* the same for the billing row
            was   : BillingOrNone,
            list  : [Charges -> RowOrNone],     \* charges still to be synchronised
            msg   : Webhook \cup {None}]

NoCharges == [c \in Charges |-> None]

Idle == [pc |-> "idle", then |-> "idle", c |-> None, month |-> None, ent |-> None,
         base |-> None, bill |-> None, was |-> None, list |-> NoCharges, msg |-> None]

ASSUME ConstantsAssumption ==
    /\ Patches \subseteq {"active", "suspended"}
    /\ MaxMonth \in Nat \ {0} /\ MaxDay \in Nat
    /\ Period \in Nat \ {0} /\ GenerateBefore \in Nat /\ SuspendAfter \in Nat
    /\ MaxFaults \in Nat \cup {None} /\ AnswersLost \in BOOLEAN
    /\ None \notin Nat \cup Row \cup Billing \cup Charges \cup Months \cup Webhook \cup Payment

VARIABLES
    charge,    \* table saas_charge, by identifier
    billing,   \* the row of saas_condominium_billing, or None
    gateway,   \* charge -> its payment at Asaas, or None
    said,      \* charge -> every state its payment has been in
    mail,      \* webhooks not answered yet
    today,     \* the calendar
    faults,    \* so far
    req        \* the handlers in progress

db == <<charge, billing>>
asaas == <<gateway, said, mail>>
vars == <<charge, billing, gateway, said, mail, today, faults, req>>

TypeOK ==
    /\ charge \in [Charges -> RowOrNone]
    /\ billing \in BillingOrNone
    /\ gateway \in [Charges -> Payment \cup {None}]
    /\ said \in [Charges -> SUBSET Reports]
    /\ mail \subseteq Webhook
    /\ today \in 0..MaxDay
    /\ faults \in Nat
    /\ req \in [Workers -> Request]

Init ==
    /\ charge = NoCharges
    /\ billing = None
    /\ gateway = [c \in Charges |-> None]
    /\ said = [c \in Charges |-> {}]
    /\ mail = {}
    /\ today = 0
    /\ faults = 0
    /\ req = [w \in Workers |-> Idle]

-----------------------------------------------------------------------------
At(w, pc) == req[w].pc = pc
Begin(w, r) == At(w, "idle") /\ req' = [req EXCEPT ![w] = r]
Goto(w, r) == req' = [req EXCEPT ![w] = r]
Finish(w) == req' = [req EXCEPT ![w] = Idle]

Faulting ==
    IF MaxFaults = None THEN UNCHANGED faults
    ELSE faults < MaxFaults /\ faults' = faults + 1

\* No other row has the condominium and month of ent (UQ_saas_charge_condo_month).
Insertable(c, ent) == \A d \in Charges \ {c} : charge[d] # None => charge[d].month # ent.month

\* The last statement of `save` on the charge of w, refused when it would
\* insert a second charge for a month.
Refused(w, ent) == req[w].base = None /\ ~Insertable(req[w].c, ent)

SaveAs(w, ent) ==
    LET c == req[w].c
    IN  charge' = [charge EXCEPT ![c] = Saved(@, req[w].base, ent)]

\* mutants: the gateway's word is stored as it is; anything unknown is confirmed
AsReported(report) == report
UnknownIsConfirmed(report) ==
    IF report = "OVERDUE" THEN "overdue" ELSE IF report = "REFUNDED" THEN "cancelled" ELSE "confirmed"

Status(report) ==
    CASE report = "RECEIVED" -> "confirmed"
      [] report = "OVERDUE"  -> "overdue"
      [] report = "REFUNDED" -> "cancelled"
      [] report = "PENDING"  -> "pending"

Applied(ent, report) == [ent EXCEPT !.linked = TRUE, !.status = Status(report)]

\* A webhook of a payment that was deleted or refunded sets the status only.
Notified(ent, report) ==
    IF report = "REFUNDED" THEN [ent EXCEPT !.status = "cancelled"] ELSE Applied(ent, report)

-----------------------------------------------------------------------------
(***************************************************************************)
(* The gateway.  A payment is paid, becomes overdue, is refunded after it  *)
(* was paid or deleted before.  It announces every state in a webhook.     *)
(***************************************************************************)
Announce(c, month, report) ==
    /\ gateway' = [gateway EXCEPT ![c] = [month |-> month, report |-> report]]
    /\ said' = [said EXCEPT ![c] = @ \cup {report}]
    /\ mail' = mail \cup {[c |-> c, report |-> report]}

PaymentMoves(c, report) ==
    /\ gateway[c] # None
    /\ <<gateway[c].report, report>> \in
          {<<"PENDING", "RECEIVED">>, <<"PENDING", "OVERDUE">>, <<"OVERDUE", "RECEIVED">>,
           <<"PENDING", "REFUNDED">>, <<"OVERDUE", "REFUNDED">>, <<"RECEIVED", "REFUNDED">>}
    /\ Announce(c, gateway[c].month, report)
    /\ UNCHANGED <<db, today, faults, req>>

LoseWebhook(m) ==
    /\ m \in mail
    /\ Faulting
    /\ mail' = mail \ {m}
    /\ UNCHANGED <<db, gateway, said, today, req>>

Tick ==
    /\ today < MaxDay
    /\ today' = today + 1
    /\ UNCHANGED <<db, asaas, faults, req>>

-----------------------------------------------------------------------------
(***************************************************************************)
(* save of the billing row: patchBilling, the suspension and the creation  *)
(* of a charge read it, change it and save it, with awaits in between.     *)
(***************************************************************************)
BillingLoad(w) ==
    /\ At(w, "bill_load")
    /\ Goto(w, [req[w] EXCEPT !.pc = "bill_write", !.was = billing])
    /\ UNCHANGED <<db, asaas, today, faults>>

\* The condominium has one billing row: a second INSERT is refused.
BillingWrite(w) ==
    /\ At(w, "bill_write")
    /\ IF req[w].was = None /\ billing # None
       THEN Finish(w) /\ UNCHANGED billing
       ELSE /\ billing' = Saved(billing, req[w].was, req[w].bill)
            /\ IF req[w].then = "idle" THEN Finish(w)
               ELSE Goto(w, [req[w] EXCEPT !.pc = req[w].then, !.then = "idle", !.was = None])
    /\ UNCHANGED <<charge, asaas, today, faults>>

PatchBilling(w, status) ==
    LET bill == IF billing = None THEN [status |-> status, customer |-> FALSE]
                ELSE [billing EXCEPT !.status = status]
    IN  /\ Begin(w, [Idle EXCEPT !.pc = "bill_load", !.bill = bill])
        /\ UNCHANGED <<db, asaas, today, faults>>

-----------------------------------------------------------------------------
(***************************************************************************)
(* createMonthlyCharge, for an administrator or from the daily cycle.      *)
(***************************************************************************)
CreateStart(w, month) ==
    /\ Begin(w, [Idle EXCEPT !.pc = "bill_read", !.month = month])
    /\ UNCHANGED <<db, asaas, today, faults>>

CreateBilling(w) ==
    /\ At(w, "bill_read")
    /\ IF billing # None /\ billing.status = "suspended" THEN Finish(w)
       ELSE Goto(w, [req[w] EXCEPT !.pc = "bill_load", !.then = "find",
                        !.bill = IF billing = None
                                 THEN [status |-> "active", customer |-> FALSE]
                                 ELSE billing])
    /\ UNCHANGED <<db, asaas, today, faults>>

Existing(month) == {c \in Charges : charge[c] # None /\ charge[c].month = month}

\* mutant: a charge that is not paid is replaced too
UnpaidReplaced(c) == charge[c].status # "confirmed"

Replaced(c) == charge[c].status = "cancelled"

CreateFind(w) ==
    LET old == Existing(req[w].month)
    IN  /\ At(w, "find")
        /\ IF \E c \in old : ~Replaced(c) THEN Finish(w)
           ELSE IF old = {} THEN Goto(w, [req[w] EXCEPT !.pc = "price"])
           ELSE \E c \in old : Goto(w, [req[w] EXCEPT !.pc = "remove", !.c = c])
        /\ UNCHANGED <<db, asaas, today, faults>>

CreateRemove(w) ==
    /\ At(w, "remove")
    /\ charge' = [charge EXCEPT ![req[w].c] = None]
    /\ Goto(w, [req[w] EXCEPT !.pc = "price", !.c = None])
    /\ UNCHANGED <<billing, asaas, today, faults>>

Fresh(c) == charge[c] = None /\ gateway[c] = None /\ \A w \in Workers : req[w].c # c

\* A month that costs nothing is confirmed at once.
CreateFree(w, c) ==
    LET ent == [month |-> req[w].month, status |-> "confirmed", linked |-> FALSE]
    IN  /\ At(w, "price")
        /\ Fresh(c)
        /\ charge' = IF Insertable(c, ent) THEN [charge EXCEPT ![c] = ent] ELSE charge
        /\ Finish(w)
        /\ UNCHANGED <<billing, asaas, today, faults>>

\* ensureAsaasCustomer: the billing row is saved again when it had no customer.
CreatePriced(w) ==
    /\ At(w, "price")
    /\ IF req[w].bill.customer THEN Goto(w, [req[w] EXCEPT !.pc = "insert"])
       ELSE Goto(w, [req[w] EXCEPT !.pc = "bill_load", !.then = "insert",
                                   !.bill.customer = TRUE])
    /\ UNCHANGED <<db, asaas, today, faults>>

CreateInsert(w, c) ==
    LET ent == [month |-> req[w].month, status |-> "pending", linked |-> FALSE]
    IN  /\ At(w, "insert")
        /\ Fresh(c)
        /\ IF Insertable(c, ent)
           THEN /\ charge' = [charge EXCEPT ![c] = ent]
                /\ Goto(w, [req[w] EXCEPT !.pc = "pay", !.c = c, !.ent = ent, !.bill = None])
           ELSE Finish(w) /\ UNCHANGED charge
        /\ UNCHANGED <<billing, asaas, today, faults>>

\* Bound: the handler ends when Charges has no identifier left.
OutOfIdentifiers(w) ==
    /\ At(w, "price") \/ At(w, "insert")
    /\ ~\E c \in Charges : Fresh(c)
    /\ Finish(w)
    /\ UNCHANGED <<db, asaas, today, faults>>

CreatePay(w) ==
    LET c == req[w].c
    IN  /\ At(w, "pay")
        /\ Announce(c, req[w].month, "PENDING")
        /\ Goto(w, [req[w] EXCEPT !.pc = "pay_load", !.ent = Applied(@, "PENDING")])
        /\ UNCHANGED <<db, today, faults>>

CreatePayRefused(w) ==
    /\ At(w, "pay")
    /\ Faulting
    /\ Goto(w, [req[w] EXCEPT !.pc = "undo"])
    /\ UNCHANGED <<db, asaas, today>>

\* The gateway has the payment, but its answer is lost.
CreatePayLost(w) ==
    /\ At(w, "pay")
    /\ AnswersLost
    /\ Faulting
    /\ Announce(req[w].c, req[w].month, "PENDING")
    /\ Goto(w, [req[w] EXCEPT !.pc = "undo"])
    /\ UNCHANGED <<db, today>>

CreateLoad(w) ==
    /\ At(w, "pay_load")
    /\ Goto(w, [req[w] EXCEPT !.pc = "pay_write", !.base = charge[req[w].c]])
    /\ UNCHANGED <<db, asaas, today, faults>>

CreateWrite(w) ==
    /\ At(w, "pay_write")
    /\ IF Refused(w, req[w].ent)
       THEN Goto(w, [req[w] EXCEPT !.pc = "undo"]) /\ UNCHANGED charge
       ELSE SaveAs(w, req[w].ent) /\ Finish(w)
    /\ UNCHANGED <<billing, asaas, today, faults>>

\* The exception handler removes the charge.
CreateUndo(w) ==
    /\ At(w, "undo")
    /\ charge' = [charge EXCEPT ![req[w].c] = None]
    /\ Finish(w)
    /\ UNCHANGED <<billing, asaas, today, faults>>

Create(w) ==
    \/ CreateBilling(w) \/ CreateFind(w) \/ CreateRemove(w) \/ CreatePriced(w)
    \/ (\E c \in Charges : CreateInsert(w, c)) \/ OutOfIdentifiers(w)
    \/ CreatePay(w) \/ CreateLoad(w) \/ CreateWrite(w) \/ CreateUndo(w)

-----------------------------------------------------------------------------
(***************************************************************************)
(* runDailySubscriptionBillingCycle: suspend the debtor, then bill the     *)
(* month after the last one that has a charge.                             *)
(***************************************************************************)
Due(month) == month * Period

\* mutant: only charges the gateway reported overdue count
OverdueStatus == {"overdue"}

UnpaidStatus == {"pending", "overdue"}

Delinquent ==
    {c \in Charges : /\ charge[c] # None
                     /\ charge[c].status \in UnpaidStatus
                     /\ Due(charge[c].month) + SuspendAfter <= today}

CycleStart(w) ==
    /\ Begin(w, [Idle EXCEPT !.pc = IF Delinquent # {} THEN "suspend" ELSE "plan"])
    /\ UNCHANGED <<db, asaas, today, faults>>

CycleSuspend(w) ==
    /\ At(w, "suspend")
    /\ IF billing # None /\ billing.status = "active"
       THEN Goto(w, [req[w] EXCEPT !.pc = "bill_load", !.then = "plan",
                        !.bill = [billing EXCEPT !.status = "suspended"]])
       ELSE Goto(w, [req[w] EXCEPT !.pc = "plan"])
    /\ UNCHANGED <<db, asaas, today, faults>>

Billed == {charge[c].month : c \in {d \in Charges : charge[d] # None /\ charge[d].status # "cancelled"}}

NextMonth == IF Billed = {} THEN 1 ELSE Max(Billed) + 1

\* The reads before createMonthlyCharge, which reads both tables again.
CyclePlan(w) ==
    /\ At(w, "plan")
    /\ IF /\ billing # None => billing.status # "suspended"
          /\ NextMonth \in Months
          /\ Due(NextMonth) - GenerateBefore <= today
       THEN Goto(w, [Idle EXCEPT !.pc = "bill_read", !.month = NextMonth])
       ELSE Finish(w)
    /\ UNCHANGED <<db, asaas, today, faults>>

-----------------------------------------------------------------------------
(***************************************************************************)
(* syncPendingChargesFromAsaas: list the unpaid charges that have a        *)
(* payment, then GET each payment, apply it to the entity and save it.     *)
(***************************************************************************)
\* mutant: only pending charges are asked for
PendingListed == {c \in Charges : charge[c] # None /\ charge[c].status = "pending" /\ charge[c].linked}

Listed == {c \in Charges : charge[c] # None /\ charge[c].status \in UnpaidStatus /\ charge[c].linked}

SyncStart(w) ==
    /\ Listed # {}
    /\ Begin(w, [Idle EXCEPT !.pc = "sync_get",
                             !.list = [c \in Charges |-> IF c \in Listed THEN charge[c] ELSE None]])
    /\ UNCHANGED <<db, asaas, today, faults>>

\* The record of w after it is done with charge c.
NextListed(w, c) ==
    LET rest == [req[w].list EXCEPT ![c] = None]
    IN  IF rest = NoCharges THEN Idle ELSE [Idle EXCEPT !.pc = "sync_get", !.list = rest]

SyncGet(w, c) ==
    /\ At(w, "sync_get")
    /\ req[w].list[c] # None
    /\ Goto(w, [req[w] EXCEPT !.pc = "sync_load", !.c = c,
                              !.ent = Applied(req[w].list[c], gateway[c].report)])
    /\ UNCHANGED <<db, asaas, today, faults>>

\* An error is noted and the loop goes on.
SyncError(w, c) ==
    /\ At(w, "sync_get")
    /\ req[w].list[c] # None
    /\ Faulting
    /\ Goto(w, NextListed(w, c))
    /\ UNCHANGED <<db, asaas, today>>

SyncLoad(w) ==
    /\ At(w, "sync_load")
    /\ Goto(w, [req[w] EXCEPT !.pc = "sync_write", !.base = charge[req[w].c]])
    /\ UNCHANGED <<db, asaas, today, faults>>

SyncWrite(w) ==
    /\ At(w, "sync_write")
    /\ IF Refused(w, req[w].ent) THEN UNCHANGED charge ELSE SaveAs(w, req[w].ent)
    /\ Goto(w, NextListed(w, req[w].c))
    /\ UNCHANGED <<billing, asaas, today, faults>>

-----------------------------------------------------------------------------
(***************************************************************************)
(* handleAsaasWebhook: find the charge, apply the payment, save, answer.   *)
(* A webhook for a charge that is not there is answered and forgotten.     *)
(***************************************************************************)
HookRead(w, m) ==
    /\ m \in mail
    /\ IF charge[m.c] = None
       THEN At(w, "idle") /\ mail' = mail \ {m} /\ UNCHANGED req
       ELSE /\ Begin(w, [Idle EXCEPT !.pc = "hook_load", !.c = m.c, !.msg = m,
                                     !.ent = Notified(charge[m.c], m.report)])
            /\ UNCHANGED mail
    /\ UNCHANGED <<db, gateway, said, today, faults>>

HookLoad(w) ==
    /\ At(w, "hook_load")
    /\ Goto(w, [req[w] EXCEPT !.pc = "hook_write", !.base = charge[req[w].c]])
    /\ UNCHANGED <<db, asaas, today, faults>>

\* The answer may be lost: the gateway sends the webhook again.
HookWrite(w) ==
    /\ At(w, "hook_write")
    /\ IF Refused(w, req[w].ent)
       THEN UNCHANGED <<charge, mail, faults>>
       ELSE /\ SaveAs(w, req[w].ent)
            /\ \/ mail' = mail \ {req[w].msg} /\ UNCHANGED faults
               \/ Faulting /\ UNCHANGED mail
    /\ Finish(w)
    /\ UNCHANGED <<billing, gateway, said, today>>

\* An exception or a crash between two awaits; the exception of the save that
\* follows createPayment is handled by removing the charge.
Fail(w) ==
    /\ ~At(w, "idle")
    /\ Faulting
    /\ \/ Finish(w)
       \/ At(w, "pay_write") /\ AnswersLost /\ Goto(w, [req[w] EXCEPT !.pc = "undo"])
    /\ UNCHANGED <<db, asaas, today>>

\* The steps of a handler that was started.
Proceed(w) ==
    \/ BillingLoad(w) \/ BillingWrite(w)
    \/ Create(w)
    \/ CycleSuspend(w) \/ CyclePlan(w)
    \/ (\E c \in Charges : SyncGet(w, c)) \/ SyncLoad(w) \/ SyncWrite(w)
    \/ HookLoad(w) \/ HookWrite(w)

Fault(w) ==
    \/ CreatePayRefused(w) \/ CreatePayLost(w) \/ Fail(w)
    \/ \E c \in Charges : SyncError(w, c)

Administer(w) ==
    \/ \E status \in Patches : PatchBilling(w, status)
    \/ \E month \in Months : CreateStart(w, month)

Sync == \E w \in Crons : SyncStart(w)

Cycle == \E w \in Crons : CycleStart(w)

Next ==
    \/ \E w \in Workers : Proceed(w) \/ Fault(w)
    \/ \E w \in Workers, c \in Charges : CreateFree(w, c)
    \/ \E w \in Admins : Administer(w)
    \/ \E w \in Hooks, m \in mail : HookRead(w, m)
    \/ Sync \/ Cycle \/ Tick
    \/ \E c \in Charges, report \in Reports : PaymentMoves(c, report)
    \/ \E m \in mail : LoseWebhook(m)

(***************************************************************************)
(* A handler that was started goes on, and both crons keep firing: they do *)
(* not depend on a handler being free, which is an artefact of Workers, so *)
(* their fairness is strong.  Nothing is assumed of users or the gateway.  *)
(***************************************************************************)
Fairness ==
    /\ \A w \in Workers : WF_vars(Proceed(w))
    /\ SF_vars(Sync)
    /\ SF_vars(Cycle)

Spec == Init /\ [][Next]_vars /\ Fairness
-----------------------------------------------------------------------------
\* A charge has a status only if the gateway reported it for that very charge,
\* whatever webhooks were repeated, reordered or lost; without a payment it is
\* pending or was free of charge.
Reported ==
    \A c \in Charges : charge[c] # None =>
        CASE charge[c].status = "confirmed" -> gateway[c] = None \/ "RECEIVED" \in said[c]
          [] charge[c].status = "overdue"   -> "OVERDUE" \in said[c]
          [] charge[c].status = "cancelled" -> "REFUNDED" \in said[c]
          [] charge[c].status = "pending"   -> TRUE

\* A month never has two payments that can be paid or were: a second one is
\* asked for only after the first was refunded or deleted, however requests of
\* administrators, the cycle, webhooks and crashes interleave.
OnePaymentPerMonth ==
    \A c, d \in Charges :
        /\ c # d
        /\ gateway[c] # None /\ gateway[d] # None
        /\ gateway[c].month = gateway[d].month
        => "REFUNDED" \in {gateway[c].report, gateway[d].report}

\* A payment the gateway holds as received ends up confirmed for good, even if
\* its webhooks were lost or a stale save took the confirmation back.
PaidIsConfirmed ==
    \A c \in Charges :
        <>[](charge[c] # None /\ charge[c].linked /\ gateway[c].report = "RECEIVED"
                => charge[c].status = "confirmed")

\* A condominium that goes on owing a charge beyond the days of grace is
\* suspended, and suspended again whenever somebody activates it.
Owes == \E c \in Charges : /\ charge[c] # None
                           /\ charge[c].status \in {"pending", "overdue"}
                           /\ today >= Period * charge[c].month + SuspendAfter

DebtorSuspended == <>[]Owes => []<>(billing # None /\ billing.status = "suspended")
=============================================================================
