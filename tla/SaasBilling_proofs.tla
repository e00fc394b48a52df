-------------------------- MODULE SaasBilling_proofs --------------------------
(***************************************************************************)
(* Theorems about SaasBilling, for every set of charges, every number of   *)
(* handlers and of faults, and with or without lost answers.               *)
(***************************************************************************)
EXTENDS SaasBilling, TLAPS

\* What a handler has loaded when it is about to use it.
WellFormed(r) ==
    /\ r.then \in {"idle", "find", "insert", "plan"}
    /\ r.pc \in {"bill_read", "find", "remove", "price", "insert", "pay"} => r.month \in Months
    /\ r.then \in {"find", "insert"} => r.month \in Months
    /\ r.pc \in {"bill_load", "bill_write", "find", "remove", "price", "insert"} => r.bill # None
    /\ r.pc \in {"remove", "pay", "pay_load", "pay_write", "undo", "sync_load", "sync_write",
                 "hook_load", "hook_write"} => r.c # None
    /\ r.pc \in {"pay", "pay_load", "pay_write", "sync_load", "sync_write",
                 "hook_load", "hook_write"} => r.ent # None

TInv == TypeOK /\ \A w \in Workers : WellFormed(req[w])

\* What the gateway has said of a charge agrees with a row of that charge.
Told(c, row) ==
    row # None =>
        /\ row.linked => gateway[c] # None
        /\ row.status = "confirmed" => gateway[c] = None \/ "RECEIVED" \in said[c]
        /\ row.status = "overdue" => "OVERDUE" \in said[c]
        /\ row.status = "cancelled" => "REFUNDED" \in said[c]

\* The entity a handler is about to save, and the charges it will ask for.
RequestTold(r) ==
    /\ r.pc \in {"pay_load", "pay_write", "sync_load", "sync_write", "hook_load", "hook_write"}
          => gateway[r.c] # None /\ Told(r.c, r.ent)
    /\ \A c \in Charges : r.list[c] # None => gateway[c] # None

\* A charge whose first payment is about to be asked for is pending and in the
\* hands of one handler: it cannot be confirmed as free and paid for as well.
PayingAlone(w) ==
    req[w].pc = "pay" =>
        /\ gateway[req[w].c] = None
        /\ charge[req[w].c] # None => charge[req[w].c].status = "pending"
        /\ \A v \in Workers \ {w} : req[v].c # req[w].c

SaidByGateway ==
    /\ \A c \in Charges : IF gateway[c] = None THEN said[c] = {} ELSE gateway[c].report \in said[c]
    /\ \A m \in mail : gateway[m.c] # None /\ m.report \in said[m.c]

RInv ==
    /\ \A c \in Charges : Told(c, charge[c])
    /\ SaidByGateway
    /\ \A w \in Workers : RequestTold(req[w]) /\ PayingAlone(w)

-----------------------------------------------------------------------------
\* For the payments of a month: a payment that is not refunded has its charge,
\* the table has one charge a month, and every copy of a charge has its month.
Live(c) == gateway[c] # None /\ gateway[c].report # "REFUNDED"

RowMonth(c, row) == row # None /\ gateway[c] # None => row.month = gateway[c].month

RequestMonth(r) ==
    /\ r.pc \in {"pay_load", "pay_write", "sync_load", "sync_write", "hook_load", "hook_write"}
          => r.ent.month = gateway[r.c].month
    /\ \A c \in Charges : RowMonth(c, r.list[c])
    /\ r.pc = "remove" => gateway[r.c] # None /\ gateway[r.c].report = "REFUNDED"
    /\ r.pc = "undo" => ~Live(r.c)

PayingMonth(r) ==
    r.pc = "pay" => /\ charge[r.c] # None
                    /\ charge[r.c].month = r.month
                    /\ r.ent.month = r.month

ChargeMonth(c) ==
    /\ RowMonth(c, charge[c])
    /\ Live(c) => charge[c] # None
    /\ "REFUNDED" \in said[c] => gateway[c] # None /\ gateway[c].report = "REFUNDED"

UniqueMonths ==
    \A c, d \in Charges :
        c # d /\ charge[c] # None /\ charge[d] # None => charge[c].month # charge[d].month

QInv ==
    /\ \A c \in Charges : ChargeMonth(c)
    /\ UniqueMonths
    /\ \A w \in Workers : RequestMonth(req[w]) /\ PayingMonth(req[w])

-----------------------------------------------------------------------------
LEMMA IdleIsRequest == Idle \in Request /\ Idle.pc = "idle" /\ WellFormed(Idle)
  BY DEF Idle, Request, PCs, NoCharges, RowOrNone, BillingOrNone, WellFormed

LEMMA InitType == Init => TInv
<1>1. SUFFICES ASSUME Init PROVE TInv
  OBVIOUS
<1>2. charge \in [Charges -> RowOrNone] /\ billing \in BillingOrNone
      /\ gateway \in [Charges -> Payment \cup {None}] /\ said \in [Charges -> SUBSET Reports]
      /\ mail \subseteq Webhook /\ faults \in Nat
  BY <1>1 DEF Init, NoCharges, RowOrNone, BillingOrNone
<1>3. today \in 0..MaxDay
  BY <1>1, ConstantsAssumption DEF Init
<1>4. req \in [Workers -> Request] /\ \A w \in Workers : WellFormed(req[w])
  BY <1>1, IdleIsRequest DEF Init
<1>5. QED
  BY <1>2, <1>3, <1>4 DEF TInv, TypeOK

\* save leaves a row or nothing where there was a row or nothing.
LEMMA SavedType ==
  ASSUME NEW row \in RowOrNone, NEW was \in RowOrNone, NEW ent \in Row
  PROVE  Saved(row, was, ent) \in RowOrNone
  BY DEF Saved, Merge, Row, RowOrNone

LEMMA SavedBillingType ==
  ASSUME NEW row \in BillingOrNone, NEW was \in BillingOrNone, NEW ent \in Billing
  PROVE  Saved(row, was, ent) \in BillingOrNone
  BY DEF Saved, Merge, Billing, BillingOrNone

\* A step that changes one request keeps the others.
LEMMA OneRequest ==
  ASSUME TInv, NEW w \in Workers, NEW r \in Request, WellFormed(r),
         req' = [req EXCEPT ![w] = r]
  PROVE  req' \in [Workers -> Request] /\ \A v \in Workers : WellFormed(req'[v])
  BY DEF TInv, TypeOK

\* A step of one handler that leaves every table and the gateway alone.
LEMMA RequestOnly ==
  ASSUME TInv, NEW w \in Workers, NEW r \in Request, WellFormed(r),
         req' = [req EXCEPT ![w] = r], faults' \in Nat,
         UNCHANGED <<charge, billing, gateway, said, mail, today>>
  PROVE  TInv'
  BY OneRequest DEF TInv, TypeOK

\* A step of one handler that stores or removes charges.
LEMMA ChargeOnly ==
  ASSUME TInv, NEW w \in Workers, NEW r \in Request, WellFormed(r),
         req' = [req EXCEPT ![w] = r], charge' \in [Charges -> RowOrNone],
         mail' \subseteq mail, faults' \in Nat,
         UNCHANGED <<billing, gateway, said, today>>
  PROVE  TInv'
  BY OneRequest DEF TInv, TypeOK

LEMMA FaultingType == TypeOK /\ Faulting => faults' \in Nat
  BY DEF TypeOK, Faulting

LEMMA StatusType ==
  ASSUME NEW report \in Reports
  PROVE  Status(report) \in {"pending", "confirmed", "overdue", "cancelled"}
  BY DEF Reports, Status

LEMMA AppliedType ==
  ASSUME NEW ent \in Row, NEW report \in Reports
  PROVE  /\ Applied(ent, report) \in Row
         /\ Applied(ent, report).status = Status(report)
         /\ Notified(ent, report) \in Row
         /\ Notified(ent, report).status = Status(report)
         /\ Notified(ent, report).month = ent.month
  BY StatusType DEF Row, Applied, Notified, Status

LEMMA StoredType ==
  ASSUME TInv, NEW w \in Workers, req[w].c \in Charges, NEW ent \in Row, SaveAs(w, ent)
  PROVE  charge' \in [Charges -> RowOrNone]
<1>1. req[w].base \in RowOrNone /\ charge[req[w].c] \in RowOrNone
  BY DEF TInv, TypeOK, Request
<1>2. Saved(charge[req[w].c], req[w].base, ent) \in RowOrNone
  BY <1>1, SavedType
<1>3. QED
  BY <1>2 DEF SaveAs, TInv, TypeOK

LEMMA AnnounceType ==
  ASSUME TypeOK, NEW c \in Charges, NEW month \in Months, NEW report \in Reports,
         Announce(c, month, report)
  PROVE  /\ gateway' \in [Charges -> Payment \cup {None}]
         /\ said' \in [Charges -> SUBSET Reports]
         /\ mail' \subseteq Webhook
<1>1. [month |-> month, report |-> report] \in Payment
      /\ [c |-> c, report |-> report] \in Webhook
  BY DEF Payment, Webhook
<1>2. said[c] \cup {report} \in SUBSET Reports
  BY DEF TypeOK
<1>3. QED
  BY <1>1, <1>2 DEF Announce, TypeOK

LEMMA NextListedType ==
  ASSUME TInv, NEW w \in Workers, NEW c
  PROVE  NextListed(w, c) \in Request /\ WellFormed(NextListed(w, c))
<1> DEFINE rest == [req[w].list EXCEPT ![c] = None]
           q == [Idle EXCEPT !.pc = "sync_get", !.list = rest]
<1>1. rest \in [Charges -> RowOrNone]
  BY DEF TInv, TypeOK, Request, RowOrNone
<1>2. q \in Request /\ WellFormed(q)
  <2> HIDE DEF rest
  <2>1. QED
    BY <1>1, IdleIsRequest DEF Idle, Request, PCs, WellFormed
<1>3. QED
  BY <1>2, IdleIsRequest DEF NextListed

-----------------------------------------------------------------------------
LEMMA BillingType ==
  ASSUME TInv, NEW w \in Workers, BillingLoad(w) \/ BillingWrite(w)
  PROVE  TInv'
<1>1. req[w] \in Request /\ WellFormed(req[w]) /\ billing \in BillingOrNone /\ faults \in Nat
  BY DEF TInv, TypeOK
<1>2. CASE BillingLoad(w)
  <2> DEFINE q == [req[w] EXCEPT !.pc = "bill_write", !.was = billing]
  <2>1. q \in Request /\ WellFormed(q)
    BY <1>1, <1>2 DEF BillingLoad, At, Request, PCs, WellFormed
  <2>2. QED
    BY <1>1, <1>2, <2>1, RequestOnly DEF BillingLoad, Goto, db, asaas
<1>3. CASE BillingWrite(w)
  <2> DEFINE q == [req[w] EXCEPT !.pc = req[w].then, !.then = "idle", !.was = None]
  <2>1. req[w].bill \in Billing /\ req[w].was \in BillingOrNone
    BY <1>1, <1>3 DEF BillingWrite, At, Request, WellFormed, BillingOrNone
  <2>2. billing' \in BillingOrNone
    BY <1>1, <1>3, <2>1, SavedBillingType DEF BillingWrite
  <2>3. ASSUME req[w].then # "idle"
        PROVE  q \in Request /\ WellFormed(q)
    <3>1. None \in BillingOrNone /\ "idle" \in PCs /\ req[w].then \in PCs
      BY <1>1 DEF BillingOrNone, PCs, Request
    <3>2. /\ q \in Request /\ q.pc = req[w].then /\ q.then = "idle" /\ q.month = req[w].month
          /\ q.bill = req[w].bill
      BY <1>1, <3>1 DEF Request
    <3>3. req[w].bill # None
      BY <1>1, <1>3 DEF BillingWrite, At, WellFormed
    <3> HIDE DEF q
    <3>4. WellFormed(q)
      BY <1>1, <2>3, <3>2, <3>3 DEF WellFormed
    <3>5. QED
      BY <3>2, <3>4
  <2>4. Finish(w) \/ (req[w].then # "idle" /\ Goto(w, q))
    BY <1>3 DEF BillingWrite
  <2>5. req' \in [Workers -> Request] /\ \A v \in Workers : WellFormed(req'[v])
    <3>1. CASE Finish(w)
      BY <3>1, IdleIsRequest, OneRequest DEF Finish
    <3>2. CASE req[w].then # "idle" /\ Goto(w, q)
      BY <2>3, <3>2, OneRequest DEF Goto
    <3>3. QED
      BY <2>4, <3>1, <3>2
  <2>6. QED
    BY <1>3, <2>2, <2>5 DEF BillingWrite, asaas, TInv, TypeOK
<1>4. QED
  BY <1>2, <1>3

LEMMA PatchType ==
  ASSUME TInv, NEW w \in Workers, NEW status \in Patches, PatchBilling(w, status)
  PROVE  TInv'
<1> DEFINE bill == IF billing = None THEN [status |-> status, customer |-> FALSE]
                   ELSE [billing EXCEPT !.status = status]
           q == [Idle EXCEPT !.pc = "bill_load", !.bill = bill]
<1>1. bill \in Billing /\ bill # None
  <2>1. status \in {"active", "suspended"} /\ (billing = None \/ billing \in Billing)
    BY ConstantsAssumption DEF TInv, TypeOK, BillingOrNone
  <2>2. bill \in Billing
    BY <2>1 DEF Billing
  <2>3. QED
    BY <2>2, ConstantsAssumption
<1>2. q \in Request /\ WellFormed(q)
  <2> HIDE DEF bill
  <2>1. QED
    BY <1>1, IdleIsRequest DEF Idle, Request, PCs, WellFormed, BillingOrNone
<1>3. req' = [req EXCEPT ![w] = q] /\ UNCHANGED <<db, asaas, today, faults>>
  BY DEF PatchBilling, Begin
<1>4. QED
  BY <1>2, <1>3, RequestOnly DEF TInv, TypeOK, db, asaas

LEMMA CreateType ==
  ASSUME TInv, NEW w \in Workers, Create(w) \/ Fault(w)
  PROVE  TInv'
<1>1. req[w] \in Request /\ WellFormed(req[w]) /\ faults \in Nat
  BY DEF TInv, TypeOK
<1> USE DEF At, Goto
<1>2. CASE CreateBilling(w)
  <2> DEFINE bill == IF billing = None THEN [status |-> "active", customer |-> FALSE] ELSE billing
             q == [req[w] EXCEPT !.pc = "bill_load", !.then = "find", !.bill = bill]
  <2>1. bill \in Billing /\ bill # None
    <3>1. bill \in Billing
      BY DEF TInv, TypeOK, BillingOrNone, Billing
    <3>2. QED
      BY <3>1, ConstantsAssumption
  <2>2. q \in Request /\ WellFormed(q)
    <3> HIDE DEF bill
    <3>1. bill \in BillingOrNone /\ "bill_load" \in PCs /\ "find" \in PCs
      BY <2>1 DEF BillingOrNone, PCs
    <3>2. /\ q \in Request /\ q.pc = "bill_load" /\ q.then = "find" /\ q.month = req[w].month
          /\ q.bill = bill
      BY <1>1, <3>1 DEF Request
    <3>3. req[w].month \in Months
      BY <1>1, <1>2 DEF CreateBilling, WellFormed
    <3> HIDE DEF q
    <3>4. WellFormed(q)
      BY <2>1, <3>2, <3>3 DEF WellFormed
    <3>5. QED
      BY <3>2, <3>4
  <2>3. Finish(w) \/ Goto(w, q)
    BY <1>2 DEF CreateBilling
  <2>4. UNCHANGED <<charge, billing, gateway, said, mail, today, faults>>
    BY <1>2 DEF CreateBilling, db, asaas
  <2>5. QED
    BY <1>1, <2>2, <2>3, <2>4, IdleIsRequest, RequestOnly DEF Finish
<1>3. CASE CreateFind(w)
  <2> DEFINE p == [req[w] EXCEPT !.pc = "price"]
             q(c) == [req[w] EXCEPT !.pc = "remove", !.c = c]
  <2>1. p \in Request /\ WellFormed(p)
    BY <1>1, <1>3 DEF CreateFind, Request, PCs, WellFormed
  <2>2. ASSUME NEW c \in Charges
        PROVE  q(c) \in Request /\ WellFormed(q(c))
    BY <1>1, <1>3, ConstantsAssumption DEF CreateFind, Request, PCs, WellFormed
  <2>3. Finish(w) \/ Goto(w, p) \/ \E c \in Charges : Goto(w, q(c))
    BY <1>3 DEF CreateFind, Existing
  <2>4. UNCHANGED <<charge, billing, gateway, said, mail, today, faults>>
    BY <1>3 DEF CreateFind, db, asaas
  <2>5. QED
    BY <1>1, <2>1, <2>2, <2>3, <2>4, IdleIsRequest, RequestOnly DEF Finish
<1>4. CASE CreateRemove(w)
  <2> DEFINE q == [req[w] EXCEPT !.pc = "price", !.c = None]
  <2>1. q \in Request /\ WellFormed(q)
    BY <1>1, <1>4 DEF CreateRemove, Request, PCs, WellFormed
  <2>2. charge' \in [Charges -> RowOrNone]
    BY <1>4 DEF CreateRemove, TInv, TypeOK, RowOrNone
  <2>3. QED
    BY <1>1, <1>4, <2>1, <2>2, ChargeOnly DEF CreateRemove, asaas
<1>5. CASE CreatePriced(w)
  <2> DEFINE p == [req[w] EXCEPT !.pc = "insert"]
             bill == [req[w].bill EXCEPT !.customer = TRUE]
             q == [req[w] EXCEPT !.pc = "bill_load", !.then = "insert", !.bill = bill]
  <2>1. p \in Request /\ WellFormed(p)
    BY <1>1, <1>5 DEF CreatePriced, Request, PCs, WellFormed
  <2>2. bill \in Billing /\ bill # None
    <3>1. req[w].bill \in Billing
      BY <1>1, <1>5 DEF CreatePriced, Request, WellFormed, BillingOrNone
    <3>2. bill \in Billing
      BY <3>1 DEF Billing
    <3>3. QED
      BY <3>2, ConstantsAssumption
  <2>3. q \in Request /\ WellFormed(q)
    <3> HIDE DEF bill
    <3>1. bill \in BillingOrNone /\ "bill_load" \in PCs /\ "insert" \in PCs
      BY <2>2 DEF BillingOrNone, PCs
    <3>2. /\ q \in Request /\ q.pc = "bill_load" /\ q.then = "insert" /\ q.month = req[w].month
          /\ q.bill = bill
      BY <1>1, <3>1 DEF Request
    <3>3. req[w].month \in Months
      BY <1>1, <1>5 DEF CreatePriced, WellFormed
    <3> HIDE DEF q
    <3>4. WellFormed(q)
      BY <2>2, <3>2, <3>3 DEF WellFormed
    <3>5. QED
      BY <3>2, <3>4
  <2>4. [req[w] EXCEPT !.pc = "bill_load", !.then = "insert", !.bill.customer = TRUE] = q
    BY <1>1 DEF Request
  <2>5. Goto(w, p) \/ Goto(w, q)
    BY <1>5, <2>4 DEF CreatePriced
  <2>6. UNCHANGED <<charge, billing, gateway, said, mail, today, faults>>
    BY <1>5 DEF CreatePriced, db, asaas
  <2>7. QED
    BY <1>1, <2>1, <2>3, <2>5, <2>6, RequestOnly
<1>6. ASSUME NEW c \in Charges, CreateInsert(w, c)
      PROVE  TInv'
  <2> DEFINE ent == [month |-> req[w].month, status |-> "pending", linked |-> FALSE]
             q == [req[w] EXCEPT !.pc = "pay", !.c = c, !.ent = ent, !.bill = None]
  <2>1. ent \in Row /\ ent # None /\ c # None
    <3>1. req[w].month \in Months
      BY <1>1, <1>6 DEF CreateInsert, WellFormed
    <3>2. ent \in Row
      BY <3>1 DEF Row
    <3>3. QED
      BY <3>2, ConstantsAssumption
  <2>2. q \in Request /\ WellFormed(q)
    <3> HIDE DEF ent
    <3>1. q \in Request /\ q.pc = "pay" /\ q.month = req[w].month /\ q.then = req[w].then
          /\ q.c = c /\ q.ent = ent
      BY <1>1, <2>1 DEF Request, PCs, BillingOrNone, RowOrNone
    <3>2. req[w].month \in Months /\ req[w].then \in {"idle", "find", "insert", "plan"}
      BY <1>1, <1>6 DEF CreateInsert, WellFormed
    <3> HIDE DEF q
    <3>3. WellFormed(q)
      BY <2>1, <3>1, <3>2 DEF WellFormed
    <3>4. QED
      BY <3>1, <3>3
  <2>3. charge' \in [Charges -> RowOrNone]
    <3>1. charge' = charge \/ charge' = [charge EXCEPT ![c] = ent]
      BY <1>6 DEF CreateInsert
    <3>2. QED
      BY <2>1, <3>1 DEF TInv, TypeOK, RowOrNone
  <2>4. Finish(w) \/ Goto(w, q)
    BY <1>6 DEF CreateInsert
  <2>5. QED
    BY <1>1, <1>6, <2>2, <2>3, <2>4, IdleIsRequest, ChargeOnly DEF CreateInsert, Finish, asaas
<1>7. CASE OutOfIdentifiers(w)
  BY <1>1, <1>7, IdleIsRequest, RequestOnly DEF OutOfIdentifiers, Finish, db, asaas
<1>8. CASE CreatePay(w) \/ CreatePayLost(w)
  <2> DEFINE c == req[w].c
             ent == Applied(req[w].ent, "PENDING")
             p == [req[w] EXCEPT !.pc = "pay_load", !.ent = ent]
             q == [req[w] EXCEPT !.pc = "undo"]
  <2>1. c \in Charges /\ req[w].month \in Months /\ req[w].ent \in Row /\ "PENDING" \in Reports
    BY <1>1, <1>8 DEF CreatePay, CreatePayLost, Request, WellFormed, RowOrNone, Reports
  <2>2. ent \in Row /\ ent # None
    BY <2>1, AppliedType, ConstantsAssumption
  <2>3. p \in Request /\ WellFormed(p)
    <3> HIDE DEF ent
    <3>1. QED
      BY <1>1, <1>8, <2>1, <2>2, ConstantsAssumption
      DEF CreatePay, CreatePayLost, Request, PCs, WellFormed, RowOrNone
  <2>4. q \in Request /\ WellFormed(q)
    BY <1>1, <1>8 DEF CreatePay, CreatePayLost, Request, PCs, WellFormed
  <2>5. Goto(w, p) \/ Goto(w, q)
    BY <1>8 DEF CreatePay, CreatePayLost
  <2>6. req' \in [Workers -> Request] /\ \A v \in Workers : WellFormed(req'[v])
    BY <2>3, <2>4, <2>5, OneRequest
  <2>7. Announce(c, req[w].month, "PENDING")
    BY <1>8 DEF CreatePay, CreatePayLost
  <2>8. faults' \in Nat /\ UNCHANGED <<charge, billing, today>>
    BY <1>1, <1>8, FaultingType DEF CreatePay, CreatePayLost, db, TInv
  <2>9. QED
    BY <2>1, <2>6, <2>7, <2>8, AnnounceType DEF TInv, TypeOK
<1>9. CASE CreateLoad(w)
  <2> DEFINE q == [req[w] EXCEPT !.pc = "pay_write", !.base = charge[req[w].c]]
  <2>1. q \in Request /\ WellFormed(q)
    BY <1>1, <1>9 DEF CreateLoad, Request, PCs, WellFormed, TInv, TypeOK
  <2>2. QED
    BY <1>1, <1>9, <2>1, RequestOnly DEF CreateLoad, db, asaas
<1>10. CASE CreateWrite(w)
  <2> DEFINE q == [req[w] EXCEPT !.pc = "undo"]
  <2>1. q \in Request /\ WellFormed(q)
    BY <1>1, <1>10 DEF CreateWrite, Request, PCs, WellFormed
  <2>2. req[w].c \in Charges /\ req[w].ent \in Row
    BY <1>1, <1>10 DEF CreateWrite, Request, WellFormed, RowOrNone
  <2>3. (Goto(w, q) /\ UNCHANGED charge) \/ (SaveAs(w, req[w].ent) /\ Finish(w))
    BY <1>10 DEF CreateWrite
  <2>4. UNCHANGED <<billing, gateway, said, mail, today, faults>>
    BY <1>10 DEF CreateWrite, asaas
  <2>5. CASE Goto(w, q) /\ UNCHANGED charge
    BY <1>1, <2>1, <2>4, <2>5, RequestOnly
  <2>6. CASE SaveAs(w, req[w].ent) /\ Finish(w)
    BY <1>1, <2>2, <2>4, <2>6, StoredType, IdleIsRequest, ChargeOnly DEF Finish
  <2>7. QED
    BY <2>3, <2>5, <2>6
<1>11. CASE CreateUndo(w)
  <2>1. charge' \in [Charges -> RowOrNone]
    BY <1>11 DEF CreateUndo, TInv, TypeOK, RowOrNone
  <2>2. QED
    BY <1>1, <1>11, <2>1, IdleIsRequest, ChargeOnly DEF CreateUndo, Finish, asaas
<1>12. CASE CreatePayRefused(w) \/ Fail(w)
  <2> DEFINE q == [req[w] EXCEPT !.pc = "undo"]
  <2>1. req[w].pc \in {"pay", "pay_write"} => q \in Request /\ WellFormed(q)
    BY <1>1 DEF Request, PCs, WellFormed
  <2>2. Finish(w) \/ (req[w].pc \in {"pay", "pay_write"} /\ Goto(w, q))
    BY <1>12 DEF CreatePayRefused, Fail
  <2>3. faults' \in Nat /\ UNCHANGED <<charge, billing, gateway, said, mail, today>>
    BY <1>12, FaultingType DEF CreatePayRefused, Fail, db, asaas, TInv
  <2>4. QED
    BY <2>1, <2>2, <2>3, IdleIsRequest, RequestOnly DEF Finish
<1>13. ASSUME NEW c \in Charges, SyncError(w, c)
       PROVE  TInv'
  BY <1>13, NextListedType, FaultingType, RequestOnly DEF SyncError, db, asaas, TInv
<1>14. QED
  BY <1>2, <1>3, <1>4, <1>5, <1>6, <1>7, <1>8, <1>9, <1>10, <1>11, <1>12, <1>13
  DEF Create, Fault

LEMMA FreeType ==
  ASSUME TInv, NEW w \in Workers, NEW c \in Charges, CreateFree(w, c)
  PROVE  TInv'
<1> DEFINE ent == [month |-> req[w].month, status |-> "confirmed", linked |-> FALSE]
<1>1. req[w].month \in Months /\ faults \in Nat
  BY DEF CreateFree, At, TInv, TypeOK, WellFormed
<1>2. ent \in Row
  BY <1>1 DEF Row
<1>3. charge' = charge \/ charge' = [charge EXCEPT ![c] = ent]
  BY DEF CreateFree
<1>4. charge' \in [Charges -> RowOrNone]
  BY <1>2, <1>3 DEF TInv, TypeOK, RowOrNone
<1>5. QED
  BY <1>1, <1>4, IdleIsRequest, ChargeOnly DEF CreateFree, Finish, asaas

LEMMA StartType ==
  ASSUME TInv, NEW w \in Workers, NEW month \in Months, CreateStart(w, month)
  PROVE  TInv'
<1> DEFINE q == [Idle EXCEPT !.pc = "bill_read", !.month = month]
<1>1. q \in Request /\ WellFormed(q)
  BY IdleIsRequest DEF Idle, Request, PCs, WellFormed
<1>2. QED
  BY <1>1, RequestOnly DEF CreateStart, Begin, TInv, TypeOK, db, asaas

LEMMA CycleType ==
  ASSUME TInv, NEW w \in Workers, CycleStart(w) \/ CycleSuspend(w) \/ CyclePlan(w)
  PROVE  TInv'
<1>1. req[w] \in Request /\ WellFormed(req[w]) /\ faults \in Nat
  BY DEF TInv, TypeOK
<1>2. CASE CycleStart(w)
  <2> DEFINE q(pc) == [Idle EXCEPT !.pc = pc]
  <2>1. ASSUME NEW pc \in {"suspend", "plan"}
        PROVE  q(pc) \in Request /\ WellFormed(q(pc))
    BY IdleIsRequest DEF Idle, Request, PCs, WellFormed
  <2>2. \E pc \in {"suspend", "plan"} : req' = [req EXCEPT ![w] = q(pc)]
    BY <1>2 DEF CycleStart, Begin
  <2>3. QED
    BY <1>1, <1>2, <2>1, <2>2, RequestOnly DEF CycleStart, db, asaas
<1>3. CASE CycleSuspend(w)
  <2> DEFINE bill == [billing EXCEPT !.status = "suspended"]
             p == [req[w] EXCEPT !.pc = "bill_load", !.then = "plan", !.bill = bill]
             q == [req[w] EXCEPT !.pc = "plan"]
  <2>1. billing # None => bill \in Billing
    BY DEF TInv, TypeOK, BillingOrNone, Billing
  <2>2. billing # None => bill \in Billing /\ bill # None
    BY <2>1, ConstantsAssumption
  <2>3. billing # None => p \in Request /\ WellFormed(p)
    <3> HIDE DEF bill
    <3>1. QED
      BY <1>1, <1>3, <2>2 DEF CycleSuspend, At, Request, PCs, WellFormed, BillingOrNone
  <2>4. q \in Request /\ WellFormed(q)
    BY <1>1, <1>3 DEF CycleSuspend, At, Request, PCs, WellFormed
  <2>5. (billing # None /\ Goto(w, p)) \/ Goto(w, q)
    BY <1>3 DEF CycleSuspend
  <2>6. QED
    BY <1>1, <1>3, <2>3, <2>4, <2>5, RequestOnly DEF CycleSuspend, Goto, db, asaas
<1>4. CASE CyclePlan(w)
  <2> DEFINE q == [Idle EXCEPT !.pc = "bill_read", !.month = NextMonth]
  <2>1. NextMonth \in Months => q \in Request /\ WellFormed(q)
    BY IdleIsRequest DEF Idle, Request, PCs, WellFormed
  <2>2. (NextMonth \in Months /\ Goto(w, q)) \/ Finish(w)
    BY <1>4 DEF CyclePlan
  <2>3. QED
    BY <1>1, <1>4, <2>1, <2>2, IdleIsRequest, RequestOnly DEF CyclePlan, Goto, Finish, db, asaas
<1>5. QED
  BY <1>2, <1>3, <1>4

LEMMA SyncType ==
  ASSUME TInv, RInv, NEW w \in Workers,
         SyncStart(w) \/ (\E c \in Charges : SyncGet(w, c)) \/ SyncLoad(w) \/ SyncWrite(w)
  PROVE  TInv'
<1>1. req[w] \in Request /\ WellFormed(req[w]) /\ faults \in Nat
  BY DEF TInv, TypeOK
<1>2. CASE SyncStart(w)
  <2> DEFINE list == [c \in Charges |-> IF c \in Listed THEN charge[c] ELSE None]
             q == [Idle EXCEPT !.pc = "sync_get", !.list = list]
  <2>1. list \in [Charges -> RowOrNone]
    BY DEF TInv, TypeOK, RowOrNone
  <2>2. q \in Request /\ WellFormed(q)
    <3> HIDE DEF list
    <3>1. QED
      BY <2>1, IdleIsRequest DEF Idle, Request, PCs, WellFormed
  <2>3. QED
    BY <1>1, <1>2, <2>2, RequestOnly DEF SyncStart, Begin, db, asaas
<1>3. ASSUME NEW c \in Charges, SyncGet(w, c)
      PROVE  TInv'
  <2> DEFINE ent == Applied(req[w].list[c], gateway[c].report)
             q == [req[w] EXCEPT !.pc = "sync_load", !.c = c, !.ent = ent]
  <2>1. req[w].list[c] # None /\ req[w].list[c] \in Row
    BY <1>1, <1>3 DEF SyncGet, Request, RowOrNone
  <2>2. gateway[c] \in Payment
    BY <2>1 DEF RInv, RequestTold, TInv, TypeOK
  <2>3. gateway[c].report \in Reports
    BY <2>2 DEF Payment
  <2>4. ent \in Row /\ ent # None /\ c # None
    BY <2>1, <2>3, AppliedType, ConstantsAssumption
  <2>5. q \in Request /\ WellFormed(q)
    <3> HIDE DEF ent
    <3>1. QED
      BY <1>1, <1>3, <2>4 DEF SyncGet, At, Request, PCs, WellFormed, RowOrNone
  <2>6. QED
    BY <1>1, <1>3, <2>5, RequestOnly DEF SyncGet, Goto, db, asaas
<1>4. CASE SyncLoad(w)
  <2> DEFINE q == [req[w] EXCEPT !.pc = "sync_write", !.base = charge[req[w].c]]
  <2>1. q \in Request /\ WellFormed(q)
    BY <1>1, <1>4 DEF SyncLoad, At, Request, PCs, WellFormed, TInv, TypeOK
  <2>2. QED
    BY <1>1, <1>4, <2>1, RequestOnly DEF SyncLoad, Goto, db, asaas
<1>5. CASE SyncWrite(w)
  <2>1. req[w].c \in Charges /\ req[w].ent \in Row
    BY <1>1, <1>5 DEF SyncWrite, At, Request, WellFormed, RowOrNone
  <2>2. charge' \in [Charges -> RowOrNone]
    BY <1>5, <2>1, StoredType DEF SyncWrite, TInv, TypeOK
  <2>3. NextListed(w, req[w].c) \in Request /\ WellFormed(NextListed(w, req[w].c))
    BY NextListedType
  <2>4. QED
    BY <1>1, <1>5, <2>2, <2>3, ChargeOnly DEF SyncWrite, Goto, asaas
<1>6. QED
  BY <1>2, <1>3, <1>4, <1>5

LEMMA HookType ==
  ASSUME TInv, NEW w \in Workers,
         (\E m \in mail : HookRead(w, m)) \/ HookLoad(w) \/ HookWrite(w)
  PROVE  TInv'
<1>1. req[w] \in Request /\ WellFormed(req[w]) /\ faults \in Nat
  BY DEF TInv, TypeOK
<1>2. ASSUME NEW m \in mail, HookRead(w, m)
      PROVE  TInv'
  <2> DEFINE ent == Notified(charge[m.c], m.report)
             q == [Idle EXCEPT !.pc = "hook_load", !.c = m.c, !.msg = m, !.ent = ent]
  <2>1. m \in Webhook /\ m.c \in Charges /\ m.report \in Reports
    BY DEF TInv, TypeOK, Webhook
  <2>2. charge[m.c] # None => ent \in Row /\ ent # None /\ m.c # None
    BY <2>1, AppliedType, ConstantsAssumption DEF TInv, TypeOK, RowOrNone
  <2>3. charge[m.c] # None => q \in Request /\ WellFormed(q)
    <3> HIDE DEF ent
    <3>1. QED
      BY <2>1, <2>2, IdleIsRequest DEF Idle, Request, PCs, WellFormed, RowOrNone
  <2>4. CASE charge[m.c] = None
    BY <1>2, <2>4 DEF HookRead, db, TInv, TypeOK
  <2>5. CASE charge[m.c] # None
    <3>1. req' = [req EXCEPT ![w] = q] /\ UNCHANGED mail
      BY <1>2, <2>5 DEF HookRead, Begin
    <3>2. QED
      BY <1>1, <1>2, <2>3, <2>5, <3>1, RequestOnly DEF HookRead, db
  <2>6. QED
    BY <2>4, <2>5
<1>3. CASE HookLoad(w)
  <2> DEFINE q == [req[w] EXCEPT !.pc = "hook_write", !.base = charge[req[w].c]]
  <2>1. q \in Request /\ WellFormed(q)
    BY <1>1, <1>3 DEF HookLoad, At, Request, PCs, WellFormed, TInv, TypeOK
  <2>2. QED
    BY <1>1, <1>3, <2>1, RequestOnly DEF HookLoad, Goto, db, asaas
<1>4. CASE HookWrite(w)
  <2>1. req[w].c \in Charges /\ req[w].ent \in Row
    BY <1>1, <1>4 DEF HookWrite, At, Request, WellFormed, RowOrNone
  <2>2. charge' \in [Charges -> RowOrNone]
    BY <1>4, <2>1, StoredType DEF HookWrite, TInv, TypeOK
  <2>3. mail' \subseteq mail /\ faults' \in Nat
    BY <1>1, <1>4, FaultingType DEF HookWrite, TInv
  <2>4. QED
    BY <1>4, <2>2, <2>3, IdleIsRequest, ChargeOnly DEF HookWrite, Finish
<1>5. QED
  BY <1>2, <1>3, <1>4

LEMMA OutsideType ==
  ASSUME TInv,
         \/ \E c \in Charges, report \in Reports : PaymentMoves(c, report)
         \/ \E m \in mail : LoseWebhook(m)
         \/ Tick
  PROVE  TInv'
<1>1. ASSUME NEW c \in Charges, NEW report \in Reports, PaymentMoves(c, report)
      PROVE  TInv'
  <2>1. gateway[c].month \in Months
    BY <1>1 DEF PaymentMoves, TInv, TypeOK, Payment
  <2>2. QED
    BY <1>1, <2>1, AnnounceType DEF PaymentMoves, db, TInv, TypeOK
<1>2. ASSUME NEW m \in mail, LoseWebhook(m)
      PROVE  TInv'
  BY <1>2, FaultingType DEF LoseWebhook, db, TInv, TypeOK
<1>3. CASE Tick
  BY <1>3, ConstantsAssumption DEF Tick, db, asaas, TInv, TypeOK
<1>4. QED
  BY <1>1, <1>2, <1>3

LEMMA NextType == TInv /\ RInv /\ [Next]_vars => TInv'
<1> SUFFICES ASSUME TInv, RInv, [Next]_vars
             PROVE  TInv'
  OBVIOUS
<1>1. ASSUME NEW w \in Workers, Proceed(w) \/ Fault(w)
      PROVE  TInv'
  BY <1>1, BillingType, CreateType, CycleType, SyncType, HookType DEF Proceed
<1>2. ASSUME NEW w \in Admins, Administer(w)
      PROVE  TInv'
  BY <1>2, PatchType, StartType DEF Administer, Workers
<1>3. CASE Sync \/ Cycle
  BY <1>3, SyncType, CycleType DEF Sync, Cycle, Workers
<1>4. CASE UNCHANGED vars
  BY <1>4 DEF vars, TInv, TypeOK
<1>5. QED
  BY <1>1, <1>2, <1>3, <1>4, FreeType, HookType, OutsideType DEF Next, Workers

-----------------------------------------------------------------------------
LEMMA IdleTold == RequestTold(Idle) /\ Idle.pc # "pay" /\ Idle.c = None
  BY DEF RequestTold, Idle, NoCharges

LEMMA InitTold == Init => RInv
  BY IdleTold DEF Init, NoCharges, RInv, Told, SaidByGateway, RequestTold, PayingAlone, Idle

\* Merging an entity into a row takes each column from one of them.
LEMMA SavedTold ==
  ASSUME NEW c \in Charges, NEW row \in RowOrNone, NEW was \in RowOrNone, NEW ent \in Row,
         Told(c, row), Told(c, ent)
  PROVE  Told(c, Saved(row, was, ent))
<1>1. CASE was = None \/ row = None
  BY <1>1 DEF Saved, Told
<1>2. CASE was # None /\ row # None
  <2>1. row \in Row /\ was \in Row /\ Saved(row, was, ent) = Merge(row, was, ent)
    BY <1>2 DEF Saved, RowOrNone
  <2>2. Merge(row, was, ent).status \in {row.status, ent.status}
        /\ Merge(row, was, ent).linked \in {row.linked, ent.linked}
    BY <2>1 DEF Merge, Row
  <2>3. ent # None
    BY ConstantsAssumption
  <2>4. QED
    BY <1>2, <2>1, <2>2, <2>3 DEF Told
<1>3. QED
  BY <1>1, <1>2

\* What was true of a row stays true while nothing is said.
LEMMA QuietTold ==
  ASSUME TInv, RInv, NEW w \in Workers, NEW r \in Request,
         req' = [req EXCEPT ![w] = r], RequestTold(r), r.pc # "pay",
         r.c = None \/ r.c = req[w].c \/ gateway[r.c] # None,
         UNCHANGED <<gateway, said>>, mail' \subseteq mail,
         \A c \in Charges :
            \/ charge'[c] = charge[c]
            \/ charge'[c] = None
            \/ Told(c, charge'[c]) /\ (gateway[c] # None \/ \A v \in Workers : req[v].c # c)
  PROVE  RInv'
<1>1. (\A c \in Charges : Told(c, charge[c]))'
  BY DEF RInv, Told
<1>2. SaidByGateway'
  BY DEF RInv, SaidByGateway
<1>3. ASSUME NEW v \in Workers
      PROVE  RequestTold(req[v])'
  <2>1. req'[v] = req[v] \/ req'[v] = r
    BY DEF TInv, TypeOK
  <2>2. RequestTold(req[v]) /\ RequestTold(r)
    BY DEF RInv
  <2>3. QED
    BY <2>1, <2>2 DEF RequestTold, Told
<1>4. ASSUME NEW v \in Workers
      PROVE  PayingAlone(v)'
  <2>1. CASE v = w
    BY <2>1 DEF PayingAlone, TInv, TypeOK
  <2>2. CASE v # w /\ req[v].pc = "pay"
    <3>1. req'[v] = req[v] /\ req'[w] = r /\ \A x \in Workers \ {w} : req'[x] = req[x]
      BY <2>2 DEF TInv, TypeOK
    <3>2. req[v].c # None /\ req[v].c \in Charges
      BY <2>2 DEF TInv, TypeOK, WellFormed, Request
    <3>3. /\ gateway[req[v].c] = None
          /\ charge[req[v].c] # None => charge[req[v].c].status = "pending"
          /\ \A x \in Workers \ {v} : req[x].c # req[v].c
      BY <2>2 DEF RInv, PayingAlone
    <3>4. r.c # req[v].c
      BY <2>2, <3>2, <3>3
    <3>5. charge'[req[v].c] = charge[req[v].c] \/ charge'[req[v].c] = None
      BY <3>2, <3>3
    <3>6. \A x \in Workers \ {v} : req'[x].c # req'[v].c
      BY <3>1, <3>3, <3>4
    <3>7. QED
      BY <3>1, <3>3, <3>5, <3>6 DEF PayingAlone
  <2>3. CASE v # w /\ req[v].pc # "pay"
    BY <2>3 DEF PayingAlone, TInv, TypeOK
  <2>4. QED
    BY <2>1, <2>2, <2>3
<1>5. QED
  BY <1>1, <1>2, <1>3, <1>4 DEF RInv

\* Steps of a handler that change no charge.
LEMMA RequestOnlyTold ==
  ASSUME TInv, RInv, NEW w \in Workers, NEW r \in Request,
         req' = [req EXCEPT ![w] = r], RequestTold(r), r.pc # "pay",
         r.c = None \/ r.c = req[w].c \/ gateway[r.c] # None,
         UNCHANGED <<charge, gateway, said>>, mail' \subseteq mail
  PROVE  RInv'
  BY QuietTold

LEMMA FinishTold ==
  ASSUME TInv, RInv, NEW w \in Workers, Finish(w),
         UNCHANGED <<charge, gateway, said>>, mail' \subseteq mail
  PROVE  RInv'
  BY IdleTold, IdleIsRequest, QuietTold DEF Finish

\* The save of a charge the gateway has a payment for.
LEMMA StoredTold ==
  ASSUME TInv, RInv, NEW w \in Workers, NEW r \in Request,
         req' = [req EXCEPT ![w] = r], RequestTold(r), r.pc # "pay", r.c = None,
         req[w].c \in Charges, req[w].ent \in Row, SaveAs(w, req[w].ent),
         gateway[req[w].c] # None, Told(req[w].c, req[w].ent),
         UNCHANGED <<gateway, said>>, mail' \subseteq mail
  PROVE  RInv'
<1> DEFINE c == req[w].c
           row == Saved(charge[c], req[w].base, req[w].ent)
<1>1. charge[c] \in RowOrNone /\ req[w].base \in RowOrNone /\ Told(c, charge[c])
  BY DEF TInv, TypeOK, Request, RInv
<1>2. Told(c, row)
  BY <1>1, SavedTold
<1>3. charge' = [charge EXCEPT ![c] = row]
  BY DEF SaveAs
<1> HIDE DEF row
<1>4. \A d \in Charges : IF d = c THEN charge'[d] = row ELSE charge'[d] = charge[d]
  BY <1>3 DEF TInv, TypeOK
<1>5. QED
  BY <1>2, <1>4, QuietTold

LEMMA NextListedTold ==
  ASSUME TInv, RInv, NEW w \in Workers, NEW c
  PROVE  /\ RequestTold(NextListed(w, c))
         /\ NextListed(w, c).pc # "pay"
         /\ NextListed(w, c).c = None
<1> DEFINE rest == [req[w].list EXCEPT ![c] = None]
           q == [Idle EXCEPT !.pc = "sync_get", !.list = rest]
<1>1. \A d \in Charges : rest[d] # None => gateway[d] # None
  BY DEF RInv, RequestTold, TInv, TypeOK, Request
<1>2. q.pc = "sync_get" /\ q.c = None /\ q.list = rest
  BY DEF Idle
<1>3. RequestTold(q)
  <2> HIDE DEF q, rest
  <2>1. QED
    BY <1>1, <1>2 DEF RequestTold
<1>4. NextListed(w, c) = Idle \/ NextListed(w, c) = q
  BY DEF NextListed
<1> HIDE DEF q
<1>5. QED
  BY <1>2, <1>3, <1>4, IdleTold

\* A request that keeps its list and is not about to save anything new.
LEMMA SameTold ==
  ASSUME NEW r, NEW q, RequestTold(r), q.list = r.list,
         \/ q.pc \notin {"pay_load", "pay_write", "sync_load", "sync_write",
                         "hook_load", "hook_write"}
         \/ /\ r.pc \in {"pay_load", "pay_write", "sync_load", "sync_write",
                          "hook_load", "hook_write"}
            /\ q.c = r.c /\ q.ent = r.ent
  PROVE  RequestTold(q)
  BY DEF RequestTold

LEMMA BillingTold ==
  ASSUME TInv, RInv, NEW w \in Workers,
         BillingLoad(w) \/ BillingWrite(w) \/ \E status \in Patches : PatchBilling(w, status)
  PROVE  RInv'
<1>1. req[w] \in Request /\ WellFormed(req[w]) /\ RequestTold(req[w])
  BY DEF TInv, TypeOK, RInv
<1>2. CASE BillingLoad(w)
  <2> DEFINE q == [req[w] EXCEPT !.pc = "bill_write", !.was = billing]
  <2>1. q \in Request /\ q.pc = "bill_write" /\ q.c = req[w].c /\ q.list = req[w].list
    BY <1>1 DEF Request, PCs, TInv, TypeOK
  <2>2. RequestTold(q)
    BY <1>1, <2>1, SameTold
  <2>3. QED
    BY <1>2, <2>1, <2>2, RequestOnlyTold DEF BillingLoad, Goto, db, asaas
<1>3. CASE BillingWrite(w)
  <2> DEFINE q == [req[w] EXCEPT !.pc = req[w].then, !.then = "idle", !.was = None]
  <2>1. /\ q \in Request /\ q.c = req[w].c /\ q.list = req[w].list
        /\ q.pc = req[w].then
    BY <1>1 DEF Request, PCs, BillingOrNone
  <2>2. q.pc \in {"idle", "find", "insert", "plan"}
    BY <1>1, <2>1 DEF WellFormed
  <2>3. Finish(w) \/ Goto(w, q)
    BY <1>3 DEF BillingWrite
  <2> HIDE DEF q
  <2>4. RequestTold(q)
    BY <1>1, <2>1, <2>2, SameTold
  <2>5. QED
    BY <1>3, <2>1, <2>2, <2>3, <2>4, FinishTold, RequestOnlyTold DEF BillingWrite, Goto, asaas
<1>4. ASSUME NEW status \in Patches, PatchBilling(w, status)
      PROVE  RInv'
  <2> DEFINE bill == IF billing = None THEN [status |-> status, customer |-> FALSE]
                     ELSE [billing EXCEPT !.status = status]
             q == [Idle EXCEPT !.pc = "bill_load", !.bill = bill]
  <2>1. bill \in Billing
    <3>1. status \in {"active", "suspended"} /\ (billing = None \/ billing \in Billing)
      BY ConstantsAssumption DEF TInv, TypeOK, BillingOrNone
    <3>2. QED
      BY <3>1 DEF Billing
  <2>2. q \in Request /\ RequestTold(q) /\ q.pc # "pay" /\ q.c = None
    <3> HIDE DEF bill
    <3>1. QED
      BY <2>1, IdleIsRequest, IdleTold DEF Idle, Request, PCs, BillingOrNone, RequestTold, NoCharges
  <2>3. req' = [req EXCEPT ![w] = q] /\ UNCHANGED <<charge, gateway, said, mail>>
    BY <1>4 DEF PatchBilling, Begin, db, asaas
  <2> HIDE DEF q
  <2>4. QED
    BY <2>2, <2>3, RequestOnlyTold
<1>5. QED
  BY <1>2, <1>3, <1>4

\* The steps of createMonthlyCharge that neither store a charge nor pay.
LEMMA CreateStepTold ==
  ASSUME TInv, RInv, NEW w \in Workers,
         \/ CreateBilling(w) \/ CreateFind(w) \/ CreatePriced(w) \/ OutOfIdentifiers(w)
         \/ CreateLoad(w) \/ CreatePayRefused(w) \/ Fail(w)
         \/ \E month \in Months : CreateStart(w, month)
  PROVE  RInv'
<1>1. req[w] \in Request /\ WellFormed(req[w]) /\ RequestTold(req[w])
  BY DEF TInv, TypeOK, RInv
<1>2. UNCHANGED <<charge, gateway, said, mail>>
  BY DEF CreateBilling, CreateFind, CreatePriced, OutOfIdentifiers, CreateLoad,
         CreatePayRefused, Fail, CreateStart, db, asaas
<1>3. CASE CreateBilling(w)
  <2> DEFINE bill == IF billing = None THEN [status |-> "active", customer |-> FALSE] ELSE billing
             q == [req[w] EXCEPT !.pc = "bill_load", !.then = "find", !.bill = bill]
  <2>1. bill \in BillingOrNone
    BY DEF TInv, TypeOK, BillingOrNone, Billing
  <2>2. q \in Request /\ RequestTold(q) /\ q.pc # "pay" /\ q.c = req[w].c
    <3> HIDE DEF bill
    <3>1. q \in Request /\ q.pc = "bill_load" /\ q.c = req[w].c /\ q.list = req[w].list
      BY <1>1, <2>1 DEF Request, PCs
    <3>2. QED
      BY <1>1, <3>1, SameTold
  <2>3. Finish(w) \/ Goto(w, q)
    BY <1>3 DEF CreateBilling
  <2>4. QED
    BY <1>2, <2>2, <2>3, FinishTold, RequestOnlyTold DEF Goto
<1>4. CASE CreateFind(w)
  <2> DEFINE p == [req[w] EXCEPT !.pc = "price"]
             q(c) == [req[w] EXCEPT !.pc = "remove", !.c = c]
  <2>1. p \in Request /\ RequestTold(p) /\ p.pc # "pay" /\ p.c = req[w].c
    BY <1>1 DEF Request, PCs, RequestTold
  <2>2. ASSUME NEW c \in Charges
        PROVE  q(c) \in Request /\ RequestTold(q(c)) /\ q(c).pc # "pay" /\ q(c).c = c
    <3>1. q(c) \in Request /\ q(c).pc = "remove" /\ q(c).c = c /\ q(c).list = req[w].list
      BY <1>1 DEF Request, PCs
    <3>2. QED
      BY <1>1, <3>1, SameTold
  <2>3. ASSUME NEW c \in Charges, charge[c] # None, Replaced(c)
        PROVE  gateway[c] # None
    <3>1. "REFUNDED" \in said[c]
      BY <2>3 DEF RInv, Told, Replaced
    <3>2. QED
      BY <3>1 DEF RInv, SaidByGateway
  <2>4. \/ Finish(w) \/ Goto(w, p)
        \/ \E c \in Charges : charge[c] # None /\ Replaced(c) /\ Goto(w, q(c))
    BY <1>4 DEF CreateFind, Existing
  <2>5. CASE Finish(w) \/ Goto(w, p)
    BY <1>2, <2>1, <2>5, FinishTold, RequestOnlyTold DEF Goto
  <2>6. ASSUME NEW c \in Charges, charge[c] # None, Replaced(c), Goto(w, q(c))
        PROVE  RInv'
    BY <1>2, <2>2, <2>3, <2>6, RequestOnlyTold DEF Goto
  <2>7. QED
    BY <2>4, <2>5, <2>6
<1>5. CASE CreatePriced(w)
  <2> DEFINE p == [req[w] EXCEPT !.pc = "insert"]
             bill == [req[w].bill EXCEPT !.customer = TRUE]
             q == [req[w] EXCEPT !.pc = "bill_load", !.then = "insert", !.bill = bill]
  <2>1. p \in Request /\ RequestTold(p) /\ p.pc # "pay" /\ p.c = req[w].c
    BY <1>1 DEF Request, PCs, RequestTold
  <2>2. bill \in BillingOrNone
    <3>1. req[w].bill \in Billing
      BY <1>1, <1>5 DEF CreatePriced, At, Request, WellFormed, BillingOrNone
    <3>2. QED
      BY <3>1 DEF Billing, BillingOrNone
  <2>3. q \in Request /\ RequestTold(q) /\ q.pc # "pay" /\ q.c = req[w].c
    <3> HIDE DEF bill
    <3>1. q \in Request /\ q.pc = "bill_load" /\ q.c = req[w].c /\ q.list = req[w].list
      BY <1>1, <2>2 DEF Request, PCs
    <3>2. QED
      BY <1>1, <3>1, SameTold
  <2>4. [req[w] EXCEPT !.pc = "bill_load", !.then = "insert", !.bill.customer = TRUE] = q
    BY <1>1 DEF Request
  <2>5. Goto(w, p) \/ Goto(w, q)
    BY <1>5, <2>4 DEF CreatePriced
  <2>6. QED
    BY <1>2, <2>1, <2>3, <2>5, RequestOnlyTold DEF Goto
<1>6. CASE CreateLoad(w)
  <2> DEFINE q == [req[w] EXCEPT !.pc = "pay_write", !.base = charge[req[w].c]]
  <2>1. req[w].c \in Charges
    BY <1>1, <1>6 DEF CreateLoad, At, WellFormed, Request
  <2>2. q \in Request /\ RequestTold(q) /\ q.pc # "pay" /\ q.c = req[w].c
    <3>1. q \in Request /\ q.pc = "pay_write" /\ q.c = req[w].c /\ q.ent = req[w].ent
          /\ q.list = req[w].list
      BY <1>1, <2>1 DEF Request, PCs, TInv, TypeOK
    <3>2. QED
      BY <1>1, <1>6, <3>1, SameTold DEF CreateLoad, At
  <2>3. QED
    BY <1>2, <1>6, <2>2, RequestOnlyTold DEF CreateLoad, Goto
<1>7. CASE CreatePayRefused(w) \/ Fail(w) \/ OutOfIdentifiers(w)
  <2> DEFINE q == [req[w] EXCEPT !.pc = "undo"]
  <2>1. q \in Request /\ RequestTold(q) /\ q.pc # "pay" /\ q.c = req[w].c
    BY <1>1 DEF Request, PCs, RequestTold
  <2>2. Finish(w) \/ Goto(w, q)
    BY <1>7 DEF CreatePayRefused, Fail, OutOfIdentifiers
  <2>3. QED
    BY <1>2, <2>1, <2>2, FinishTold, RequestOnlyTold DEF Goto
<1>8. ASSUME NEW month \in Months, CreateStart(w, month)
      PROVE  RInv'
  <2> DEFINE q == [Idle EXCEPT !.pc = "bill_read", !.month = month]
  <2>1. q \in Request /\ RequestTold(q) /\ q.pc # "pay" /\ q.c = None
    BY IdleIsRequest DEF Idle, Request, PCs, RequestTold, NoCharges
  <2>2. QED
    BY <1>2, <1>8, <2>1, RequestOnlyTold DEF CreateStart, Begin
<1>9. QED
  BY <1>3, <1>4, <1>5, <1>6, <1>7, <1>8

LEMMA CreateStoreTold ==
  ASSUME TInv, RInv, NEW w \in Workers,
         \/ CreateRemove(w) \/ CreateUndo(w) \/ CreateWrite(w)
         \/ \E c \in Charges : CreateFree(w, c)
  PROVE  RInv'
<1>1. req[w] \in Request /\ WellFormed(req[w]) /\ RequestTold(req[w])
  BY DEF TInv, TypeOK, RInv
<1>2. UNCHANGED <<gateway, said, mail>>
  BY DEF CreateRemove, CreateUndo, CreateWrite, CreateFree, asaas
<1>3. CASE CreateRemove(w) \/ CreateUndo(w)
  <2> DEFINE q == [req[w] EXCEPT !.pc = "price", !.c = None]
  <2>1. q \in Request /\ q.pc = "price" /\ q.c = None /\ q.list = req[w].list
    BY <1>1 DEF Request, PCs
  <2>2. RequestTold(q)
    BY <1>1, <2>1, SameTold
  <2>3. Finish(w) \/ Goto(w, q)
    BY <1>3 DEF CreateRemove, CreateUndo
  <2>4. \A c \in Charges : charge'[c] = charge[c] \/ charge'[c] = None
    BY <1>3 DEF CreateRemove, CreateUndo, TInv, TypeOK
  <2> HIDE DEF q
  <2>5. QED
    BY <1>2, <2>1, <2>2, <2>3, <2>4, IdleTold, IdleIsRequest, QuietTold DEF Goto, Finish
<1>4. CASE CreateWrite(w)
  <2> DEFINE q == [req[w] EXCEPT !.pc = "undo"]
  <2>1. q \in Request /\ q.pc = "undo" /\ q.c = req[w].c /\ q.list = req[w].list
    BY <1>1 DEF Request, PCs
  <2>2. RequestTold(q)
    BY <1>1, <2>1, SameTold
  <2>3. (Goto(w, q) /\ UNCHANGED charge) \/ (SaveAs(w, req[w].ent) /\ Finish(w))
    BY <1>4 DEF CreateWrite
  <2>4. req[w].c \in Charges /\ req[w].ent \in Row
        /\ gateway[req[w].c] # None /\ Told(req[w].c, req[w].ent)
    BY <1>1, <1>4 DEF CreateWrite, At, Request, WellFormed, RowOrNone, RequestTold
  <2>5. CASE Goto(w, q) /\ UNCHANGED charge
    BY <1>2, <2>1, <2>2, <2>5, RequestOnlyTold DEF Goto
  <2>6. CASE SaveAs(w, req[w].ent) /\ Finish(w)
    BY <1>2, <2>4, <2>6, IdleTold, IdleIsRequest, StoredTold DEF Finish
  <2>7. QED
    BY <2>3, <2>5, <2>6
<1>5. ASSUME NEW c \in Charges, CreateFree(w, c)
      PROVE  RInv'
  <2> DEFINE ent == [month |-> req[w].month, status |-> "confirmed", linked |-> FALSE]
  <2>1. gateway[c] = None /\ \A v \in Workers : req[v].c # c
    BY <1>5 DEF CreateFree, Fresh
  <2>2. Told(c, ent)
    BY <2>1 DEF Told
  <2>3. charge' = charge \/ charge' = [charge EXCEPT ![c] = ent]
    BY <1>5 DEF CreateFree
  <2> HIDE DEF ent
  <2>4. \A d \in Charges : charge'[d] = charge[d] \/ (d = c /\ charge'[d] = ent)
    BY <2>3 DEF TInv, TypeOK
  <2>5. Finish(w)
    BY <1>5 DEF CreateFree
  <2>6. QED
    BY <1>2, <2>1, <2>2, <2>4, <2>5, IdleTold, IdleIsRequest, QuietTold DEF Finish
<1>6. QED
  BY <1>3, <1>4, <1>5

LEMMA InsertTold ==
  ASSUME TInv, RInv, NEW w \in Workers, NEW c \in Charges, CreateInsert(w, c)
  PROVE  RInv'
<1> DEFINE ent == [month |-> req[w].month, status |-> "pending", linked |-> FALSE]
           q == [req[w] EXCEPT !.pc = "pay", !.c = c, !.ent = ent, !.bill = None]
<1>1. req[w] \in Request /\ WellFormed(req[w]) /\ RequestTold(req[w])
  BY DEF TInv, TypeOK, RInv
<1>2. UNCHANGED <<gateway, said, mail>>
  BY DEF CreateInsert, asaas
<1>3. gateway[c] = None /\ \A v \in Workers : req[v].c # c
  BY DEF CreateInsert, Fresh
<1>4. CASE Finish(w) /\ UNCHANGED charge
  BY <1>2, <1>4, FinishTold
<1>5. CASE charge' = [charge EXCEPT ![c] = ent] /\ Goto(w, q)
  <2>1. q.pc = "pay" /\ q.c = c /\ q.list = req[w].list
    BY <1>1 DEF Request
  <2>2. RequestTold(q)
    BY <1>1, <2>1, SameTold
  <2>3. Told(c, ent) /\ ent.status = "pending"
    BY DEF Told
  <2>4. charge'[c] = ent /\ \A d \in Charges \ {c} : charge'[d] = charge[d]
    BY <1>5 DEF TInv, TypeOK
  <2>5. req'[w] = q /\ \A v \in Workers \ {w} : req'[v] = req[v]
    BY <1>5 DEF Goto, TInv, TypeOK
  <2> HIDE DEF q, ent
  <2>6. (\A d \in Charges : Told(d, charge[d]))'
    BY <1>2, <2>3, <2>4 DEF RInv, Told
  <2>7. SaidByGateway'
    BY <1>2 DEF RInv, SaidByGateway
  <2>8. ASSUME NEW v \in Workers
        PROVE  RequestTold(req[v])'
    BY <1>2, <2>2, <2>5 DEF RInv, RequestTold, Told
  <2>9. PayingAlone(w)'
    BY <1>2, <1>3, <2>1, <2>3, <2>4, <2>5 DEF PayingAlone
  <2>10. ASSUME NEW v \in Workers \ {w}, req[v].pc = "pay"
         PROVE  PayingAlone(v)'
    <3>1. req[v].c \in Charges \ {c}
      BY <1>3, <2>10 DEF TInv, TypeOK, WellFormed, Request
    <3>2. PayingAlone(v)
      BY DEF RInv
    <3>3. QED
      BY <1>2, <2>1, <2>4, <2>5, <2>10, <3>1, <3>2 DEF PayingAlone
  <2>11. ASSUME NEW v \in Workers \ {w}
         PROVE  PayingAlone(v)'
    BY <2>5, <2>10 DEF PayingAlone
  <2>12. QED
    BY <2>6, <2>7, <2>8, <2>9, <2>11 DEF RInv
<1>6. QED
  BY <1>4, <1>5 DEF CreateInsert

\* What a new word of the gateway leaves true.
LEMMA AnnounceTold ==
  ASSUME TInv, RInv, NEW c \in Charges, NEW month \in Months, NEW report \in Reports,
         Announce(c, month, report), UNCHANGED charge,
         gateway[c] # None \/ (charge[c] # None => charge[c].status = "pending")
  PROVE  /\ SaidByGateway'
         /\ \A d \in Charges : Told(d, charge[d])'
         /\ gateway'[c] # None
         /\ \A d \in Charges : gateway[d] # None => gateway'[d] # None
         /\ \A d \in Charges : d # c => gateway'[d] = gateway[d]
         /\ \A d \in Charges : said[d] \subseteq said'[d]
<1> DEFINE payment == [month |-> month, report |-> report]
           m == [c |-> c, report |-> report]
<1>1. payment \in Payment /\ payment.report = report /\ m.c = c /\ m.report = report
  BY DEF Payment
<1>2. payment # None
  BY <1>1, ConstantsAssumption
<1>3. /\ gateway' = [gateway EXCEPT ![c] = payment]
      /\ said' = [said EXCEPT ![c] = @ \cup {report}]
      /\ mail' = mail \cup {m}
  BY DEF Announce
<1> HIDE DEF payment, m
<1>4. /\ gateway'[c] = payment /\ said'[c] = said[c] \cup {report}
      /\ \A d \in Charges \ {c} : gateway'[d] = gateway[d] /\ said'[d] = said[d]
  BY <1>3 DEF TInv, TypeOK
<1>5. SaidByGateway'
  <2>1. \A d \in Charges :
           IF gateway'[d] = None THEN said'[d] = {} ELSE gateway'[d].report \in said'[d]
    BY <1>1, <1>2, <1>4 DEF RInv, SaidByGateway
  <2>2. ASSUME NEW n \in mail'
        PROVE  gateway'[n.c] # None /\ n.report \in said'[n.c]
    <3>1. n = m \/ (n \in mail /\ n.c \in Charges)
      BY <1>3 DEF TInv, TypeOK, Webhook
    <3>2. QED
      BY <1>1, <1>2, <1>4, <3>1 DEF RInv, SaidByGateway
  <2>3. QED
    BY <2>1, <2>2 DEF SaidByGateway
<1>6. ASSUME NEW d \in Charges
      PROVE  Told(d, charge[d])'
  BY <1>2, <1>4 DEF RInv, Told
<1>7. QED
  BY <1>2, <1>4, <1>5, <1>6

\* A request stays in agreement with the gateway when it says something new.
LEMMA ToldGrows ==
  ASSUME NEW r \in Request, r.c \in Charges \cup {None}, WellFormed(r), RequestTold(r),
         \A d \in Charges : gateway[d] # None => gateway'[d] # None,
         \A d \in Charges : said[d] \subseteq said'[d]
  PROVE  /\ r.pc \in {"pay_load", "pay_write", "sync_load", "sync_write",
                      "hook_load", "hook_write"}
               => gateway'[r.c] # None /\ Told(r.c, r.ent)'
         /\ \A d \in Charges : r.list[d] # None => gateway'[d] # None
<1>1. ASSUME r.pc \in {"pay_load", "pay_write", "sync_load", "sync_write",
                       "hook_load", "hook_write"}
      PROVE  gateway'[r.c] # None /\ Told(r.c, r.ent)'
  <2>1. r.c \in Charges /\ gateway[r.c] # None /\ Told(r.c, r.ent)
    BY <1>1 DEF WellFormed, RequestTold
  <2>2. QED
    BY <2>1 DEF Told
<1>2. QED
  BY <1>1 DEF RequestTold

LEMMA PaymentTold ==
  ASSUME TInv, RInv, NEW c \in Charges, NEW report \in Reports, PaymentMoves(c, report)
  PROVE  RInv'
<1>1. gateway[c] # None /\ Announce(c, gateway[c].month, report) /\ UNCHANGED <<charge, req>>
  BY DEF PaymentMoves, db
<1>2. gateway[c].month \in Months
  BY <1>1 DEF TInv, TypeOK, Payment
<1>3. /\ SaidByGateway'
      /\ \A d \in Charges : Told(d, charge[d])'
      /\ \A d \in Charges : gateway[d] # None => gateway'[d] # None
      /\ \A d \in Charges : d # c => gateway'[d] = gateway[d]
      /\ \A d \in Charges : said[d] \subseteq said'[d]
  BY <1>1, <1>2, AnnounceTold
<1>4. ASSUME NEW w \in Workers
      PROVE  RequestTold(req[w])'
  <2>1. req[w] \in Request /\ req[w].c \in Charges \cup {None} /\ WellFormed(req[w])
        /\ RequestTold(req[w])
    BY DEF TInv, TypeOK, Request, RInv
  <2>2. QED
    BY <1>1, <1>3, <2>1, ToldGrows DEF RequestTold
<1>5. ASSUME NEW w \in Workers
      PROVE  PayingAlone(w)'
  <2>1. req[w].pc = "pay" => req[w].c \in Charges
    BY DEF TInv, TypeOK, WellFormed, Request
  <2>2. PayingAlone(w)
    BY DEF RInv
  <2>3. QED
    BY <1>1, <1>3, <2>1, <2>2 DEF PayingAlone
<1>6. QED
  BY <1>3, <1>4, <1>5 DEF RInv

LEMMA PayTold ==
  ASSUME TInv, RInv, NEW w \in Workers, CreatePay(w) \/ CreatePayLost(w)
  PROVE  RInv'
<1> DEFINE c == req[w].c
           ent == Applied(req[w].ent, "PENDING")
           p == [req[w] EXCEPT !.pc = "pay_load", !.ent = ent]
           q == [req[w] EXCEPT !.pc = "undo"]
<1>1. req[w] \in Request /\ WellFormed(req[w]) /\ RequestTold(req[w]) /\ PayingAlone(w)
      /\ req[w].pc = "pay"
  BY DEF TInv, TypeOK, RInv, CreatePay, CreatePayLost, At
<1>2. c \in Charges /\ req[w].month \in Months /\ req[w].ent \in Row /\ "PENDING" \in Reports
  BY <1>1 DEF Request, WellFormed, RowOrNone, Reports
<1>3. Announce(c, req[w].month, "PENDING") /\ UNCHANGED charge
  BY DEF CreatePay, CreatePayLost, db
<1>4. charge[c] # None => charge[c].status = "pending"
  BY <1>1 DEF PayingAlone
<1>5. /\ SaidByGateway'
      /\ \A d \in Charges : Told(d, charge[d])'
      /\ gateway'[c] # None
      /\ \A d \in Charges : gateway[d] # None => gateway'[d] # None
      /\ \A d \in Charges : d # c => gateway'[d] = gateway[d]
      /\ \A d \in Charges : said[d] \subseteq said'[d]
  BY <1>2, <1>3, <1>4, AnnounceTold
<1>6. ent.status = "pending"
  BY <1>2, AppliedType DEF Status
<1>7. PICK r \in {p, q} : Goto(w, r)
  BY DEF CreatePay, CreatePayLost
<1>8. /\ r.pc \in {"pay_load", "undo"} /\ r.c = c /\ r.list = req[w].list
      /\ r.pc = "pay_load" => r.ent = ent
  BY <1>1, <1>7 DEF Request
<1>9. req'[w] = r /\ \A v \in Workers \ {w} : req'[v] = req[v]
  BY <1>7 DEF Goto, TInv, TypeOK
<1>10. r.c \in Charges /\ gateway'[r.c] # None /\ (r.pc = "pay_load" => r.ent.status = "pending")
  BY <1>2, <1>5, <1>6, <1>8
<1>11. RequestTold(req[w])'
  <2>1. \A d \in Charges : r.list[d] # None => gateway'[d] # None
    BY <1>1, <1>5, <1>8 DEF RequestTold
  <2> HIDE DEF ent, p, q, c
  <2>2. QED
    BY <1>8, <1>9, <1>10, <2>1 DEF RequestTold, Told
<1> HIDE DEF ent, p, q
<1>12. ASSUME NEW v \in Workers \ {w}
       PROVE  RequestTold(req[v])'
  <2>1. req[v] \in Request /\ req[v].c \in Charges \cup {None} /\ WellFormed(req[v])
        /\ RequestTold(req[v])
    BY DEF TInv, TypeOK, Request, RInv
  <2>2. QED
    BY <1>5, <1>9, <2>1, ToldGrows DEF RequestTold
<1>13. PayingAlone(w)'
  BY <1>8, <1>9 DEF PayingAlone
<1>14. ASSUME NEW v \in Workers \ {w}, req[v].pc = "pay"
       PROVE  PayingAlone(v)'
  <2>1. req[v].c \in Charges /\ PayingAlone(v)
    BY <1>14 DEF TInv, TypeOK, WellFormed, Request, RInv
  <2>2. req[v].c # c
    BY <1>14, <2>1 DEF PayingAlone
  <2>3. QED
    BY <1>3, <1>5, <1>8, <1>9, <1>14, <2>1, <2>2 DEF PayingAlone
<1>15. ASSUME NEW v \in Workers \ {w}
       PROVE  PayingAlone(v)'
  BY <1>9, <1>14 DEF PayingAlone
<1>16. QED
  BY <1>5, <1>11, <1>12, <1>13, <1>15 DEF RInv

-----------------------------------------------------------------------------
LEMMA CycleTold ==
  ASSUME TInv, RInv, NEW w \in Workers, CycleStart(w) \/ CycleSuspend(w) \/ CyclePlan(w)
  PROVE  RInv'
<1>1. req[w] \in Request /\ RequestTold(req[w])
  BY DEF TInv, TypeOK, RInv
<1>2. UNCHANGED <<charge, gateway, said, mail>>
  BY DEF CycleStart, CycleSuspend, CyclePlan, db, asaas
<1>3. CASE CycleStart(w)
  <2> DEFINE q(pc) == [Idle EXCEPT !.pc = pc]
  <2>1. ASSUME NEW pc \in {"suspend", "plan"}
        PROVE  q(pc) \in Request /\ RequestTold(q(pc)) /\ q(pc).pc # "pay" /\ q(pc).c = None
    BY IdleIsRequest DEF Idle, Request, PCs, RequestTold, NoCharges
  <2>2. \E pc \in {"suspend", "plan"} : req' = [req EXCEPT ![w] = q(pc)]
    BY <1>3 DEF CycleStart, Begin
  <2>3. QED
    BY <1>2, <2>1, <2>2, RequestOnlyTold
<1>4. CASE CycleSuspend(w)
  <2> DEFINE bill == [billing EXCEPT !.status = "suspended"]
             p == [req[w] EXCEPT !.pc = "bill_load", !.then = "plan", !.bill = bill]
             q == [req[w] EXCEPT !.pc = "plan"]
  <2>1. billing # None => bill \in BillingOrNone
    BY DEF TInv, TypeOK, BillingOrNone, Billing
  <2>2. ASSUME billing # None
        PROVE  p \in Request /\ RequestTold(p) /\ p.pc # "pay" /\ p.c = req[w].c
    <3> HIDE DEF bill
    <3>1. p \in Request /\ p.pc = "bill_load" /\ p.c = req[w].c /\ p.list = req[w].list
      BY <1>1, <2>1, <2>2 DEF Request, PCs
    <3>2. QED
      BY <1>1, <3>1, SameTold
  <2>3. q \in Request /\ RequestTold(q) /\ q.pc # "pay" /\ q.c = req[w].c
    BY <1>1 DEF Request, PCs, RequestTold
  <2>4. (billing # None /\ Goto(w, p)) \/ Goto(w, q)
    BY <1>4 DEF CycleSuspend
  <2> HIDE DEF p, q
  <2>5. QED
    BY <1>2, <2>2, <2>3, <2>4, RequestOnlyTold DEF Goto
<1>5. CASE CyclePlan(w)
  <2> DEFINE q == [Idle EXCEPT !.pc = "bill_read", !.month = NextMonth]
  <2>1. NextMonth \in Months =>
           q \in Request /\ RequestTold(q) /\ q.pc # "pay" /\ q.c = None
    BY IdleIsRequest DEF Idle, Request, PCs, RequestTold, NoCharges
  <2>2. (NextMonth \in Months /\ Goto(w, q)) \/ Finish(w)
    BY <1>5 DEF CyclePlan
  <2>3. QED
    BY <1>2, <2>1, <2>2, FinishTold, RequestOnlyTold DEF Goto
<1>6. QED
  BY <1>3, <1>4, <1>5

LEMMA SyncTold ==
  ASSUME TInv, RInv, NEW w \in Workers,
         \/ SyncStart(w) \/ SyncLoad(w) \/ SyncWrite(w)
         \/ \E c \in Charges : SyncGet(w, c) \/ SyncError(w, c)
  PROVE  RInv'
<1>1. req[w] \in Request /\ WellFormed(req[w]) /\ RequestTold(req[w])
  BY DEF TInv, TypeOK, RInv
<1>2. UNCHANGED <<gateway, said, mail>>
  BY DEF SyncStart, SyncLoad, SyncWrite, SyncGet, SyncError, asaas
<1>3. CASE SyncStart(w)
  <2> DEFINE list == [c \in Charges |-> IF c \in Listed THEN charge[c] ELSE None]
             q == [Idle EXCEPT !.pc = "sync_get", !.list = list]
  <2>1. list \in [Charges -> RowOrNone]
    BY DEF TInv, TypeOK, RowOrNone
  <2>2. \A c \in Charges : list[c] # None => gateway[c] # None
    BY DEF Listed, RInv, Told
  <2>3. q \in Request /\ RequestTold(q) /\ q.pc # "pay" /\ q.c = None
    <3> HIDE DEF list
    <3>1. q \in Request /\ q.pc = "sync_get" /\ q.c = None /\ q.list = list
      BY <2>1, IdleIsRequest DEF Idle, Request, PCs
    <3> HIDE DEF q
    <3>2. QED
      BY <2>2, <3>1 DEF RequestTold
  <2> HIDE DEF q
  <2>4. QED
    BY <1>2, <1>3, <2>3, RequestOnlyTold DEF SyncStart, Begin, db, q
<1>4. ASSUME NEW c \in Charges, SyncGet(w, c)
      PROVE  RInv'
  <2> DEFINE ent == Applied(req[w].list[c], gateway[c].report)
             q == [req[w] EXCEPT !.pc = "sync_load", !.c = c, !.ent = ent]
  <2>1. req[w].list[c] \in Row /\ gateway[c] # None
    BY <1>1, <1>4 DEF SyncGet, Request, RowOrNone, RequestTold
  <2>2. gateway[c].report \in Reports /\ gateway[c].report \in said[c]
    BY <2>1 DEF RInv, SaidByGateway, TInv, TypeOK, Payment
  <2>3. ent \in Row /\ ent.status = Status(gateway[c].report)
    BY <2>1, <2>2, AppliedType
  <2> HIDE DEF ent
  <2>4. Told(c, ent)
    BY <2>1, <2>2, <2>3 DEF Told, Status, Reports
  <2>5. q \in Request /\ q.pc = "sync_load" /\ q.c = c /\ q.ent = ent /\ q.list = req[w].list
    BY <1>1, <2>3 DEF Request, PCs, RowOrNone
  <2>6. req' = [req EXCEPT ![w] = q] /\ UNCHANGED charge
    BY <1>4 DEF SyncGet, Goto, db, ent
  <2> HIDE DEF q
  <2>7. RequestTold(q)
    BY <1>1, <2>1, <2>4, <2>5 DEF RequestTold
  <2>8. QED
    BY <1>2, <2>1, <2>5, <2>6, <2>7, RequestOnlyTold
<1>5. CASE SyncLoad(w)
  <2> DEFINE q == [req[w] EXCEPT !.pc = "sync_write", !.base = charge[req[w].c]]
  <2>1. req[w].c \in Charges
    BY <1>1, <1>5 DEF SyncLoad, At, WellFormed, Request
  <2>2. q \in Request /\ q.pc = "sync_write" /\ q.c = req[w].c /\ q.ent = req[w].ent
        /\ q.list = req[w].list
    BY <1>1, <2>1 DEF Request, PCs, TInv, TypeOK
  <2>3. RequestTold(q)
    BY <1>1, <1>5, <2>2, SameTold DEF SyncLoad, At
  <2>4. QED
    BY <1>2, <1>5, <2>2, <2>3, RequestOnlyTold DEF SyncLoad, Goto, db
<1>6. CASE SyncWrite(w)
  <2> DEFINE q == NextListed(w, req[w].c)
  <2>1. req[w].c \in Charges /\ req[w].ent \in Row
        /\ gateway[req[w].c] # None /\ Told(req[w].c, req[w].ent)
    BY <1>1, <1>6 DEF SyncWrite, At, Request, WellFormed, RowOrNone, RequestTold
  <2>2. q \in Request /\ RequestTold(q) /\ q.pc # "pay" /\ q.c = None
    BY NextListedType, NextListedTold
  <2>3. req' = [req EXCEPT ![w] = q] /\ (UNCHANGED charge \/ SaveAs(w, req[w].ent))
    BY <1>6 DEF SyncWrite, Goto
  <2> HIDE DEF q
  <2>4. QED
    BY <1>2, <2>1, <2>2, <2>3, RequestOnlyTold, StoredTold
<1>7. ASSUME NEW c \in Charges, SyncError(w, c)
      PROVE  RInv'
  BY <1>2, <1>7, NextListedType, NextListedTold, RequestOnlyTold DEF SyncError, Goto, db
<1>8. QED
  BY <1>3, <1>4, <1>5, <1>6, <1>7

LEMMA HookTold ==
  ASSUME TInv, RInv, NEW w \in Workers,
         (\E m \in mail : HookRead(w, m)) \/ HookLoad(w) \/ HookWrite(w)
  PROVE  RInv'
<1>1. req[w] \in Request /\ WellFormed(req[w]) /\ RequestTold(req[w])
  BY DEF TInv, TypeOK, RInv
<1>2. UNCHANGED <<gateway, said>> /\ mail' \subseteq mail
  BY DEF HookRead, HookLoad, HookWrite, asaas
<1>3. ASSUME NEW m \in mail, HookRead(w, m)
      PROVE  RInv'
  <2> DEFINE ent == Notified(charge[m.c], m.report)
             q == [Idle EXCEPT !.pc = "hook_load", !.c = m.c, !.msg = m, !.ent = ent]
  <2>1. m \in Webhook /\ m.c \in Charges /\ m.report \in Reports
        /\ gateway[m.c] # None /\ m.report \in said[m.c]
    BY DEF TInv, TypeOK, Webhook, RInv, SaidByGateway
  <2>2. CASE charge[m.c] = None
    <3>1. UNCHANGED <<charge, req>>
      BY <1>3, <2>2 DEF HookRead, db
    <3>2. QED
      BY <1>2, <3>1 DEF RInv, SaidByGateway, Told, RequestTold, PayingAlone
  <2>3. CASE charge[m.c] # None
    <3>1. ent \in Row /\ ent.status = Status(m.report)
      BY <2>1, <2>3, AppliedType DEF TInv, TypeOK, RowOrNone
    <3> HIDE DEF ent
    <3>2. Told(m.c, ent)
      BY <2>1, <3>1 DEF Told, Status, Reports
    <3>3. q \in Request /\ q.pc = "hook_load" /\ q.c = m.c /\ q.ent = ent /\ q.list = NoCharges
      BY <2>1, <3>1, IdleIsRequest DEF Idle, Request, PCs, RowOrNone
    <3>4. req' = [req EXCEPT ![w] = q] /\ UNCHANGED charge
      BY <1>3, <2>3 DEF HookRead, Begin, db, ent
    <3> HIDE DEF q
    <3>5. RequestTold(q)
      BY <2>1, <3>2, <3>3 DEF RequestTold, NoCharges
    <3>6. QED
      BY <1>2, <2>1, <3>3, <3>4, <3>5, RequestOnlyTold
  <2>4. QED
    BY <2>2, <2>3
<1>4. CASE HookLoad(w)
  <2> DEFINE q == [req[w] EXCEPT !.pc = "hook_write", !.base = charge[req[w].c]]
  <2>1. req[w].c \in Charges
    BY <1>1, <1>4 DEF HookLoad, At, WellFormed, Request
  <2>2. q \in Request /\ q.pc = "hook_write" /\ q.c = req[w].c /\ q.ent = req[w].ent
        /\ q.list = req[w].list
    BY <1>1, <2>1 DEF Request, PCs, TInv, TypeOK
  <2>3. RequestTold(q)
    BY <1>1, <1>4, <2>2, SameTold DEF HookLoad, At
  <2>4. QED
    BY <1>2, <1>4, <2>2, <2>3, RequestOnlyTold DEF HookLoad, Goto, db
<1>5. CASE HookWrite(w)
  <2>1. req[w].c \in Charges /\ req[w].ent \in Row
        /\ gateway[req[w].c] # None /\ Told(req[w].c, req[w].ent)
    BY <1>1, <1>5 DEF HookWrite, At, Request, WellFormed, RowOrNone, RequestTold
  <2>2. Finish(w) /\ (UNCHANGED charge \/ SaveAs(w, req[w].ent))
    BY <1>5 DEF HookWrite
  <2>3. QED
    BY <1>2, <2>1, <2>2, IdleTold, IdleIsRequest, FinishTold, StoredTold DEF Finish
<1>6. QED
  BY <1>3, <1>4, <1>5

LEMMA NextTold == TInv /\ RInv /\ [Next]_vars => RInv'
<1> SUFFICES ASSUME TInv, RInv, [Next]_vars
             PROVE  RInv'
  OBVIOUS
<1>1. ASSUME NEW w \in Workers, Create(w)
      PROVE  RInv'
  BY <1>1, CreateStepTold, CreateStoreTold, InsertTold, PayTold DEF Create
<1>2. ASSUME NEW w \in Workers, Proceed(w)
      PROVE  RInv'
  BY <1>1, <1>2, BillingTold, CycleTold, SyncTold, HookTold DEF Proceed
<1>3. ASSUME NEW w \in Workers, Fault(w)
      PROVE  RInv'
  BY <1>3, CreateStepTold, PayTold, SyncTold DEF Fault
<1>4. ASSUME NEW w \in Admins, Administer(w)
      PROVE  RInv'
  BY <1>4, BillingTold, CreateStepTold DEF Administer, Workers
<1>5. CASE Sync \/ Cycle
  BY <1>5, SyncTold, CycleTold DEF Sync, Cycle, Workers
<1>6. CASE Tick \/ (\E m \in mail : LoseWebhook(m)) \/ UNCHANGED vars
  <2>1. UNCHANGED <<charge, gateway, said, req>> /\ mail' \subseteq mail
    BY <1>6 DEF Tick, LoseWebhook, vars, db, asaas
  <2>2. QED
    BY <2>1 DEF RInv, SaidByGateway, Told, RequestTold, PayingAlone
<1>7. QED
  BY <1>2, <1>3, <1>4, <1>5, <1>6, CreateStoreTold, HookTold, PaymentTold DEF Next, Workers

-----------------------------------------------------------------------------
\* Charges, the billing row, payments and the handlers in progress keep their
\* types, whatever was read before a webhook, a crash or another handler's save.
THEOREM TypeCorrect == Spec => []TypeOK
<1>1. Init => TInv /\ RInv
  BY InitType, InitTold
<1>2. TInv /\ RInv /\ [Next]_vars => (TInv /\ RInv)'
  BY NextType, NextTold
<1>3. TInv => TypeOK
  BY DEF TInv
<1>4. QED
  BY <1>1, <1>2, <1>3, PTL DEF Spec

\* A charge has a status only if the gateway reported it for that very charge,
\* however many handlers apply webhooks and answers late, twice or over newer
\* ones; a charge that was free of cost never gets a payment.
THEOREM StatusIsReported == Spec => []Reported
<1>1. Init => TInv /\ RInv
  BY InitType, InitTold
<1>2. TInv /\ RInv /\ [Next]_vars => (TInv /\ RInv)'
  BY NextType, NextTold
<1>3. TInv /\ RInv => Reported
  <2>1. SUFFICES ASSUME TInv, RInv, NEW c \in Charges, charge[c] # None
                 PROVE  CASE charge[c].status = "confirmed" -> gateway[c] = None \/ "RECEIVED" \in said[c]
                          [] charge[c].status = "overdue"   -> "OVERDUE" \in said[c]
                          [] charge[c].status = "cancelled" -> "REFUNDED" \in said[c]
                          [] charge[c].status = "pending"   -> TRUE
    BY DEF Reported
  <2>2. charge[c].status \in {"pending", "confirmed", "overdue", "cancelled"} /\ Told(c, charge[c])
    BY <2>1 DEF TInv, TypeOK, RowOrNone, Row, RInv
  <2>3. QED
    BY <2>1, <2>2 DEF Told
<1>4. QED
  BY <1>1, <1>2, <1>3, PTL DEF Spec

-----------------------------------------------------------------------------
\* From here on answers of the gateway are not lost.

LEMMA InitMonth == Init => QInv
  BY DEF Init, NoCharges, Idle, QInv, ChargeMonth, RowMonth, Live, UniqueMonths, RequestMonth,
         PayingMonth

\* A step of w that leaves charges and gateway alone.
LEMMA QuietMonth ==
  ASSUME TInv, QInv, NEW w \in Workers, NEW r,
         req'[w] = r, \A v \in Workers \ {w} : req'[v] = req[v],
         RequestMonth(r), PayingMonth(r),
         UNCHANGED <<charge, gateway, said>>
  PROVE  QInv'
<1>1. (\A c \in Charges : ChargeMonth(c))' /\ UniqueMonths'
  BY DEF QInv, ChargeMonth, RowMonth, Live, UniqueMonths
<1>2. ASSUME NEW v \in Workers
      PROVE  RequestMonth(req[v])' /\ PayingMonth(req[v])'
  <2>1. req'[v] = r \/ req'[v] = req[v]
    OBVIOUS
  <2>2. RequestMonth(req[v]) /\ PayingMonth(req[v])
    BY DEF QInv
  <2>3. QED
    BY <2>1, <2>2 DEF RequestMonth, PayingMonth, RowMonth, Live
<1>3. QED
  BY <1>1, <1>2 DEF QInv

\* The pcs at which nothing is known of a particular charge.
Elsewhere == {"idle", "bill_read", "bill_load", "bill_write", "find", "price", "insert",
              "suspend", "plan", "sync_get"}

LEMMA ElsewhereMonth ==
  ASSUME TInv, QInv, NEW w \in Workers, NEW r,
         req'[w] = r, \A v \in Workers \ {w} : req'[v] = req[v],
         r.pc \in Elsewhere,
         \A c \in Charges : r.list[c] # None => r.list[c] = req[w].list[c],
         UNCHANGED <<charge, gateway, said>>
  PROVE  QInv'
<1>1. RequestMonth(req[w])
  BY DEF QInv
<1>2. RequestMonth(r) /\ PayingMonth(r)
  BY <1>1 DEF RequestMonth, PayingMonth, RowMonth, Elsewhere
<1>3. QED
  BY <1>2, QuietMonth

\* A step of w that stores or removes charge c.
LEMMA ChargeStepMonth ==
  ASSUME TInv, RInv, QInv, NEW w \in Workers, NEW r, NEW c \in Charges, NEW row \in RowOrNone,
         req'[w] = r, \A v \in Workers \ {w} : req'[v] = req[v],
         RequestMonth(r), r.pc # "pay",
         charge' = [charge EXCEPT ![c] = row], UNCHANGED <<gateway, said>>,
         \A v \in Workers \ {w} : req[v].pc = "pay" => req[v].c # c,
         RowMonth(c, row), Live(c) => row # None,
         \A d \in Charges \ {c} :
            row # None /\ charge[d] # None => charge[d].month # row.month
  PROVE  QInv'
<1>1. charge'[c] = row /\ \A d \in Charges \ {c} : charge'[d] = charge[d]
  BY DEF TInv, TypeOK
<1>2. (\A d \in Charges : ChargeMonth(d))'
  BY <1>1 DEF QInv, ChargeMonth, RowMonth, Live
<1>3. UniqueMonths'
  BY <1>1 DEF QInv, UniqueMonths
<1>4. ASSUME NEW v \in Workers
      PROVE  RequestMonth(req[v])'
  <2>1. req'[v] = r \/ req'[v] = req[v]
    OBVIOUS
  <2>2. RequestMonth(req[v])
    BY DEF QInv
  <2>3. QED
    BY <2>1, <2>2 DEF RequestMonth, RowMonth, Live
<1>5. ASSUME NEW v \in Workers
      PROVE  PayingMonth(req[v])'
  <2>1. CASE v = w
    BY <2>1 DEF PayingMonth
  <2>2. CASE v # w
    <3>1. req'[v] = req[v] /\ PayingMonth(req[v])
      BY <2>2 DEF QInv
    <3>2. req[v].pc = "pay" => req[v].c \in Charges \ {c}
      BY <2>2 DEF TInv, TypeOK, WellFormed, Request
    <3>3. QED
      BY <1>1, <3>1, <3>2 DEF PayingMonth
  <2>3. QED
    BY <2>1, <2>2
<1>6. QED
  BY <1>2, <1>3, <1>4, <1>5 DEF QInv

LEMMA SavedMonth ==
  ASSUME NEW row \in Row, NEW was \in RowOrNone, NEW ent \in Row, row.month = ent.month
  PROVE  Saved(row, was, ent) \in Row /\ Saved(row, was, ent).month = ent.month
<1>1. row # None
  BY ConstantsAssumption
<1>2. CASE was = None
  BY <1>2 DEF Saved
<1>3. CASE was # None
  <2>1. was \in Row /\ Saved(row, was, ent) = Merge(row, was, ent)
    BY <1>1, <1>3 DEF Saved, RowOrNone
  <2>2. QED
    BY <2>1 DEF Merge, Row
<1>4. QED
  BY <1>2, <1>3

\* No request is about to pay for a charge that has a payment.
LEMMA PaidAlready ==
  ASSUME RInv, NEW c, gateway[c] # None, NEW v \in Workers, req[v].pc = "pay"
  PROVE  req[v].c # c
  BY DEF RInv, PayingAlone

\* The save of w: an INSERT only where the month is free, else an UPDATE of a
\* row of the same month.
LEMMA SaveMonth ==
  ASSUME TInv, RInv, QInv, NEW w \in Workers, NEW r,
         req'[w] = r, \A v \in Workers \ {w} : req'[v] = req[v],
         RequestMonth(r), r.pc # "pay",
         req[w].c \in Charges, req[w].ent \in Row, gateway[req[w].c] # None,
         req[w].ent.month = gateway[req[w].c].month,
         SaveAs(w, req[w].ent), ~Refused(w, req[w].ent), UNCHANGED <<gateway, said>>
  PROVE  QInv'
<1> DEFINE c == req[w].c
           ent == req[w].ent
           row == Saved(charge[c], req[w].base, ent)
<1>1. charge[c] \in RowOrNone /\ req[w].base \in RowOrNone
  BY DEF TInv, TypeOK, Request
<1>2. row \in RowOrNone /\ charge' = [charge EXCEPT ![c] = row]
  BY <1>1, SavedType DEF SaveAs
<1>3. \A v \in Workers \ {w} : req[v].pc = "pay" => req[v].c # c
  BY PaidAlready
<1>4. ChargeMonth(c) /\ UniqueMonths
  BY DEF QInv
<1>5. /\ RowMonth(c, row)
      /\ Live(c) => row # None
      /\ \A d \in Charges \ {c} : row # None /\ charge[d] # None => charge[d].month # row.month
  <2>1. CASE req[w].base = None
    <3>1. row = ent /\ ent # None /\ Insertable(c, ent)
      BY <2>1, ConstantsAssumption DEF Saved, Refused
    <3>2. QED
      BY <3>1 DEF RowMonth, Insertable
  <2>2. CASE req[w].base # None /\ charge[c] = None
    <3>1. row = None
      BY <2>2 DEF Saved
    <3>2. QED
      BY <1>4, <2>2, <3>1 DEF RowMonth, ChargeMonth
  <2>3. CASE charge[c] # None
    <3>1. charge[c] \in Row /\ charge[c].month = ent.month
      BY <1>1, <1>4, <2>3 DEF ChargeMonth, RowMonth, RowOrNone
    <3>2. row \in Row /\ row.month = ent.month
      BY <1>1, <3>1, SavedMonth
    <3>3. row # None
      BY <3>2, ConstantsAssumption
    <3> HIDE DEF row
    <3>4. QED
      BY <1>4, <2>3, <3>1, <3>2, <3>3 DEF RowMonth, UniqueMonths
  <2>4. QED
    BY <2>1, <2>2, <2>3
<1> HIDE DEF row
<1>6. QED
  BY <1>2, <1>3, <1>5, ChargeStepMonth

LEMMA IdleMonth == RequestMonth(Idle) /\ PayingMonth(Idle) /\ Idle.pc # "pay"
  BY DEF RequestMonth, PayingMonth, RowMonth, Idle, NoCharges

LEMMA NextListedMonth ==
  ASSUME TInv, QInv, NEW w \in Workers, NEW c
  PROVE  /\ RequestMonth(NextListed(w, c)) /\ PayingMonth(NextListed(w, c))
         /\ NextListed(w, c).pc # "pay"
<1> DEFINE rest == [req[w].list EXCEPT ![c] = None]
           q == [Idle EXCEPT !.pc = "sync_get", !.list = rest]
<1>1. \A d \in Charges : RowMonth(d, rest[d])
  BY DEF QInv, RequestMonth, RowMonth, TInv, TypeOK, Request
<1>2. q.pc = "sync_get" /\ q.list = rest
  BY DEF Idle
<1>3. NextListed(w, c) = Idle \/ NextListed(w, c) = q
  BY DEF NextListed
<1> HIDE DEF q, rest
<1>4. RequestMonth(q) /\ PayingMonth(q)
  BY <1>1, <1>2 DEF RequestMonth, PayingMonth
<1>5. QED
  BY <1>2, <1>3, <1>4, IdleMonth

\* The steps after which a handler holds no charge.
LEMMA RestMonth ==
  ASSUME TInv, RInv, QInv, ~AnswersLost, NEW w \in Workers,
         \/ BillingLoad(w) \/ BillingWrite(w) \/ \E status \in Patches : PatchBilling(w, status)
         \/ CreateBilling(w) \/ CreatePriced(w) \/ OutOfIdentifiers(w)
         \/ \E month \in Months : CreateStart(w, month)
         \/ CycleStart(w) \/ CycleSuspend(w) \/ CyclePlan(w) \/ Fail(w)
         \/ SyncStart(w) \/ \E c \in Charges : SyncError(w, c)
  PROVE  QInv'
<1>1. req[w] \in Request /\ WellFormed(req[w]) /\ req \in [Workers -> Request]
  BY DEF TInv, TypeOK
<1>2. UNCHANGED <<charge, gateway, said>>
  BY DEF BillingLoad, BillingWrite, PatchBilling, CreateBilling, CreatePriced, OutOfIdentifiers,
         CreateStart, CycleStart, CycleSuspend, CyclePlan, Fail, SyncStart, SyncError, db, asaas
<1>3. \A v \in Workers \ {w} : req'[v] = req[v]
  BY <1>1 DEF BillingLoad, BillingWrite, PatchBilling, CreateBilling, CreatePriced,
         OutOfIdentifiers, CreateStart, CycleStart, CycleSuspend, CyclePlan, Fail, SyncStart,
         SyncError, Goto, Begin, Finish
<1>4. ASSUME NEW r, req'[w] = r, r.pc \in Elsewhere, r.list = req[w].list \/ r.list = NoCharges
      PROVE  QInv'
  BY <1>2, <1>3, <1>4, ElsewhereMonth DEF NoCharges
<1>i. Idle.pc \in Elsewhere /\ Idle.list = NoCharges
  BY DEF Idle, Elsewhere
<1>5. CASE BillingLoad(w) \/ BillingWrite(w)
  <2> DEFINE p == [req[w] EXCEPT !.pc = "bill_write", !.was = billing]
             q == [req[w] EXCEPT !.pc = req[w].then, !.then = "idle", !.was = None]
  <2>1. p.pc \in Elsewhere /\ p.list = req[w].list
    BY <1>1 DEF Request, Elsewhere
  <2>2. q.pc \in Elsewhere /\ q.list = req[w].list
    BY <1>1 DEF Request, WellFormed, Elsewhere
  <2>3. Finish(w) \/ Goto(w, p) \/ Goto(w, q)
    BY <1>5 DEF BillingLoad, BillingWrite
  <2> HIDE DEF p, q
  <2>4. QED
    BY <1>1, <1>4, <1>i, <2>1, <2>2, <2>3 DEF Finish, Goto
<1>6. CASE \E status \in Patches : PatchBilling(w, status)
  <2>1. PICK bill : req' = [req EXCEPT ![w] = [Idle EXCEPT !.pc = "bill_load", !.bill = bill]]
    BY <1>6 DEF PatchBilling, Begin
  <2> DEFINE q == [Idle EXCEPT !.pc = "bill_load", !.bill = bill]
  <2>2. q.pc \in Elsewhere /\ q.list = NoCharges
    BY DEF Elsewhere, Idle
  <2> HIDE DEF q
  <2>3. req'[w].pc \in Elsewhere /\ req'[w].list = NoCharges
    BY <1>1, <2>1, <2>2 DEF q
  <2>4. QED
    BY <1>4, <2>3
<1>7. CASE CreateBilling(w) \/ CreatePriced(w) \/ OutOfIdentifiers(w)
  <2> DEFINE o == [req[w] EXCEPT !.pc = "bill_load", !.then = "find",
                                 !.bill = IF billing = None
                                          THEN [status |-> "active", customer |-> FALSE]
                                          ELSE billing]
             p == [req[w] EXCEPT !.pc = "insert"]
             q == [req[w] EXCEPT !.pc = "bill_load", !.then = "insert", !.bill.customer = TRUE]
  <2>1. o.pc \in Elsewhere /\ o.list = req[w].list
    BY <1>1 DEF Request, Elsewhere
  <2>2. p.pc \in Elsewhere /\ p.list = req[w].list
    BY <1>1 DEF Request, Elsewhere
  <2>3. q.pc \in Elsewhere /\ q.list = req[w].list
    BY <1>1 DEF Request, Elsewhere
  <2>4. Finish(w) \/ Goto(w, o) \/ Goto(w, p) \/ Goto(w, q)
    BY <1>7 DEF CreateBilling, CreatePriced, OutOfIdentifiers
  <2> HIDE DEF o, p, q
  <2>5. QED
    BY <1>1, <1>4, <1>i, <2>1, <2>2, <2>3, <2>4 DEF Finish, Goto
<1>8. CASE \E month \in Months : CreateStart(w, month)
  <2>1. req'[w].pc \in Elsewhere /\ req'[w].list = NoCharges
    BY <1>1, <1>8 DEF CreateStart, Begin, Elsewhere, Idle
  <2>2. QED
    BY <1>4, <2>1
<1>9. CASE CycleStart(w) \/ CycleSuspend(w) \/ CyclePlan(w)
  <2> DEFINE n(pc) == [Idle EXCEPT !.pc = pc]
             o == [req[w] EXCEPT !.pc = "bill_load", !.then = "plan",
                                 !.bill = [billing EXCEPT !.status = "suspended"]]
             p == [req[w] EXCEPT !.pc = "plan"]
             q == [Idle EXCEPT !.pc = "bill_read", !.month = NextMonth]
  <2>1. /\ n("suspend").pc \in Elsewhere /\ n("suspend").list = NoCharges
        /\ n("plan").pc \in Elsewhere /\ n("plan").list = NoCharges
        /\ q.pc \in Elsewhere /\ q.list = NoCharges
    BY DEF Idle, Elsewhere
  <2>2. o.pc \in Elsewhere /\ o.list = req[w].list
    BY <1>1 DEF Request, Elsewhere
  <2>3. p.pc \in Elsewhere /\ p.list = req[w].list
    BY <1>1 DEF Request, Elsewhere
  <2>4. Finish(w) \/ Goto(w, n("suspend")) \/ Goto(w, n("plan")) \/ Goto(w, o) \/ Goto(w, p)
        \/ Goto(w, q)
    BY <1>9 DEF CycleStart, CycleSuspend, CyclePlan, Begin, Goto
  <2> HIDE DEF n, o, p, q
  <2>5. QED
    BY <1>1, <1>4, <1>i, <2>1, <2>2, <2>3, <2>4 DEF Finish, Goto
<1>10. CASE Fail(w)
  <2>1. req'[w].pc \in Elsewhere /\ req'[w].list = NoCharges
    BY <1>1, <1>10 DEF Fail, Finish, Elsewhere, Idle
  <2>2. QED
    BY <1>4, <2>1
<1>11. CASE SyncStart(w)
  <2> DEFINE list == [c \in Charges |-> IF c \in Listed THEN charge[c] ELSE None]
             q == [Idle EXCEPT !.pc = "sync_get", !.list = list]
  <2>1. q.pc = "sync_get" /\ q.list = list
    BY DEF Idle
  <2>2. \A c \in Charges : RowMonth(c, list[c])
    BY DEF QInv, ChargeMonth, RowMonth
  <2>3. req'[w] = q
    BY <1>1, <1>11 DEF SyncStart, Begin
  <2> HIDE DEF q, list
  <2>4. RequestMonth(q) /\ PayingMonth(q)
    BY <2>1, <2>2 DEF RequestMonth, PayingMonth
  <2>5. QED
    BY <1>2, <1>3, <2>3, <2>4, QuietMonth
<1>12. ASSUME NEW c \in Charges, SyncError(w, c)
       PROVE  QInv'
  BY <1>1, <1>2, <1>3, <1>12, NextListedMonth, QuietMonth DEF SyncError, Goto
<1>13. QED
  BY <1>5, <1>6, <1>7, <1>8, <1>9, <1>10, <1>11, <1>12

\* createMonthlyCharge: the charge of the month and its payment.
LEMMA CreateMonth ==
  ASSUME TInv, RInv, QInv, ~AnswersLost, NEW w \in Workers,
         \/ CreateFind(w) \/ CreateRemove(w) \/ CreateLoad(w) \/ CreateUndo(w)
         \/ CreateWrite(w) \/ CreatePayRefused(w)
  PROVE  QInv'
<1>1. req[w] \in Request /\ WellFormed(req[w]) /\ req \in [Workers -> Request]
      /\ RequestMonth(req[w]) /\ PayingMonth(req[w]) /\ PayingAlone(w) /\ RequestTold(req[w])
  BY DEF TInv, TypeOK, QInv, RInv
<1>2. UNCHANGED <<gateway, said>>
  BY DEF CreateFind, CreateRemove, CreateLoad, CreateUndo, CreateWrite, CreatePayRefused, asaas
<1>3. \A v \in Workers \ {w} : req'[v] = req[v]
  BY <1>1 DEF CreateFind, CreateRemove, CreateLoad, CreateUndo, CreateWrite, CreatePayRefused,
              Goto, Finish
<1>4. CASE CreateFind(w)
  <2> DEFINE p == [req[w] EXCEPT !.pc = "price"]
             q(c) == [req[w] EXCEPT !.pc = "remove", !.c = c]
  <2>1. \/ Finish(w) \/ Goto(w, p)
        \/ \E c \in Charges : charge[c] # None /\ Replaced(c) /\ Goto(w, q(c))
    BY <1>4 DEF CreateFind, Existing
  <2>2. CASE Finish(w) \/ Goto(w, p)
    <3>1. req'[w].pc \in Elsewhere /\ (req'[w].list = req[w].list \/ req'[w].list = NoCharges)
      BY <1>1, <2>2 DEF Goto, Finish, Request, Elsewhere, Idle
    <3>2. charge' = charge
      BY <1>4 DEF CreateFind, db
    <3>3. \A c \in Charges : req'[w].list[c] # None => req'[w].list[c] = req[w].list[c]
      BY <3>1 DEF NoCharges
    <3>4. QED
      BY <1>2, <1>3, <3>1, <3>2, <3>3, ElsewhereMonth
  <2>3. ASSUME NEW c \in Charges, charge[c] # None, Replaced(c), Goto(w, q(c))
        PROVE  QInv'
    <3>1. "REFUNDED" \in said[c]
      BY <2>3 DEF RInv, Told, Replaced
    <3>2. gateway[c] # None /\ gateway[c].report = "REFUNDED"
      BY <3>1 DEF QInv, ChargeMonth
    <3>3. q(c).pc = "remove" /\ q(c).c = c /\ q(c).list = req[w].list
      BY <1>1 DEF Request
    <3>4. RequestMonth(q(c)) /\ PayingMonth(q(c))
      BY <1>1, <3>2, <3>3 DEF RequestMonth, PayingMonth
    <3>5. req'[w] = q(c) /\ UNCHANGED charge
      BY <1>1, <1>4, <2>3 DEF Goto, CreateFind, db
    <3>6. QED
      BY <1>2, <1>3, <3>4, <3>5, QuietMonth
  <2>4. QED
    BY <2>1, <2>2, <2>3
<1>5. CASE CreateRemove(w) \/ CreateUndo(w)
  <2>1. PICK r : /\ req'[w] = r /\ r.pc \in {"idle", "price"}
                 /\ r.list = NoCharges \/ r.list = req[w].list
    BY <1>1, <1>5 DEF CreateRemove, CreateUndo, Goto, Finish, Request, Idle
  <2>2. RequestMonth(r) /\ r.pc # "pay"
    BY <1>1, <2>1 DEF RequestMonth, RowMonth, NoCharges
  <2>3. req[w].c \in Charges /\ req[w].pc # "pay" /\ ~Live(req[w].c)
    BY <1>1, <1>5 DEF CreateRemove, CreateUndo, At, WellFormed, Request, RequestMonth, Live
  <2>4. \A v \in Workers \ {w} : req[v].pc = "pay" => req[v].c # req[w].c
    BY DEF RInv, PayingAlone
  <2>5. charge' = [charge EXCEPT ![req[w].c] = None] /\ None \in RowOrNone
        /\ RowMonth(req[w].c, None)
    BY <1>5 DEF CreateRemove, CreateUndo, RowOrNone, RowMonth
  <2>6. QED
    BY <1>2, <1>3, <2>1, <2>2, <2>3, <2>4, <2>5, ChargeStepMonth
<1>6. CASE CreateLoad(w)
  <2> DEFINE q == [req[w] EXCEPT !.pc = "pay_write", !.base = charge[req[w].c]]
  <2>1. q.pc = "pay_write" /\ q.c = req[w].c /\ q.ent = req[w].ent /\ q.list = req[w].list
    BY <1>1 DEF Request
  <2>2. RequestMonth(q) /\ PayingMonth(q)
    BY <1>1, <1>6, <2>1 DEF CreateLoad, At, RequestMonth, PayingMonth
  <2>3. req'[w] = q /\ UNCHANGED charge
    BY <1>1, <1>6 DEF CreateLoad, Goto, db
  <2>4. QED
    BY <1>2, <1>3, <2>2, <2>3, QuietMonth
<1>7. CASE CreatePayRefused(w)
  <2> DEFINE q == [req[w] EXCEPT !.pc = "undo"]
  <2>1. q.pc = "undo" /\ q.c = req[w].c /\ q.list = req[w].list
    BY <1>1 DEF Request
  <2>2. ~Live(req[w].c)
    BY <1>1, <1>7 DEF CreatePayRefused, At, PayingAlone, Live
  <2>3. RequestMonth(q) /\ PayingMonth(q)
    BY <1>1, <2>1, <2>2 DEF RequestMonth, PayingMonth
  <2>4. req'[w] = q /\ UNCHANGED charge
    BY <1>1, <1>7 DEF CreatePayRefused, Goto, db
  <2>5. QED
    BY <1>2, <1>3, <2>3, <2>4, QuietMonth
<1>8. CASE CreateWrite(w)
  <2> DEFINE c == req[w].c
             q == [req[w] EXCEPT !.pc = "undo"]
  <2>1. c \in Charges /\ req[w].ent \in Row /\ gateway[c] # None
        /\ req[w].ent.month = gateway[c].month
    BY <1>1, <1>8 DEF CreateWrite, At, WellFormed, Request, RowOrNone, RequestTold, RequestMonth
  <2>2. CASE Refused(w, req[w].ent)
    <3>1. PICK d \in Charges \ {c} : charge[d] # None /\ charge[d].month = req[w].ent.month
      BY <2>2 DEF Refused, Insertable
    <3>2. ~Live(c)
      BY <2>1, <3>1 DEF QInv, ChargeMonth, RowMonth, UniqueMonths
    <3>3. q.pc = "undo" /\ q.c = c /\ q.list = req[w].list
      BY <1>1 DEF Request
    <3>4. RequestMonth(q) /\ PayingMonth(q)
      BY <1>1, <3>2, <3>3 DEF RequestMonth, PayingMonth
    <3>5. req'[w] = q /\ UNCHANGED charge
      BY <1>1, <1>8, <2>2 DEF CreateWrite, Goto
    <3>6. QED
      BY <1>2, <1>3, <3>4, <3>5, QuietMonth
  <2>3. CASE ~Refused(w, req[w].ent)
    <3>1. SaveAs(w, req[w].ent) /\ req'[w] = Idle
      BY <1>1, <1>8, <2>3 DEF CreateWrite, Finish
    <3>2. QED
      BY <1>2, <1>3, <2>1, <2>3, <3>1, IdleMonth, SaveMonth
  <2>4. QED
    BY <2>2, <2>3
<1>9. QED
  BY <1>4, <1>5, <1>6, <1>7, <1>8

\* A charge is inserted only in a month that has none.
LEMMA InsertMonth ==
  ASSUME TInv, RInv, QInv, NEW w \in Workers, NEW c \in Charges,
         CreateFree(w, c) \/ CreateInsert(w, c)
  PROVE  QInv'
<1>1. req[w] \in Request /\ WellFormed(req[w]) /\ req \in [Workers -> Request]
      /\ RequestMonth(req[w])
  BY DEF TInv, TypeOK, QInv
<1>2. gateway[c] = None /\ \A v \in Workers : req[v].c # c
  BY DEF CreateFree, CreateInsert, Fresh
<1>3. UNCHANGED <<gateway, said>> /\ \A v \in Workers \ {w} : req'[v] = req[v]
  BY <1>1 DEF CreateFree, CreateInsert, asaas, Finish, Goto
<1>4. req[w].month \in Months
  BY <1>1 DEF CreateFree, CreateInsert, At, WellFormed
<1>5. CASE UNCHANGED charge /\ Finish(w)
  BY <1>1, <1>3, <1>5, IdleMonth, QuietMonth DEF Finish
<1>6. ASSUME NEW ent \in Row, ent.month = req[w].month, Insertable(c, ent),
             charge' = [charge EXCEPT ![c] = ent]
      PROVE  /\ (\A d \in Charges : ChargeMonth(d))' /\ UniqueMonths'
             /\ charge'[c] = ent /\ ent # None
             /\ \A d \in Charges \ {c} : charge'[d] = charge[d]
  <2>1. charge'[c] = ent /\ \A d \in Charges \ {c} : charge'[d] = charge[d]
    BY <1>6 DEF TInv, TypeOK
  <2>2. ent # None
    BY ConstantsAssumption
  <2>3. (\A d \in Charges : ChargeMonth(d))'
    BY <1>2, <1>3, <2>1 DEF QInv, ChargeMonth, RowMonth, Live
  <2>4. UniqueMonths'
    BY <1>6, <2>1 DEF QInv, UniqueMonths, Insertable
  <2>5. QED
    BY <2>1, <2>2, <2>3, <2>4
<1>7. ASSUME NEW ent \in Row, ent.month = req[w].month, Insertable(c, ent),
             charge' = [charge EXCEPT ![c] = ent],
             NEW r, req'[w] = r, r.list = NoCharges \/ r.list = req[w].list,
             r = Idle \/ (r.pc = "pay" /\ r.c = c /\ r.month = ent.month /\ r.ent = ent)
      PROVE  QInv'
  <2>1. /\ (\A d \in Charges : ChargeMonth(d))' /\ UniqueMonths'
        /\ charge'[c] = ent /\ ent # None
        /\ \A d \in Charges \ {c} : charge'[d] = charge[d]
    BY <1>6, <1>7
  <2>2. RequestMonth(r) /\ r.pc \in {"idle", "pay"}
    BY <1>1, <1>7 DEF RequestMonth, RowMonth, NoCharges, Idle
  <2>3. RequestMonth(req[w])' /\ PayingMonth(req[w])'
    BY <1>3, <1>7, <2>1, <2>2 DEF RequestMonth, RowMonth, Live, PayingMonth, Idle
  <2>4. ASSUME NEW v \in Workers \ {w}
        PROVE  RequestMonth(req[v])' /\ PayingMonth(req[v])'
    <3>1. RequestMonth(req[v]) /\ PayingMonth(req[v]) /\ req'[v] = req[v]
      BY <1>3 DEF QInv
    <3>2. req[v].pc = "pay" => req[v].c \in Charges \ {c}
      BY <1>2 DEF TInv, TypeOK, WellFormed, Request
    <3>3. QED
      BY <1>3, <2>1, <3>1, <3>2 DEF RequestMonth, RowMonth, Live, PayingMonth
  <2>5. QED
    BY <2>1, <2>3, <2>4 DEF QInv
<1>8. CASE CreateFree(w, c)
  <2> DEFINE ent == [month |-> req[w].month, status |-> "confirmed", linked |-> FALSE]
  <2>1. ent \in Row /\ ent.month = req[w].month
    BY <1>4 DEF Row
  <2>2. req'[w] = Idle /\ Finish(w) /\ Idle.list = NoCharges
    BY <1>1, <1>8 DEF CreateFree, Finish, Idle
  <2>3. UNCHANGED charge \/ (Insertable(c, ent) /\ charge' = [charge EXCEPT ![c] = ent])
    BY <1>8 DEF CreateFree
  <2> HIDE DEF ent
  <2>4. QED
    BY <1>5, <1>7, <2>1, <2>2, <2>3
<1>9. CASE CreateInsert(w, c)
  <2> DEFINE ent == [month |-> req[w].month, status |-> "pending", linked |-> FALSE]
             q == [req[w] EXCEPT !.pc = "pay", !.c = c, !.ent = ent, !.bill = None]
  <2>1. ent \in Row /\ ent.month = req[w].month
    BY <1>4 DEF Row
  <2>2. q.pc = "pay" /\ q.c = c /\ q.month = req[w].month /\ q.ent = ent /\ q.list = req[w].list
    BY <1>1 DEF Request
  <2>3. \/ UNCHANGED charge /\ Finish(w)
        \/ Insertable(c, ent) /\ charge' = [charge EXCEPT ![c] = ent] /\ Goto(w, q)
    BY <1>9 DEF CreateInsert
  <2>4. Goto(w, q) => req'[w] = q
    BY <1>1 DEF Goto
  <2> HIDE DEF ent, q
  <2>5. QED
    BY <1>5, <1>7, <2>1, <2>2, <2>3, <2>4
<1>10. QED
  BY <1>8, <1>9

LEMMA SyncHookMonth ==
  ASSUME TInv, RInv, QInv, NEW w \in Workers,
         \/ SyncLoad(w) \/ SyncWrite(w) \/ \E c \in Charges : SyncGet(w, c)
         \/ HookLoad(w) \/ HookWrite(w) \/ \E m \in mail : HookRead(w, m)
  PROVE  QInv'
<1>1. req[w] \in Request /\ WellFormed(req[w]) /\ req \in [Workers -> Request]
      /\ RequestMonth(req[w]) /\ RequestTold(req[w])
  BY DEF TInv, TypeOK, QInv, RInv
<1>2. UNCHANGED <<gateway, said>>
  BY DEF SyncLoad, SyncWrite, SyncGet, HookLoad, HookWrite, HookRead, asaas
<1>3. \A v \in Workers \ {w} : req'[v] = req[v]
  BY <1>1 DEF SyncLoad, SyncWrite, SyncGet, HookLoad, HookWrite, HookRead, Goto, Begin, Finish
<1>4. ASSUME NEW c \in Charges, SyncGet(w, c)
      PROVE  QInv'
  <2> DEFINE ent == Applied(req[w].list[c], gateway[c].report)
             q == [req[w] EXCEPT !.pc = "sync_load", !.c = c, !.ent = ent]
  <2>1. req[w].list[c] \in Row /\ req[w].list[c] # None /\ gateway[c] # None
    BY <1>1, <1>4 DEF SyncGet, Request, RowOrNone, RequestTold
  <2>2. ent.month = gateway[c].month
    BY <1>1, <2>1 DEF RequestMonth, RowMonth, Applied, Row
  <2> HIDE DEF ent
  <2>3. q.pc = "sync_load" /\ q.c = c /\ q.ent = ent /\ q.list = req[w].list
    BY <1>1 DEF Request
  <2>4. req'[w] = q /\ UNCHANGED charge
    BY <1>1, <1>4 DEF SyncGet, Goto, db, ent
  <2> HIDE DEF q
  <2>5. RequestMonth(q) /\ PayingMonth(q)
    BY <1>1, <2>2, <2>3 DEF RequestMonth, PayingMonth
  <2>6. QED
    BY <1>2, <1>3, <2>4, <2>5, QuietMonth
<1>5. ASSUME NEW m \in mail, HookRead(w, m)
      PROVE  QInv'
  <2> DEFINE ent == Notified(charge[m.c], m.report)
             q == [Idle EXCEPT !.pc = "hook_load", !.c = m.c, !.msg = m, !.ent = ent]
  <2>1. m.c \in Charges /\ m.report \in Reports /\ gateway[m.c] # None
    BY DEF TInv, TypeOK, Webhook, RInv, SaidByGateway
  <2>2. CASE charge[m.c] = None
    <3>1. UNCHANGED <<charge, req>>
      BY <1>5, <2>2 DEF HookRead, db
    <3>2. QED
      BY <1>2, <3>1 DEF QInv, ChargeMonth, RowMonth, Live, UniqueMonths, RequestMonth, PayingMonth
  <2>3. CASE charge[m.c] # None
    <3>1. charge[m.c] \in Row /\ charge[m.c].month = gateway[m.c].month
      BY <2>1, <2>3 DEF QInv, ChargeMonth, RowMonth, TInv, TypeOK, RowOrNone
    <3>2. ent.month = gateway[m.c].month
      BY <2>1, <3>1, AppliedType
    <3> HIDE DEF ent
    <3>3. q.pc = "hook_load" /\ q.c = m.c /\ q.ent = ent /\ q.list = NoCharges
      BY DEF Idle
    <3>4. req'[w] = q /\ UNCHANGED charge
      BY <1>1, <1>5, <2>3 DEF HookRead, Begin, db, ent
    <3> HIDE DEF q
    <3>5. RequestMonth(q) /\ PayingMonth(q)
      BY <3>2, <3>3 DEF RequestMonth, PayingMonth, RowMonth, NoCharges
    <3>6. QED
      BY <1>2, <1>3, <3>4, <3>5, QuietMonth
  <2>4. QED
    BY <2>2, <2>3
<1>6. CASE SyncLoad(w) \/ HookLoad(w)
  <2> DEFINE q(pc) == [req[w] EXCEPT !.pc = pc, !.base = charge[req[w].c]]
  <2>1. PICK pc \in {"sync_write", "hook_write"} : req' = [req EXCEPT ![w] = q(pc)]
    BY <1>6 DEF SyncLoad, HookLoad, Goto
  <2>2. q(pc).pc = pc /\ q(pc).c = req[w].c /\ q(pc).ent = req[w].ent /\ q(pc).list = req[w].list
    BY <1>1 DEF Request
  <2>3. req'[w] = q(pc) /\ UNCHANGED charge
    BY <1>1, <1>6, <2>1 DEF SyncLoad, HookLoad, db
  <2>4. RequestMonth(q(pc)) /\ PayingMonth(q(pc))
    BY <1>1, <1>6, <2>2 DEF SyncLoad, HookLoad, At, RequestMonth, PayingMonth
  <2>5. QED
    BY <1>2, <1>3, <2>3, <2>4, QuietMonth
<1>7. CASE SyncWrite(w) \/ HookWrite(w)
  <2> DEFINE q == NextListed(w, req[w].c)
  <2>1. req[w].c \in Charges /\ req[w].ent \in Row /\ gateway[req[w].c] # None
        /\ req[w].ent.month = gateway[req[w].c].month
    BY <1>1, <1>7
    DEF SyncWrite, HookWrite, At, WellFormed, Request, RowOrNone, RequestTold, RequestMonth
  <2>2. RequestMonth(q) /\ PayingMonth(q) /\ q.pc # "pay"
    BY NextListedMonth
  <2>3. req'[w] = q \/ req'[w] = Idle
    BY <1>1, <1>7 DEF SyncWrite, HookWrite, Goto, Finish
  <2>4. \/ UNCHANGED charge
        \/ SaveAs(w, req[w].ent) /\ ~Refused(w, req[w].ent)
    BY <1>7 DEF SyncWrite, HookWrite
  <2> HIDE DEF q
  <2>5. CASE UNCHANGED charge
    BY <1>2, <1>3, <2>2, <2>3, <2>5, IdleMonth, QuietMonth
  <2>6. CASE SaveAs(w, req[w].ent) /\ ~Refused(w, req[w].ent)
    BY <1>2, <1>3, <2>1, <2>2, <2>3, <2>6, IdleMonth, SaveMonth
  <2>7. QED
    BY <2>4, <2>5, <2>6
<1>8. QED
  BY <1>4, <1>5, <1>6, <1>7

\* A payment is asked for the month of its charge, and a refund is final.
LEMMA GatewayMonth ==
  ASSUME TInv, RInv, QInv, ~AnswersLost,
         \/ \E w \in Workers : CreatePay(w)
         \/ \E c \in Charges, report \in Reports : PaymentMoves(c, report)
  PROVE  QInv'
<1>1. ASSUME NEW c \in Charges, NEW month \in Months, NEW report \in Reports,
             Announce(c, month, report), UNCHANGED charge,
             ~Live(c) => gateway[c] = None /\ report = "PENDING",
             charge[c] # None /\ charge[c].month = month,
             gateway[c] # None => gateway[c].month = month
      PROVE  /\ (\A d \in Charges : ChargeMonth(d))' /\ UniqueMonths'
             /\ gateway'[c] # None /\ gateway'[c].month = month
             /\ \A d \in Charges \ {c} : gateway'[d] = gateway[d]
  <2> DEFINE payment == [month |-> month, report |-> report]
  <2>1. payment \in Payment /\ payment.report = report /\ payment.month = month
    BY DEF Payment
  <2>2. payment # None
    BY <2>1, ConstantsAssumption
  <2>3. gateway' = [gateway EXCEPT ![c] = payment]
        /\ said' = [said EXCEPT ![c] = @ \cup {report}]
    BY <1>1 DEF Announce
  <2> HIDE DEF payment
  <2>4. /\ gateway'[c] = payment /\ said'[c] = said[c] \cup {report}
        /\ \A d \in Charges \ {c} : gateway'[d] = gateway[d] /\ said'[d] = said[d]
    BY <2>3 DEF TInv, TypeOK
  <2>5. "REFUNDED" \notin said[c]
    <3>1. ChargeMonth(c) /\ (gateway[c] = None => said[c] = {})
      BY DEF QInv, RInv, SaidByGateway
    <3>2. QED
      BY <1>1, <3>1 DEF ChargeMonth, Live
  <2>6. ChargeMonth(c)'
    BY <1>1, <2>1, <2>2, <2>4, <2>5 DEF ChargeMonth, RowMonth, Live
  <2>7. ASSUME NEW d \in Charges \ {c}
        PROVE  ChargeMonth(d)'
    BY <1>1, <2>4 DEF QInv, ChargeMonth, RowMonth, Live
  <2>8. UniqueMonths'
    BY <1>1 DEF QInv, UniqueMonths
  <2>9. QED
    BY <2>1, <2>2, <2>4, <2>6, <2>7, <2>8
<1>2. ASSUME NEW c \in Charges, NEW v \in Workers,
             req'[v] = req[v], UNCHANGED charge,
             gateway'[c] # None, gateway[c] # None => gateway'[c].month = gateway[c].month,
             gateway[c] # None => gateway[c].report # "REFUNDED",
             \A d \in Charges \ {c} : gateway'[d] = gateway[d],
             req[v].pc = "undo" => req[v].c # c
      PROVE  RequestMonth(req[v])' /\ PayingMonth(req[v])'
  <2>1. RequestMonth(req[v]) /\ PayingMonth(req[v]) /\ RequestTold(req[v])
    BY DEF QInv, RInv
  <2>2. req[v].pc \in {"pay_load", "pay_write", "sync_load", "sync_write", "hook_load",
                       "hook_write", "remove", "undo"} => req[v].c \in Charges
    BY DEF TInv, TypeOK, WellFormed, Request
  <2>3. PayingMonth(req[v])'
    BY <1>2, <2>1 DEF PayingMonth
  <2>4. \A d \in Charges : gateway[d] # None => gateway'[d] # None /\ gateway'[d].month = gateway[d].month
    BY <1>2
  <2>5. \A d \in Charges : RowMonth(d, req[v].list[d])'
    BY <1>2, <2>1, <2>4 DEF RequestMonth, RequestTold, RowMonth
  <2>6. req[v].pc = "remove" => req[v].c # c
    BY <1>2, <2>1 DEF RequestMonth
  <2>7. RequestMonth(req[v])'
    <3>1. req[v].pc \in {"pay_load", "pay_write", "sync_load", "sync_write", "hook_load", "hook_write"}
             => req[v].ent.month = gateway'[req[v].c].month
      BY <2>1, <2>2, <2>4 DEF RequestMonth, RequestTold
    <3>2. req[v].pc = "remove" => gateway'[req[v].c] # None /\ gateway'[req[v].c].report = "REFUNDED"
      BY <1>2, <2>1, <2>2, <2>6 DEF RequestMonth
    <3>3. req[v].pc = "undo" => ~Live(req[v].c)'
      BY <1>2, <2>1, <2>2 DEF RequestMonth, Live
    <3>4. QED
      BY <1>2, <2>5, <3>1, <3>2, <3>3 DEF RequestMonth, Live
  <2>8. QED
    BY <2>3, <2>7
<1>3. ASSUME NEW w \in Workers, CreatePay(w)
      PROVE  QInv'
  <2> DEFINE c == req[w].c
             ent == Applied(req[w].ent, "PENDING")
             q == [req[w] EXCEPT !.pc = "pay_load", !.ent = ent]
  <2>1. req[w] \in Request /\ WellFormed(req[w]) /\ PayingAlone(w) /\ PayingMonth(req[w])
        /\ RequestMonth(req[w]) /\ RequestTold(req[w]) /\ req[w].pc = "pay"
    BY <1>3 DEF TInv, TypeOK, RInv, QInv, CreatePay, At
  <2>2. c \in Charges /\ req[w].month \in Months /\ req[w].ent \in Row /\ "PENDING" \in Reports
    BY <2>1 DEF Request, WellFormed, RowOrNone, Reports
  <2>3. gateway[c] = None /\ charge[c] # None /\ charge[c].month = req[w].month
        /\ req[w].ent.month = req[w].month /\ \A v \in Workers \ {w} : req[v].c # c
    BY <2>1 DEF PayingAlone, PayingMonth
  <2>4. Announce(c, req[w].month, "PENDING") /\ UNCHANGED charge
    BY <1>3 DEF CreatePay, db
  <2>5. /\ (\A d \in Charges : ChargeMonth(d))' /\ UniqueMonths'
        /\ gateway'[c] # None /\ gateway'[c].month = req[w].month
        /\ \A d \in Charges \ {c} : gateway'[d] = gateway[d]
    BY <1>1, <2>2, <2>3, <2>4
  <2>6. ent.month = req[w].month
    BY <2>2, <2>3 DEF Applied, Row
  <2>7. q.pc = "pay_load" /\ q.c = c /\ q.ent = ent /\ q.list = req[w].list
    BY <2>1 DEF Request
  <2>8. req'[w] = q /\ \A v \in Workers \ {w} : req'[v] = req[v]
    BY <1>3 DEF CreatePay, Goto, TInv, TypeOK
  <2>9. PICK r : r = q
    OBVIOUS
  <2>10. /\ req'[w] = r /\ r.pc = "pay_load" /\ r.c \in Charges
         /\ r.ent.month = gateway'[r.c].month
         /\ \A d \in Charges : r.list[d] # None =>
                gateway[d] # None /\ r.list[d].month = gateway[d].month /\ d # c
    BY <2>1, <2>2, <2>3, <2>5, <2>6, <2>7, <2>8, <2>9 DEF RequestMonth, RequestTold, RowMonth
  <2>11. RequestMonth(req[w])' /\ PayingMonth(req[w])'
    <3> HIDE DEF q, ent, c
    <3>1. \A d \in Charges : r.list[d] # None => r.list[d].month = gateway'[d].month
      BY <2>5, <2>10
    <3>2. QED
      BY <2>10, <3>1 DEF RequestMonth, PayingMonth, RowMonth
  <2>12. ASSUME NEW v \in Workers \ {w}
         PROVE  RequestMonth(req[v])' /\ PayingMonth(req[v])'
    BY <1>2, <2>2, <2>3, <2>4, <2>5, <2>8
  <2>13. QED
    BY <2>5, <2>11, <2>12 DEF QInv
<1>4. ASSUME NEW c \in Charges, NEW report \in Reports, PaymentMoves(c, report)
      PROVE  QInv'
  <2>1. gateway[c] # None /\ gateway[c].report # "REFUNDED" /\ UNCHANGED <<charge, req>>
        /\ Announce(c, gateway[c].month, report)
    BY <1>4 DEF PaymentMoves, db
  <2>2. gateway[c].month \in Months
    BY <2>1 DEF TInv, TypeOK, Payment
  <2>3. Live(c) /\ charge[c] # None /\ charge[c].month = gateway[c].month
    BY <2>1 DEF QInv, ChargeMonth, RowMonth, Live
  <2>4. /\ (\A d \in Charges : ChargeMonth(d))' /\ UniqueMonths'
        /\ gateway'[c] # None /\ gateway'[c].month = gateway[c].month
        /\ \A d \in Charges \ {c} : gateway'[d] = gateway[d]
    BY <1>1, <2>1, <2>2, <2>3
  <2>5. ASSUME NEW v \in Workers
        PROVE  RequestMonth(req[v])' /\ PayingMonth(req[v])'
    <3>1. req[v].pc = "undo" => req[v].c # c
      BY <2>3 DEF QInv, RequestMonth
    <3>2. QED
      BY <1>2, <2>1, <2>4, <3>1
  <2>6. QED
    BY <2>4, <2>5 DEF QInv
<1>5. QED
  BY <1>3, <1>4

LEMMA NextMonthly == ~AnswersLost /\ TInv /\ RInv /\ QInv /\ [Next]_vars => QInv'
<1> SUFFICES ASSUME ~AnswersLost, TInv, RInv, QInv, [Next]_vars
             PROVE  QInv'
  OBVIOUS
<1>1. ASSUME NEW w \in Workers, Create(w)
      PROVE  QInv'
  BY <1>1, RestMonth, CreateMonth, InsertMonth, GatewayMonth DEF Create
<1>2. ASSUME NEW w \in Workers, Proceed(w)
      PROVE  QInv'
  BY <1>1, <1>2, RestMonth, SyncHookMonth DEF Proceed
<1>3. ASSUME NEW w \in Workers, Fault(w)
      PROVE  QInv'
  BY <1>3, RestMonth, CreateMonth DEF Fault, CreatePayLost
<1>4. ASSUME NEW w \in Admins, Administer(w)
      PROVE  QInv'
  BY <1>4, RestMonth DEF Administer, Workers
<1>5. CASE Sync \/ Cycle
  BY <1>5, RestMonth DEF Sync, Cycle, Workers
<1>6. CASE Tick \/ (\E m \in mail : LoseWebhook(m)) \/ UNCHANGED vars
  <2>1. UNCHANGED <<charge, gateway, said, req>>
    BY <1>6 DEF Tick, LoseWebhook, vars, db, asaas
  <2>2. QED
    BY <2>1 DEF QInv, ChargeMonth, RowMonth, Live, UniqueMonths, RequestMonth, PayingMonth
<1>7. QED
  BY <1>2, <1>3, <1>4, <1>5, <1>6, InsertMonth, SyncHookMonth, GatewayMonth DEF Next, Workers

\* While the gateway's answers arrive, a month never has two payments that can
\* be paid or were, however many administrators, cycles and webhooks interleave
\* and however many of them fail: the charge of a payment that is not refunded
\* is never removed, and the table admits one charge a month.
THEOREM MonthPaidOnce ==
  ASSUME ~AnswersLost
  PROVE  Spec => []OnePaymentPerMonth
<1>1. Init => TInv /\ RInv /\ QInv
  BY InitType, InitTold, InitMonth
<1>2. TInv /\ RInv /\ QInv /\ [Next]_vars => (TInv /\ RInv /\ QInv)'
  BY NextType, NextTold, NextMonthly
<1>3. QInv => OnePaymentPerMonth
  BY DEF QInv, ChargeMonth, RowMonth, UniqueMonths, Live, OnePaymentPerMonth
<1>4. QED
  BY <1>1, <1>2, <1>3, PTL DEF Spec
=============================================================================
