----------------------------- MODULE FeeCharges -----------------------------
(***************************************************************************)
(* The monthly condominium fee charges and the credit ledger of the units: *)
(* CondominiumFeesService (closeMonth, regenerateMonth, settle,            *)
(* reopenPayment, replacePaymentReceipt, updateChargesDueDate) together    *)
(* with the parts of UnitFeeCreditService that they call.                  *)
(*                                                                         *)
(* Every handler is an asynchronous function whose awaits are points where *)
(* another request may run, so a handler is a sequence of actions of one   *)
(* worker.  `repo.save(entity)` of TypeORM is two statements: it SELECTs   *)
(* the row with the entity's id and then writes only the columns in which  *)
(* the entity differs from that row, or INSERTs the entity when the row is *)
(* gone.  A database transaction reads from the snapshot of its first read *)
(* (REPEATABLE READ, the default of the MySQL driver the service uses when *)
(* nothing else is configured) and its writes become visible together.     *)
(*                                                                         *)
(* The credit ledger (table unit_fee_credit_entries) is kept as the sums   *)
(* the code computes from it: the balance of a unit, and for every charge  *)
(* what its 'credit_applied' and 'credit_restored' rows add up to.         *)
(***************************************************************************)
EXTENDS Sums

CONSTANTS
    Units,       \* the units that belong to a grouping of the condominium
    NMonths,     \* competences 1..NMonths, in the order of competenceYm
    Amounts,     \* the amounts, in cents, a closing can bill to a unit
    Advances,    \* the amounts of an advance payment
    Incomes,     \* income transactions: the unit they are shared to, and the share
    DueDates,    \* due dates
    DueDay10,    \* the due date a closing sets (day 10 of the next month)
    Receipts,    \* storage keys of payment receipts
    None,        \* SQL NULL, and the absence of a row
    Workers,     \* requests in progress
    Ids,         \* row identifiers (UUIDs); one is free again when nothing refers to it
    MaxCredit,   \* bound: advances of a unit, its balance when a charge is reopened,
                 \*        and the credit ever applied to a charge when it is settled
    MaxReopens   \* bound: reopenings of a charge

Months == 1 .. NMonths
Keys == Units \X Months          \* UQ_fee_charge_condo_ym_unit
IncomeTypes == [unit : Units, share : Nat \ {0}]

Row == [id      : Ids,
        due     : Nat,
        dueOn   : DueDates,
        status  : {"open", "paid"},
        income  : Incomes \cup {None},
        bank    : BOOLEAN,
        receipt : Receipts \cup {None}]

RowOrNone == Row \cup {None}

PCs == {"idle",
        "close_unit", "close_load", "close_write",
        "regen_delete", "regen_insert",
        "settle_begin", "settle_commit",
        "reopen_begin", "reopen_commit",
        "due_load", "due_write",
        "replace_begin", "replace_commit", "replace_delete"}

Request == [pc      : PCs,
            key     : Keys \cup {None},
            month   : Months \cup {None},
            todo    : SUBSET Units,
            ents    : [Keys -> RowOrNone],   \* entities the handler loaded
            base    : [Keys -> RowOrNone],   \* rows `save` compares them with
            credit  : Nat,
            receipt : Receipts \cup {None}]

NothingLoaded == [k \in Keys |-> None]

Idle == [pc |-> "idle", key |-> None, month |-> None, todo |-> {},
         ents |-> NothingLoaded, base |-> NothingLoaded,
         credit |-> 0, receipt |-> None]

ASSUME ConstantsAssumption ==
    /\ NMonths \in Nat /\ MaxCredit \in Nat /\ MaxReopens \in Nat
    /\ Amounts \subseteq Nat
    /\ Advances \subseteq Nat \ {0}
    /\ Incomes \subseteq IncomeTypes
    /\ DueDay10 \in DueDates
    /\ None \notin Row

VARIABLES
    charge,     \* table condominium_fee_charges
    balance,    \* unit -> sum of its ledger rows
    advanced,   \* unit -> sum of its 'advance_payment' rows
    applied,    \* charge -> sum of the 'credit_applied' rows linked to it, negated
    restored,   \* charge -> sum of the 'credit_restored' rows linked to it
    reopenLog,  \* charge -> number of its 'payment_reopened' log rows
    files,      \* receipt storage
    req         \* the requests in progress

ledger == <<balance, advanced, applied, restored>>
vars == <<charge, balance, advanced, applied, restored, reopenLog, files, req>>

TypeOK ==
    /\ charge \in [Keys -> RowOrNone]
    /\ balance \in [Units -> Int]
    /\ advanced \in [Units -> Nat]
    /\ applied \in [Keys -> Nat]
    /\ restored \in [Keys -> Nat]
    /\ reopenLog \in [Keys -> Nat]
    /\ files \in [Receipts -> {"absent", "stored", "deleted"}]
    /\ req \in [Workers -> Request]

Init ==
    /\ charge = NothingLoaded
    /\ balance = [u \in Units |-> 0]
    /\ advanced = [u \in Units |-> 0]
    /\ applied = [k \in Keys |-> 0]
    /\ restored = [k \in Keys |-> 0]
    /\ reopenLog = [k \in Keys |-> 0]
    /\ files = [r \in Receipts |-> "absent"]
    /\ req = [w \in Workers |-> Idle]

-----------------------------------------------------------------------------
(***************************************************************************)
(* Rows, and what TypeORM's save does with them.                           *)
(***************************************************************************)

IsOpen(k) == charge[k] # None /\ charge[k].status = "open"
IsPaid(k) == charge[k] # None /\ charge[k].status = "paid"

\* The row in the table is still the one this entity was loaded from.
SameRow(k, ent) == charge[k] # None /\ charge[k].id = ent.id

\* The SELECT of save: by the id of the entity.
RowOf(k, ent) == IF SameRow(k, ent) THEN charge[k] ELSE None

UsedIds == {i \in Ids : \/ \E k \in Keys : charge[k] # None /\ charge[k].id = i
                        \/ \E w \in Workers, k \in Keys :
                              req[w].ents[k] # None /\ req[w].ents[k].id = i}

NewRow(i, amount) == [id |-> i, due |-> amount, dueOn |-> DueDay10, status |-> "open",
                      income |-> None, bank |-> FALSE, receipt |-> None]

Column(current, was, want) == IF want = was THEN current ELSE want

Merge(row, was, ent) ==
    [id      |-> row.id,
     due     |-> Column(row.due, was.due, ent.due),
     dueOn   |-> Column(row.dueOn, was.dueOn, ent.dueOn),
     status  |-> Column(row.status, was.status, ent.status),
     income  |-> Column(row.income, was.income, ent.income),
     bank    |-> Column(row.bank, was.bank, ent.bank),
     receipt |-> Column(row.receipt, was.receipt, ent.receipt)]

\* An INSERT must not meet a row for the same unit and competence.
CanStore(k, was) == was = None => charge[k] = None

Stored(k, was, ent) ==
    IF was = None THEN ent
    ELSE IF SameRow(k, ent) THEN Merge(charge[k], was, ent)
    ELSE charge[k]

Finish(w) == req' = [req EXCEPT ![w] = Idle]

-----------------------------------------------------------------------------
(***************************************************************************)
(* closeMonthInternal: for each unit, findOne, then save.  The amount      *)
(* billed to a unit is any of Amounts; how it is computed from the         *)
(* transactions of the month is the subject of another module.             *)
(***************************************************************************)
CloseStart(w, m) ==
    /\ req[w].pc = "idle"
    /\ req' = [req EXCEPT ![w] = [Idle EXCEPT !.pc = "close_unit", !.month = m, !.todo = Units]]
    /\ UNCHANGED <<charge, ledger, reopenLog, files>>

\* After one unit the loop goes on with the others, or the request ends.
NextUnit(w, pc) ==
    LET rest == req[w].todo \ {req[w].key[1]}
    IN  req' = [req EXCEPT ![w] =
                   IF rest = {} THEN Idle
                   ELSE [Idle EXCEPT !.pc = pc, !.month = req[w].month, !.todo = rest]]

CloseRead(w, u) ==
    LET k == <<u, req[w].month>>
    IN  /\ req[w].pc = "close_unit"
        /\ u \in req[w].todo
        /\ ~ IsPaid(k)
        /\ req' = [req EXCEPT ![w].pc = IF charge[k] = None THEN "close_write" ELSE "close_load",
                              ![w].key = k,
                              ![w].ents[k] = charge[k]]
        /\ UNCHANGED <<charge, ledger, reopenLog, files>>

\* A unit whose charge is paid is left alone.
CloseSkip(w, u) ==
    LET rest == req[w].todo \ {u}
    IN  /\ req[w].pc = "close_unit"
        /\ u \in req[w].todo
        /\ IsPaid(<<u, req[w].month>>)
        /\ req' = [req EXCEPT ![w] = IF rest = {} THEN Idle ELSE [@ EXCEPT !.todo = rest]]
        /\ UNCHANGED <<charge, ledger, reopenLog, files>>

CloseLoad(w) ==
    LET k == req[w].key
    IN  /\ req[w].pc = "close_load"
        /\ req' = [req EXCEPT ![w].pc = "close_write",
                              ![w].base[k] = RowOf(k, req[w].ents[k])]
        /\ UNCHANGED <<charge, ledger, reopenLog, files>>

CloseInsert(w) ==
    LET k == req[w].key
    IN  /\ req[w].pc = "close_write"
        /\ req[w].ents[k] = None
        /\ charge[k] = None
        /\ \E i \in Ids \ UsedIds, amount \in Amounts :
              charge' = [charge EXCEPT ![k] = NewRow(i, amount)]
        /\ NextUnit(w, "close_unit")
        /\ UNCHANGED <<ledger, reopenLog, files>>

CloseUpdate(w) ==
    LET k == req[w].key
        ent == req[w].ents[k]
    IN  /\ req[w].pc = "close_write"
        /\ ent # None
        /\ CanStore(k, req[w].base[k])
        /\ \E amount \in Amounts :
              charge' = [charge EXCEPT ![k] =
                 Stored(k, req[w].base[k], [ent EXCEPT !.due = amount, !.dueOn = DueDay10])]
        /\ NextUnit(w, "close_unit")
        /\ UNCHANGED <<ledger, reopenLog, files>>

(***************************************************************************)
(* regenerateMonth: count the paid charges, delete all the charges of the  *)
(* month (ledger rows keep a NULL charge, log rows go with their charge),  *)
(* insert one charge per unit.                                             *)
(***************************************************************************)
NoPaidCheck(m) == TRUE      \* mutant: the count of the paid charges is ignored

NothingPaid(m) == \A u \in Units : ~ IsPaid(<<u, m>>)

RegenStart(w, m) ==
    /\ req[w].pc = "idle"
    /\ NothingPaid(m)
    /\ req' = [req EXCEPT ![w] = [Idle EXCEPT !.pc = "regen_delete", !.month = m]]
    /\ UNCHANGED <<charge, ledger, reopenLog, files>>

OfMonth(m, f, empty) == [k \in Keys |-> IF k[2] = m THEN empty ELSE f[k]]

RegenDelete(w) ==
    LET m == req[w].month
    IN  /\ req[w].pc = "regen_delete"
        /\ charge' = OfMonth(m, charge, None)
        /\ applied' = OfMonth(m, applied, 0)
        /\ restored' = OfMonth(m, restored, 0)
        /\ reopenLog' = OfMonth(m, reopenLog, 0)
        /\ req' = [req EXCEPT ![w].pc = "regen_insert", ![w].todo = Units]
        /\ UNCHANGED <<balance, advanced, files>>

RegenInsert(w, u) ==
    LET k == <<u, req[w].month>>
        rest == req[w].todo \ {u}
    IN  /\ req[w].pc = "regen_insert"
        /\ u \in req[w].todo
        /\ charge[k] = None
        /\ \E i \in Ids \ UsedIds, amount \in Amounts :
              charge' = [charge EXCEPT ![k] = NewRow(i, amount)]
        /\ req' = [req EXCEPT ![w] = IF rest = {} THEN Idle ELSE [@ EXCEPT !.todo = rest]]
        /\ UNCHANGED <<ledger, reopenLog, files>>

-----------------------------------------------------------------------------
(***************************************************************************)
(* The FIFO allocation of allocateUnitCreditFifo, as the values that its   *)
(* loop variable `remaining` takes: remaining[m] is what is left of the    *)
(* credit after the open charges of the competences up to m.               *)
(***************************************************************************)
Lesser(a, b) == IF a <= b THEN a ELSE b
AtLeastZero(n) == IF n >= 0 THEN n ELSE 0

OpenDue(u) == [m \in Months |-> IF IsOpen(<<u, m>>) THEN charge[<<u, m>>].due ELSE 0]

FifoWalks(credit, due) ==
    {remaining \in [0 .. NMonths -> 0 .. credit] :
        /\ remaining[0] = credit
        /\ \A m \in Months :
              remaining[m] = remaining[m - 1] - Lesser(due[m], remaining[m - 1])}

(***************************************************************************)
(* settle: the charge is read, and its status checked, before the          *)
(* transaction.  The transaction reads the balance and the open charges    *)
(* of the unit, inserts the 'credit_applied' row, validates the payment    *)
(* and saves the charge; a refused payment rolls the ledger row back.      *)
(***************************************************************************)
SettleRead(w, k, r) ==
    /\ req[w].pc = "idle"
    /\ IsOpen(k)
    /\ applied[k] <= MaxCredit
    /\ r # None => files[r] = "stored"
    /\ req' = [req EXCEPT ![w] = [Idle EXCEPT !.pc = "settle_begin", !.key = k,
                                              !.ents[k] = charge[k], !.receipt = r]]
    /\ UNCHANGED <<charge, ledger, reopenLog, files>>

\* mutants: the gross amount, and the credit older charges have a claim on
GrossCredit(k, ent, remaining) == IF SameRow(k, ent) THEN ent.due ELSE 0
UnorderedCredit(k, ent, remaining) == IF SameRow(k, ent) THEN Lesser(ent.due, remaining[0]) ELSE 0

\* alloc.get(charge.id) ?? 0n
AllocatedCredit(k, ent, remaining) ==
    IF SameRow(k, ent) THEN remaining[k[2] - 1] - remaining[k[2]] ELSE 0

SettleBegin(w) ==
    LET k == req[w].key
    IN  /\ req[w].pc = "settle_begin"
        /\ \E remaining \in FifoWalks(AtLeastZero(balance[k[1]]), OpenDue(k[1])) :
              req' = [req EXCEPT ![w].pc = "settle_commit",
                                 ![w].base[k] = RowOf(k, req[w].ents[k]),
                                 ![w].credit = AllocatedCredit(k, req[w].ents[k], remaining)]
        /\ UNCHANGED <<charge, ledger, reopenLog, files>>

AnyCreditPays(due, credit) == IF credit > 0 THEN 0 ELSE due      \* mutant

NetDue(due, credit) == AtLeastZero(due - credit)

\* An income must match the gross amount; a bank account is needed for the rest.
Payable(k, ent, credit, income, bank) ==
    IF income # None
    THEN income.unit = k[1] /\ income.share = ent.due
    ELSE NetDue(ent.due, credit) > 0 => bank

\* mutant: only the branch with an income transaction sets the status
StatusForgotten(ent, income, bank, receipt) ==
    [ent EXCEPT !.status = IF income # None THEN "paid" ELSE ent.status,
                !.income = income, !.bank = bank, !.receipt = receipt]

AsPaid(ent, income, bank, receipt) ==
    [ent EXCEPT !.status = "paid", !.income = income, !.bank = bank, !.receipt = receipt]

SettleCommit(w) ==
    LET k == req[w].key
        ent == req[w].ents[k]
        credit == req[w].credit
    IN  /\ req[w].pc = "settle_commit"
        /\ credit > 0 => SameRow(k, ent)          \* the ledger row references the charge
        /\ CanStore(k, req[w].base[k])
        /\ \E income \in Incomes \cup {None}, bank \in BOOLEAN :
              /\ Payable(k, ent, credit, income, bank)
              /\ charge' = [charge EXCEPT ![k] =
                    Stored(k, req[w].base[k], AsPaid(ent, income, bank, req[w].receipt))]
        /\ balance' = [balance EXCEPT ![k[1]] = @ - credit]
        /\ applied' = [applied EXCEPT ![k] = @ + credit]
        /\ Finish(w)
        /\ UNCHANGED <<advanced, restored, reopenLog, files>>

(***************************************************************************)
(* reopenPayment: restoreCreditOnReopen adds one 'credit_restored' row for *)
(* every 'credit_applied' row linked to the charge.                        *)
(***************************************************************************)
ReopenRead(w, k) ==
    /\ req[w].pc = "idle"
    /\ IsPaid(k)
    /\ reopenLog[k] < MaxReopens /\ balance[k[1]] <= MaxCredit
    /\ req' = [req EXCEPT ![w] = [Idle EXCEPT !.pc = "reopen_begin", !.key = k,
                                              !.ents[k] = charge[k]]]
    /\ UNCHANGED <<charge, ledger, reopenLog, files>>

\* mutants: the rows are not found, or their sign is not turned
NothingToRestore(k) == 0
RestoreWithSign(k) == - applied[k]

\* The sum of the credit_restored rows the transaction will insert.
CreditToRestore(k) == applied[k]

ReopenBegin(w) ==
    LET k == req[w].key
        ent == req[w].ents[k]
    IN  /\ req[w].pc = "reopen_begin"
        /\ req' = [req EXCEPT ![w].pc = "reopen_commit",
                              ![w].base[k] = RowOf(k, ent),
                              ![w].credit = IF SameRow(k, ent) THEN CreditToRestore(k) ELSE 0]
        /\ UNCHANGED <<charge, ledger, reopenLog, files>>

ReopenCommit(w) ==
    LET k == req[w].key
        ent == req[w].ents[k]
    IN  /\ req[w].pc = "reopen_commit"
        /\ SameRow(k, ent)                        \* ledger and log rows reference the charge
        /\ req[w].base[k] # None
        /\ balance' = [balance EXCEPT ![k[1]] = @ + req[w].credit]
        /\ restored' = [restored EXCEPT ![k] = @ + req[w].credit]
        /\ reopenLog' = [reopenLog EXCEPT ![k] = @ + 1]
        /\ charge' = [charge EXCEPT ![k] =
              Stored(k, req[w].base[k], [ent EXCEPT !.status = "open", !.income = None,
                                                    !.bank = FALSE, !.receipt = None])]
        /\ Finish(w)
        /\ UNCHANGED <<advanced, applied, files>>

-----------------------------------------------------------------------------
(***************************************************************************)
(* updateChargesDueDate: find, set the date, save(charges) in one          *)
(* transaction.                                                            *)
(***************************************************************************)
DueRead(w, ks) ==
    /\ req[w].pc = "idle"
    /\ ks # {}
    /\ \A k \in ks : charge[k] # None
    /\ req' = [req EXCEPT ![w] =
          [Idle EXCEPT !.pc = "due_load",
                       !.ents = [k \in Keys |-> IF k \in ks THEN charge[k] ELSE None]]]
    /\ UNCHANGED <<charge, ledger, reopenLog, files>>

DueLoad(w) ==
    /\ req[w].pc = "due_load"
    /\ req' = [req EXCEPT ![w].pc = "due_write",
                          ![w].base = [k \in Keys |-> IF req[w].ents[k] = None THEN None
                                                      ELSE RowOf(k, req[w].ents[k])]]
    /\ UNCHANGED <<charge, ledger, reopenLog, files>>

DueWrite(w) ==
    LET ents == req[w].ents
        base == req[w].base
    IN  /\ req[w].pc = "due_write"
        /\ \A k \in Keys : ents[k] # None => CanStore(k, base[k])
        /\ \E d \in DueDates :
              charge' = [k \in Keys |-> IF ents[k] = None THEN charge[k]
                                        ELSE Stored(k, base[k], [ents[k] EXCEPT !.dueOn = d])]
        /\ Finish(w)
        /\ UNCHANGED <<ledger, reopenLog, files>>

(***************************************************************************)
(* replacePaymentReceipt: the file that was replaced is deleted from the   *)
(* storage after the transaction.                                          *)
(***************************************************************************)
ReplaceRead(w, k, r) ==
    /\ req[w].pc = "idle"
    /\ files[r] = "stored"
    /\ IsPaid(k)
    /\ charge[k].receipt # r
    /\ req' = [req EXCEPT ![w] = [Idle EXCEPT !.pc = "replace_begin", !.key = k,
                                              !.ents[k] = charge[k], !.receipt = r]]
    /\ UNCHANGED <<charge, ledger, reopenLog, files>>

ReplaceBegin(w) ==
    LET k == req[w].key
    IN  /\ req[w].pc = "replace_begin"
        /\ req' = [req EXCEPT ![w].pc = "replace_commit",
                              ![w].base[k] = RowOf(k, req[w].ents[k])]
        /\ UNCHANGED <<charge, ledger, reopenLog, files>>

NewFile(ent, key) == key                  \* mutant: the new file is deleted

ReplacedFile(ent, key) == ent.receipt

ReplaceCommit(w) ==
    LET k == req[w].key
        ent == req[w].ents[k]
    IN  /\ req[w].pc = "replace_commit"
        /\ SameRow(k, ent)                        \* the log row references the charge
        /\ req[w].base[k] # None
        /\ charge' = [charge EXCEPT ![k] =
              Stored(k, req[w].base[k], [ent EXCEPT !.receipt = req[w].receipt])]
        /\ req' = [req EXCEPT ![w] =
              IF ent.receipt = None THEN Idle
              ELSE [Idle EXCEPT !.pc = "replace_delete",
                                !.receipt = ReplacedFile(ent, req[w].receipt)]]
        /\ UNCHANGED <<ledger, reopenLog, files>>

ReplaceDelete(w) ==
    /\ req[w].pc = "replace_delete"
    /\ files' = [files EXCEPT ![req[w].receipt] = "deleted"]
    /\ Finish(w)
    /\ UNCHANGED <<charge, ledger, reopenLog>>

-----------------------------------------------------------------------------
\* registerAdvancePayment: one 'advance_payment' row.
Advance(u, amount) ==
    /\ advanced[u] + amount <= MaxCredit
    /\ balance' = [balance EXCEPT ![u] = @ + amount]
    /\ advanced' = [advanced EXCEPT ![u] = @ + amount]
    /\ UNCHANGED <<charge, applied, restored, reopenLog, files, req>>

\* The upload endpoint stores a file under a key generated for it.
Upload(r) ==
    /\ files[r] = "absent"
    /\ files' = [files EXCEPT ![r] = "stored"]
    /\ UNCHANGED <<charge, ledger, reopenLog, req>>

\* A request ends early: an exception (a refused payment, a violated
\* constraint, a lost connection) or a crash.  What was committed stays.
Fail(w) ==
    /\ req[w].pc # "idle"
    /\ Finish(w)
    /\ UNCHANGED <<charge, ledger, reopenLog, files>>

Close(w) ==
    \/ \E m \in Months : CloseStart(w, m)
    \/ \E u \in Units : CloseRead(w, u) \/ CloseSkip(w, u)
    \/ CloseLoad(w) \/ CloseInsert(w) \/ CloseUpdate(w)

Regenerate(w) ==
    \/ \E m \in Months : RegenStart(w, m)
    \/ RegenDelete(w)
    \/ \E u \in Units : RegenInsert(w, u)

Settle(w) ==
    \/ \E k \in Keys, r \in Receipts \cup {None} : SettleRead(w, k, r)
    \/ SettleBegin(w) \/ SettleCommit(w)

Reopen(w) == (\E k \in Keys : ReopenRead(w, k)) \/ ReopenBegin(w) \/ ReopenCommit(w)

ChangeDueDate(w) == (\E ks \in SUBSET Keys : DueRead(w, ks)) \/ DueLoad(w) \/ DueWrite(w)

ReplaceReceipt(w) ==
    \/ \E k \in Keys, r \in Receipts : ReplaceRead(w, k, r)
    \/ ReplaceBegin(w) \/ ReplaceCommit(w) \/ ReplaceDelete(w)

Next ==
    \/ \E w \in Workers : \/ Close(w) \/ Regenerate(w) \/ Settle(w) \/ Reopen(w)
                          \/ ChangeDueDate(w) \/ ReplaceReceipt(w) \/ Fail(w)
    \/ \E u \in Units, amount \in Advances : Advance(u, amount)
    \/ \E r \in Receipts : Upload(r)

Spec == Init /\ [][Next]_vars

-----------------------------------------------------------------------------
(***************************************************************************)
(* Properties.                                                             *)
(***************************************************************************)

Held(k) == applied[k] - restored[k]

\* What the ledger says about a charge agrees with the charge: a charge that
\* is not paid holds no credit, a paid one holds no more than its amount.
LedgerExact ==
    \A k \in Keys : IF IsPaid(k) THEN Held(k) \in 0 .. charge[k].due ELSE Held(k) = 0

\* Settling charges never takes more credit than the unit has.
NoOverspend == \A u \in Units : balance[u] >= 0

\* Credit moves between the balance of a unit and its charges and is never
\* lost: every cent advanced is in the balance or held by a charge.
HeldOf(u) == [m \in Months |-> Held(<<u, m>>)]

CreditConserved == \A u \in Units : balance[u] + Sum(HeldOf(u), Months) = advanced[u]

\* No credit comes from anything but advance payments.
NoCreditMinted == \A u \in Units : balance[u] <= advanced[u]

\* applyCreditOnSettle and the save of the charge are one transaction: the
\* ledger never consumes credit for a charge that does not become paid.
CreditConsumedOnlyWithPayment ==
    [][\A k \in Keys : applied'[k] > applied[k] => charge'[k] # None /\ charge'[k].status = "paid"]_vars

\* A paid charge stays paid, until reopenPayment turns it open and logs it: it
\* is neither deleted by regenerating its month nor turned open by a request
\* that edits it.
PaidUntilReopened ==
    [][\A k \in Keys :
          IsPaid(k) =>
             /\ charge'[k] # None
             /\ charge'[k].status = "paid" \/ reopenLog'[k] = reopenLog[k] + 1]_vars

\* A charge that is settled without an income transaction and without a bank
\* account is one whose whole amount the credit of the unit paid.
FreePaymentIsCovered ==
    [][\A k \in Keys :
          /\ ~ IsPaid(k) /\ charge'[k] # None /\ charge'[k].status = "paid"
          /\ charge'[k].income = None /\ ~ charge'[k].bank
          => applied'[k] - applied[k] = charge'[k].due]_vars

\* First in, first out: credit consumed for a charge leaves in the balance
\* what the older open charges of the unit are due.
FifoRespected ==
    [][\A k \in Keys :
          applied'[k] > applied[k] => Sum(OpenDue(k[1]), 1 .. k[2] - 1) <= balance'[k[1]]]_vars

\* The receipt of a paid charge is a file the storage still has.
ReceiptOnFile ==
    \A k \in Keys : IsPaid(k) /\ charge[k].receipt # None => files[charge[k].receipt] = "stored"

\* The charges and the ledger behave as the abstract ledger of FeeLedger: the
\* credit a charge holds is what was applied to it and not yet restored.
StatusOf(k) == IF charge[k] = None THEN "none" ELSE charge[k].status

UnitOfKey(k) == k[1]

Ledger == INSTANCE FeeLedger WITH
              Charges <- Keys, Deposits <- Advances, UnitOf <- UnitOfKey,
              status <- [k \in Keys |-> StatusOf(k)],
              held <- [k \in Keys |-> Held(k)],
              funds <- balance

ImplementsLedger == Ledger!LSpec
=============================================================================
