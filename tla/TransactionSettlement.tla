----------------------- MODULE TransactionSettlement -----------------------
(***************************************************************************)
(* The settlement of the condominium's transactions: create, update,       *)
(* settlePayment, cancelPaymentStatus, reopenSettlement and remove of      *)
(* FinancialTransactionsService, with the credit UnitFeeCreditService      *)
(* gives to the unit that paid an expense for the condominium, and the     *)
(* receipt file a transaction refers to.                                   *)
(*                                                                         *)
(* Handlers are split at their awaits as in FeeCharges; `save` is that of  *)
(* EntitySave.  The rows of the credit ledger that belong to a transaction *)
(* are kept as the sums of what they gave to a unit and took back.         *)
(***************************************************************************)
EXTENDS Sums, EntitySave

CONSTANTS
    Txs,         \* the identifiers transactions can get
    Units,       \* the units of the condominium
    Kinds,       \* a subset of {"expense", "investment", "income", "yield"}
    Amounts,     \* amounts in cents
    Receipts,    \* storage keys of receipts
    Workers,     \* requests in progress
    Keep,        \* a patch leaves the receipt as it is
    MaxReopens,  \* bound: reopenings of a transaction
    MaxGiven     \* bound: the credit of a unit after an expense it pays for

Row == [kind    : Kinds,
        amount  : Amounts,
        status  : {"pending", "paid", "cancelled"},
        receipt : Receipts \cup {None}]

RowOrNone == Row \cup {None}

PCs == {"idle",
        "settle_begin", "settle_file", "settle_commit",
        "cancel_load", "cancel_write",
        "reopen_begin", "reopen_commit",
        "update_file", "update_begin", "update_commit",
        "remove_file", "remove_row"}

Request == [pc      : PCs,
            t       : Txs \cup {None},
            ent     : RowOrNone,                     \* the entity of the handler
            base    : RowOrNone,                     \* the row `save` compares it with
            seen    : [Units -> Nat],                \* the credit rows of its snapshot
            unit    : Units \cup {None},             \* paidByUnitId
            receipt : Receipts \cup {None, Keep},    \* the key in the request
            shares  : {"current", "replaced"}]       \* the unit shares it loaded

NoCredit == [u \in Units |-> 0]

Idle == [pc |-> "idle", t |-> None, ent |-> None, base |-> None, seen |-> NoCredit,
         unit |-> None, receipt |-> None, shares |-> "current"]

ASSUME ConstantsAssumption ==
    /\ Kinds \subseteq {"expense", "investment", "income", "yield"}
    /\ Amounts \subseteq Nat \ {0}
    /\ MaxReopens \in Nat /\ MaxGiven \in Nat
    /\ None \notin Row /\ None \notin Units /\ None \notin Receipts
    /\ Keep \notin Receipts \cup {None}

VARIABLES
    tx,        \* table financial_transactions
    used,      \* the identifiers given out so far
    given,     \* transaction, unit -> sum of its 'expense_paid_by_unit' rows
    taken,     \* transaction, unit -> sum of its 'expense_paid_by_unit_reversed' rows, negated
    balance,   \* unit -> sum of all its ledger rows
    reopens,   \* transaction -> times it was reopened
    files,     \* receipt storage
    req        \* the requests in progress

ledger == <<given, taken, balance>>
vars == <<tx, used, given, taken, balance, reopens, files, req>>

TypeOK ==
    /\ tx \in [Txs -> RowOrNone]
    /\ used \subseteq Txs
    /\ given \in [Txs -> [Units -> Nat]]
    /\ taken \in [Txs -> [Units -> Nat]]
    /\ balance \in [Units -> Int]
    /\ reopens \in [Txs -> Nat]
    /\ files \in [Receipts -> {"absent", "stored", "deleted"}]
    /\ req \in [Workers -> Request]

Init ==
    /\ tx = [t \in Txs |-> None]
    /\ used = {}
    /\ given = [t \in Txs |-> NoCredit]
    /\ taken = [t \in Txs |-> NoCredit]
    /\ balance = NoCredit
    /\ reopens = [t \in Txs |-> 0]
    /\ files = [r \in Receipts |-> "absent"]
    /\ req = [w \in Workers |-> Idle]

-----------------------------------------------------------------------------
IsPending(t) == tx[t] # None /\ tx[t].status = "pending"
IsPaid(t) == tx[t] # None /\ tx[t].status = "paid"

Start(w, r) == req[w].pc = "idle" /\ req' = [req EXCEPT ![w] = r]
Finish(w) == req' = [req EXCEPT ![w] = Idle]

\* `save` in the last step of the handler of w, on its transaction.
SaveAs(w, ent) ==
    tx' = [tx EXCEPT ![req[w].t] = Saved(tx[req[w].t], req[w].base, ent)]

DeleteFile(r) == files' = [files EXCEPT ![r] = IF @ = "stored" THEN "deleted" ELSE @]

Upload(r) ==
    /\ files[r] = "absent"
    /\ files' = [files EXCEPT ![r] = "stored"]
    /\ UNCHANGED <<tx, used, ledger, reopens, req>>

\* create: a new row and its unit shares, in one transaction.
Create(t, kind, amount, r) ==
    /\ t \notin used
    /\ r # None => files[r] = "stored"
    /\ tx' = [tx EXCEPT ![t] = [kind |-> kind, amount |-> amount,
                                status |-> "pending", receipt |-> r]]
    /\ used' = used \cup {t}
    /\ UNCHANGED <<ledger, reopens, files, req>>

-----------------------------------------------------------------------------
(***************************************************************************)
(* settlePayment: the status is checked before the transaction and again   *)
(* in its snapshot.  The receipt that is replaced is deleted from the      *)
(* storage inside the transaction, before the row is saved and the credit  *)
(* is registered; registering refuses a transaction that has credit rows.  *)
(***************************************************************************)
PayableByUnit(t) == tx[t].kind \in {"expense", "investment"}

SettleRead(w, t, u, r) ==
    /\ IsPending(t)
    /\ u # None => PayableByUnit(t) /\ balance[u] + tx[t].amount <= MaxGiven
    /\ r # None => files[r] = "stored"
    /\ Start(w, [Idle EXCEPT !.pc = "settle_begin", !.t = t, !.unit = u, !.receipt = r])
    /\ UNCHANGED <<tx, used, ledger, reopens, files>>

NewKey(ent, r) == IF r = None THEN ent.receipt ELSE r

\* The file to delete when ent gets the receipt r, or None.
Superseded(ent, r) == IF r # None /\ ent.receipt # r THEN ent.receipt ELSE None

SettleBegin(w) ==
    LET t == req[w].t
    IN  /\ req[w].pc = "settle_begin"
        /\ IsPending(t)
        /\ req' = [req EXCEPT ![w].pc = IF Superseded(tx[t], req[w].receipt) = None
                                        THEN "settle_commit" ELSE "settle_file",
                              ![w].ent = tx[t],
                              ![w].base = tx[t],
                              ![w].seen = given[t]]
        /\ UNCHANGED <<tx, used, ledger, reopens, files>>

SettleFile(w) ==
    /\ req[w].pc = "settle_file"
    /\ DeleteFile(req[w].ent.receipt)
    /\ req' = [req EXCEPT ![w].pc = "settle_commit"]
    /\ UNCHANGED <<tx, used, ledger, reopens>>

Registrable(w) == req[w].seen = NoCredit

\* mutant: the row keeps its status
StillPending(ent, r) == [ent EXCEPT !.receipt = NewKey(ent, r)]

AsPaid(ent, r) == [ent EXCEPT !.status = "paid", !.receipt = NewKey(ent, r)]

SettleCommit(w) ==
    LET t == req[w].t
        u == req[w].unit
        amount == req[w].ent.amount
    IN  /\ req[w].pc = "settle_commit"
        /\ SaveAs(w, AsPaid(req[w].ent, req[w].receipt))
        /\ IF u = None THEN UNCHANGED ledger
           ELSE /\ Registrable(w)
                /\ tx[t] # None                 \* the ledger row references it
                /\ given' = [given EXCEPT ![t][u] = @ + amount]
                /\ balance' = [balance EXCEPT ![u] = @ + amount]
                /\ UNCHANGED taken
        /\ Finish(w)
        /\ UNCHANGED <<used, reopens, files>>

(***************************************************************************)
(* cancelPaymentStatus: the entity is read, with its unit shares, and      *)
(* saved without a transaction around the two.  When the shares were       *)
(* replaced meanwhile, save tries to detach the new ones from the          *)
(* transaction and the database refuses.                                   *)
(***************************************************************************)
PendingOrPaid(t) == IsPending(t) \/ IsPaid(t)       \* mutant: paid ones too

Cancellable(t) == IsPending(t)

CancelRead(w, t) ==
    /\ Cancellable(t)
    /\ Start(w, [Idle EXCEPT !.pc = "cancel_load", !.t = t, !.ent = tx[t]])
    /\ UNCHANGED <<tx, used, ledger, reopens, files>>

CancelLoad(w) ==
    /\ req[w].pc = "cancel_load"
    /\ req' = [req EXCEPT ![w].pc = "cancel_write", ![w].base = tx[req[w].t]]
    /\ UNCHANGED <<tx, used, ledger, reopens, files>>

CancelWrite(w) ==
    /\ req[w].pc = "cancel_write"
    /\ req[w].shares = "current"
    /\ SaveAs(w, [req[w].ent EXCEPT !.status = "cancelled"])
    /\ Finish(w)
    /\ UNCHANGED <<used, ledger, reopens, files>>

(***************************************************************************)
(* reopenSettlement: check, and check again in the snapshot; the row is    *)
(* saved as pending and restoreCreditOnTransactionReopen takes back every  *)
(* 'expense_paid_by_unit' row of the transaction.                          *)
(***************************************************************************)
ReopenRead(w, t) ==
    /\ IsPaid(t)
    /\ reopens[t] < MaxReopens
    /\ Start(w, [Idle EXCEPT !.pc = "reopen_begin", !.t = t])
    /\ UNCHANGED <<tx, used, ledger, reopens, files>>

ReopenBegin(w) ==
    LET t == req[w].t
    IN  /\ req[w].pc = "reopen_begin"
        /\ IsPaid(t)
        /\ req' = [req EXCEPT ![w].pc = "reopen_commit", ![w].ent = tx[t],
                              ![w].base = tx[t], ![w].seen = given[t]]
        /\ UNCHANGED <<tx, used, ledger, reopens, files>>

\* mutants: nothing is taken back, or the sign is not turned
NothingTakenBack(w, u) == 0
TakenWithSign(w, u) == - req[w].seen[u]

TakenBack(w, u) == req[w].seen[u]

ReopenCommit(w) ==
    LET t == req[w].t
    IN  /\ req[w].pc = "reopen_commit"
        /\ req[w].seen # NoCredit => tx[t] # None     \* ledger rows reference it
        /\ SaveAs(w, [req[w].ent EXCEPT !.status = "pending"])
        /\ taken' = [taken EXCEPT ![t] = [u \in Units |-> @[u] + TakenBack(w, u)]]
        /\ balance' = [u \in Units |-> balance[u] - TakenBack(w, u)]
        /\ reopens' = [reopens EXCEPT ![t] = @ + 1]
        /\ Finish(w)
        /\ UNCHANGED <<used, given, files>>

(***************************************************************************)
(* update: a paid transaction takes only attachments, a cancelled one      *)
(* nothing.  The old receipt is deleted before the transaction, which      *)
(* replaces the unit shares and saves the entity.                          *)
(***************************************************************************)
AlwaysEditable(t) == TRUE           \* mutant: the amount of a paid transaction changes

Editable(t) == IsPending(t)

UpdateRead(w, t, kind, amount, r) ==
    /\ tx[t] # None
    /\ tx[t].status # "cancelled"
    /\ kind # tx[t].kind \/ amount # tx[t].amount => Editable(t)
    /\ r \in Receipts => files[r] = "stored"
    /\ LET old == tx[t].receipt
           ent == [tx[t] EXCEPT !.kind = kind, !.amount = amount,
                                !.receipt = IF r = Keep THEN @ ELSE r]
       IN  Start(w, [Idle EXCEPT
                        !.pc = IF old # None /\ ent.receipt # old THEN "update_file"
                               ELSE "update_begin",
                        !.t = t, !.ent = ent, !.receipt = old])
    /\ UNCHANGED <<tx, used, ledger, reopens, files>>

UpdateFile(w) ==
    /\ req[w].pc = "update_file"
    /\ DeleteFile(req[w].receipt)
    /\ req' = [req EXCEPT ![w].pc = "update_begin"]
    /\ UNCHANGED <<tx, used, ledger, reopens>>

UpdateBegin(w) ==
    /\ req[w].pc = "update_begin"
    /\ req' = [req EXCEPT ![w].pc = "update_commit", ![w].base = tx[req[w].t]]
    /\ UNCHANGED <<tx, used, ledger, reopens, files>>

\* Other handlers that loaded the unit shares hold rows that are gone.
UpdateCommit(w) ==
    /\ req[w].pc = "update_commit"
    /\ SaveAs(w, req[w].ent)
    /\ req' = [v \in Workers |->
                  IF v = w THEN Idle
                  ELSE IF req[v].t = req[w].t THEN [req[v] EXCEPT !.shares = "replaced"]
                  ELSE req[v]]
    /\ UNCHANGED <<used, ledger, reopens, files>>

(***************************************************************************)
(* remove: a paid transaction is refused; then the receipt is deleted from *)
(* the storage, and the row by its identifier.  Ledger rows keep a NULL    *)
(* transaction and stay in the balance.                                    *)
(***************************************************************************)
AnyStatus(t) == tx[t] # None       \* mutant: paid transactions are not refused

Removable(t) == tx[t] # None /\ tx[t].status # "paid"

RemoveRead(w, t) ==
    /\ Removable(t)
    /\ Start(w, [Idle EXCEPT !.pc = "remove_file", !.t = t, !.ent = tx[t]])
    /\ UNCHANGED <<tx, used, ledger, reopens, files>>

RemoveFile(w) ==
    LET r == req[w].ent.receipt
    IN  /\ req[w].pc = "remove_file"
        /\ IF r = None THEN UNCHANGED files ELSE DeleteFile(r)
        /\ req' = [req EXCEPT ![w].pc = "remove_row"]
        /\ UNCHANGED <<tx, used, ledger, reopens>>

RemoveRow(w) ==
    LET t == req[w].t
    IN  /\ req[w].pc = "remove_row"
        /\ tx' = [tx EXCEPT ![t] = None]
        /\ given' = [given EXCEPT ![t] = NoCredit]
        /\ taken' = [taken EXCEPT ![t] = NoCredit]
        /\ Finish(w)
        /\ UNCHANGED <<used, balance, reopens, files>>

\* An exception or a crash between two awaits.
Fail(w) ==
    /\ req[w].pc # "idle"
    /\ Finish(w)
    /\ UNCHANGED <<tx, used, ledger, reopens, files>>

Settle(w) ==
    \/ \E t \in Txs, u \in Units \cup {None}, r \in Receipts \cup {None} : SettleRead(w, t, u, r)
    \/ SettleBegin(w) \/ SettleFile(w) \/ SettleCommit(w)

Cancel(w) == (\E t \in Txs : CancelRead(w, t)) \/ CancelLoad(w) \/ CancelWrite(w)

Reopen(w) == (\E t \in Txs : ReopenRead(w, t)) \/ ReopenBegin(w) \/ ReopenCommit(w)

Update(w) ==
    \/ \E t \in Txs, kind \in Kinds, amount \in Amounts, r \in Receipts \cup {None, Keep} :
          UpdateRead(w, t, kind, amount, r)
    \/ UpdateFile(w) \/ UpdateBegin(w) \/ UpdateCommit(w)

Remove(w) == (\E t \in Txs : RemoveRead(w, t)) \/ RemoveFile(w) \/ RemoveRow(w)

Next ==
    \/ \E w \in Workers : Settle(w) \/ Cancel(w) \/ Reopen(w) \/ Update(w) \/ Remove(w) \/ Fail(w)
    \/ \E r \in Receipts : Upload(r)
    \/ \E t \in Txs, kind \in Kinds, amount \in Amounts, r \in Receipts \cup {None} :
          Create(t, kind, amount, r)

Spec == Init /\ [][Next]_vars
-----------------------------------------------------------------------------
(***************************************************************************)
(* Properties.                                                             *)
(***************************************************************************)
Net(t, u) == given[t][u] - taken[t][u]

\* While an expense is settled by a unit, that unit and no other has a credit
\* of exactly its amount for it; a transaction in any other state gives none.
CreditExact ==
    \A t \in Txs :
        /\ \A u \in Units : Net(t, u) \in {0, IF IsPaid(t) THEN tx[t].amount ELSE 0}
        /\ \A u, v \in Units : Net(t, u) # 0 /\ Net(t, v) # 0 => u = v

\* What the ledger owes a unit is what the transactions gave it and did not
\* take back: removing a transaction never leaves credit without an expense.
NetOf(u) == [t \in Txs |-> Net(t, u)]

BalanceIsNet == \A u \in Units : balance[u] = Sum(NetOf(u), Txs)

\* The status moves as the handlers say: pending to paid or cancelled, paid to
\* pending by a reopening, and never anywhere from cancelled.
StatusMoves ==
    [][\A t \in Txs :
          tx[t] # None /\ tx'[t] # None /\ tx'[t].status # tx[t].status =>
             CASE tx[t].status = "pending"   -> TRUE
               [] tx[t].status = "paid"      -> tx'[t].status = "pending" /\ reopens'[t] = reopens[t] + 1
               [] tx[t].status = "cancelled" -> FALSE]_vars

\* A paid transaction is not removed; it has to be reopened first.
PaidNotRemoved == [][\A t \in Txs : IsPaid(t) => tx'[t] # None]_vars

\* settlePayment registers credit in the transaction that saves the row:
\* however requests interleave, credit is given only in a step that leaves
\* the transaction paid, and taken back only in one that leaves it pending.
CreditOnlyWithStatus ==
    [][\A t \in Txs :
          /\ given'[t] # given[t] /\ tx'[t] # None => tx'[t].status = "paid"
          /\ taken'[t] # taken[t] /\ tx'[t] # None => tx'[t].status = "pending"]_vars

\* When no request is in progress, the receipt a transaction refers to is a
\* file the storage still has.
ReceiptOnFile ==
    (\A w \in Workers : req[w].pc = "idle") =>
        \A t \in Txs : tx[t] # None /\ tx[t].receipt # None => files[tx[t].receipt] = "stored"

\* The transactions behave as the expenses of ExpenseBook, where the unit that
\* paid for an expense is the one its ledger rows still credit.
StatusOf(t) == IF tx[t] = None THEN (IF t \in used THEN "gone" ELSE "new") ELSE tx[t].status

PayerOf(t) == IF \E u \in Units : Net(t, u) # 0 THEN CHOOSE u \in Units : Net(t, u) # 0 ELSE None

Book == INSTANCE ExpenseBook WITH
            Expenses <- Txs,
            status <- [t \in Txs |-> StatusOf(t)],
            amount <- [t \in Txs |-> IF tx[t] = None THEN 0 ELSE tx[t].amount],
            payer <- [t \in Txs |-> PayerOf(t)],
            owed <- balance

ImplementsBook == Book!BSpec
=============================================================================
