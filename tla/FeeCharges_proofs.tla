-------------------------- MODULE FeeCharges_proofs --------------------------
(***************************************************************************)
(* Theorems about FeeCharges, for every set of units, competences, amounts *)
(* and requests.                                                           *)
(***************************************************************************)
EXTENDS FeeCharges, Sums_proofs, TLAPS

LEMMA IdleIsRequest == Idle \in Request /\ Idle.pc = "idle"
  BY DEF Idle, Request, PCs, NothingLoaded, RowOrNone

\* save writes a row: the entity, the row merged with it, or the row as it is.
LEMMA StoredType ==
  ASSUME TypeOK, NEW k \in Keys, NEW was \in RowOrNone, NEW ent \in Row
  PROVE  Stored(k, was, ent) \in RowOrNone
  BY DEF Stored, Merge, Column, Row, RowOrNone, SameRow, TypeOK

LEMMA NewRowType ==
  ASSUME NEW i \in Ids, NEW amount \in Amounts
  PROVE  NewRow(i, amount) \in Row
  BY ConstantsAssumption DEF NewRow, Row

LEMMA RowOfType ==
  ASSUME TypeOK, NEW k \in Keys, NEW ent
  PROVE  RowOf(k, ent) \in RowOrNone
  BY DEF RowOf, RowOrNone, TypeOK

LEMMA KeysArePairs ==
  ASSUME NEW k \in Keys
  PROVE  k[1] \in Units /\ k[2] \in Months /\ k = <<k[1], k[2]>>
  BY DEF Keys

-----------------------------------------------------------------------------
(***************************************************************************)
(* Type correctness needs to know what a request has loaded when it is     *)
(* about to use it.                                                        *)
(***************************************************************************)
OneCharge == {"close_load", "close_write", "settle_begin", "settle_commit",
              "reopen_begin", "reopen_commit", "replace_begin", "replace_commit"}

WellFormed(r) ==
    /\ r.pc \in OneCharge => r.key \in Keys
    /\ r.pc \in OneCharge \ {"close_write"} => r.ents[r.key] # None
    /\ r.pc \in {"close_unit", "close_load", "close_write", "regen_delete", "regen_insert"}
          => r.month \in Months
    /\ r.pc = "replace_delete" => r.receipt \in Receipts

TInv == TypeOK /\ \A w \in Workers : WellFormed(req[w])

\* What a request about one charge works with.
LEMMA Loaded ==
  ASSUME TInv, NEW w \in Workers, req[w].pc \in OneCharge
  PROVE  LET k == req[w].key
         IN  /\ k \in Keys /\ k[1] \in Units /\ k[2] \in Months
             /\ req[w].ents[k] \in RowOrNone /\ req[w].base[k] \in RowOrNone
             /\ req[w].pc # "close_write" => req[w].ents[k] \in Row
             /\ req[w].credit \in Nat /\ req[w].receipt \in Receipts \cup {None}
<1>1. req[w] \in Request /\ WellFormed(req[w])
  BY DEF TInv, TypeOK
<1>2. req[w].key \in Keys
  BY <1>1 DEF WellFormed, OneCharge
<1>3. req[w].pc # "close_write" => req[w].ents[req[w].key] # None
  BY <1>1 DEF WellFormed, OneCharge
<1>4. QED
  BY <1>1, <1>2, <1>3, KeysArePairs DEF Request, RowOrNone

\* A step that changes one request keeps the others.
LEMMA OneRequest ==
  ASSUME TInv, NEW w \in Workers, NEW r \in Request, WellFormed(r),
         req' = [req EXCEPT ![w] = r]
  PROVE  req' \in [Workers -> Request] /\ \A v \in Workers : WellFormed(req'[v])
  BY DEF TInv, TypeOK

LEMMA IdleIsWellFormed == WellFormed(Idle)
  BY IdleIsRequest DEF WellFormed, OneCharge

\* What a competence takes out of the credit is an amount.
LEMMA WalkSpends ==
  ASSUME NEW credit \in Nat, NEW due \in [Months -> Nat], NEW m \in Months,
         NEW remaining \in FifoWalks(credit, due)
  PROVE  /\ remaining[m - 1] \in 0 .. credit /\ remaining[m] \in 0 .. credit
         /\ remaining[m - 1] - remaining[m] \in 0 .. Lesser(due[m], remaining[m - 1])
  BY ConstantsAssumption DEF FifoWalks, Lesser, Months

LEMMA OpenDueType ==
  ASSUME TypeOK, NEW u \in Units
  PROVE  OpenDue(u) \in [Months -> Nat]
  BY DEF OpenDue, IsOpen, TypeOK, RowOrNone, Row, Keys

LEMMA InitType == Init => TInv
  BY IdleIsRequest, IdleIsWellFormed DEF Init, TInv, TypeOK, NothingLoaded, RowOrNone

LEMMA CloseType ==
  ASSUME TInv, NEW w \in Workers, Close(w)
  PROVE  TInv'
<1> USE IdleIsRequest DEF TInv, ledger
<1>1. ASSUME NEW m \in Months, CloseStart(w, m)
      PROVE  TInv'
  <2> DEFINE r == [Idle EXCEPT !.pc = "close_unit", !.month = m, !.todo = Units]
  <2>1. r \in Request /\ WellFormed(r)
    BY DEF Request, WellFormed, OneCharge, PCs
  <2>2. QED
    BY <1>1, <2>1, OneRequest DEF CloseStart, TypeOK
<1>2. ASSUME NEW u \in Units, CloseRead(w, u)
      PROVE  TInv'
  <2> DEFINE k == <<u, req[w].month>>
             pc == IF charge[k] = None THEN "close_write" ELSE "close_load"
             r == [req[w] EXCEPT !.pc = pc, !.key = k, !.ents[k] = charge[k]]
  <2>1. k \in Keys
    BY <1>2 DEF CloseRead, Keys, WellFormed
  <2>2. r \in Request /\ WellFormed(r)
    <3>r. req[w] \in Request /\ charge[k] \in RowOrNone
      BY <2>1 DEF TypeOK
    <3>1. r \in Request
      <4> HIDE DEF k
      <4>1. QED
        BY <2>1, <3>r DEF Request, PCs
    <3>2. WellFormed(r)
      BY <1>2, <2>1 DEF CloseRead, TypeOK, Request, WellFormed, OneCharge
    <3>3. QED
      BY <3>1, <3>2
  <2>3. QED
    BY <1>2, <2>2, OneRequest DEF CloseRead, TypeOK
<1>3. ASSUME NEW u \in Units, CloseSkip(w, u)
      PROVE  TInv'
  <2> DEFINE rest == req[w].todo \ {u}
             r == IF rest = {} THEN Idle ELSE [req[w] EXCEPT !.todo = rest]
  <2>r. req[w] \in Request /\ req[w].pc = "close_unit" /\ WellFormed(req[w]) /\ rest \subseteq Units
    BY <1>3 DEF CloseSkip, TypeOK, Request
  <2>1. r \in Request /\ WellFormed(r)
    <3> HIDE DEF rest
    <3>1. [req[w] EXCEPT !.todo = rest] \in Request
      BY <2>r DEF Request
    <3>2. WellFormed([req[w] EXCEPT !.todo = rest])
      BY <2>r DEF Request, WellFormed, OneCharge
    <3>3. QED
      BY <3>1, <3>2, IdleIsWellFormed
  <2>2. QED
    BY <1>3, <2>1, OneRequest DEF CloseSkip, TypeOK
<1>4. CASE CloseLoad(w)
  <2> DEFINE k == req[w].key
             r == [req[w] EXCEPT !.pc = "close_write", !.base[k] = RowOf(k, req[w].ents[k])]
  <2>1. r \in Request /\ WellFormed(r)
    BY <1>4, RowOfType DEF CloseLoad, TypeOK, Request, WellFormed, OneCharge, PCs
  <2>2. QED
    BY <1>4, <2>1, OneRequest DEF CloseLoad, TypeOK
<1>5. ASSUME NEW row \in RowOrNone, req[w].pc = "close_write",
             charge' = [charge EXCEPT ![req[w].key] = row],
             NextUnit(w, "close_unit"), UNCHANGED <<ledger, reopenLog, files>>
      PROVE  TInv'
  <2> DEFINE rest == req[w].todo \ {req[w].key[1]}
             r == IF rest = {} THEN Idle
                  ELSE [Idle EXCEPT !.pc = "close_unit", !.month = req[w].month, !.todo = rest]
  <2>1. r \in Request /\ WellFormed(r)
    BY <1>5, IdleIsWellFormed DEF TypeOK, Request, WellFormed, OneCharge, PCs
  <2>2. QED
    BY <1>5, <2>1, OneRequest DEF NextUnit, TypeOK
<1>6. CASE CloseInsert(w)
  BY <1>5, <1>6, NewRowType DEF CloseInsert, RowOrNone
<1>7. CASE CloseUpdate(w)
  <2> DEFINE k == req[w].key
             ent(amount) == [req[w].ents[k] EXCEPT !.due = amount, !.dueOn = DueDay10]
  <2>1. PICK amount \in Amounts :
           charge' = [charge EXCEPT ![k] = Stored(k, req[w].base[k], ent(amount))]
    BY <1>7 DEF CloseUpdate
  <2>2. k \in Keys /\ ent(amount) \in Row /\ req[w].base[k] \in RowOrNone
    <3>1. k \in Keys /\ req[w].ents[k] \in Row /\ req[w].base[k] \in RowOrNone
      BY <1>7, Loaded DEF CloseUpdate, OneCharge, RowOrNone
    <3>2. QED
      BY <3>1, ConstantsAssumption DEF Row
  <2>3. Stored(k, req[w].base[k], ent(amount)) \in RowOrNone
    BY <2>2, StoredType
  <2>4. QED
    BY <1>5, <1>7, <2>1, <2>3 DEF CloseUpdate
<1>8. QED
  BY <1>1, <1>2, <1>3, <1>4, <1>6, <1>7 DEF Close

LEMMA RegenerateType ==
  ASSUME TInv, NEW w \in Workers, Regenerate(w)
  PROVE  TInv'
<1> USE IdleIsRequest DEF TInv, ledger
<1>1. ASSUME NEW m \in Months, RegenStart(w, m)
      PROVE  TInv'
  <2> DEFINE r == [Idle EXCEPT !.pc = "regen_delete", !.month = m]
  <2>1. r \in Request /\ WellFormed(r)
    BY DEF Request, WellFormed, OneCharge, PCs
  <2>2. QED
    BY <1>1, <2>1, OneRequest DEF RegenStart, TypeOK
<1>2. CASE RegenDelete(w)
  <2> DEFINE r == [req[w] EXCEPT !.pc = "regen_insert", !.todo = Units]
  <2>1. r \in Request /\ WellFormed(r)
    BY <1>2 DEF RegenDelete, TypeOK, Request, WellFormed, OneCharge, PCs
  <2>2. QED
    BY <1>2, <2>1, OneRequest DEF RegenDelete, OfMonth, TypeOK, RowOrNone
<1>3. ASSUME NEW u \in Units, RegenInsert(w, u)
      PROVE  TInv'
  <2> DEFINE rest == req[w].todo \ {u}
             r == IF rest = {} THEN Idle ELSE [req[w] EXCEPT !.todo = rest]
  <2>r. req[w] \in Request /\ req[w].pc = "regen_insert" /\ WellFormed(req[w]) /\ rest \subseteq Units
    BY <1>3 DEF RegenInsert, TypeOK, Request
  <2>1. r \in Request /\ WellFormed(r)
    <3> HIDE DEF rest
    <3>1. [req[w] EXCEPT !.todo = rest] \in Request
      BY <2>r DEF Request
    <3>2. WellFormed([req[w] EXCEPT !.todo = rest])
      BY <2>r DEF Request, WellFormed, OneCharge
    <3>3. QED
      BY <3>1, <3>2, IdleIsWellFormed
  <2>2. charge' \in [Keys -> RowOrNone]
    <3>1. <<u, req[w].month>> \in Keys
      BY <1>3 DEF RegenInsert, WellFormed, Keys
    <3>2. QED
      BY <1>3, <3>1, NewRowType DEF RegenInsert, TypeOK, RowOrNone
  <2>3. QED
    BY <1>3, <2>1, <2>2, OneRequest DEF RegenInsert, TypeOK
<1>4. QED
  BY <1>1, <1>2, <1>3 DEF Regenerate

LEMMA SettleType ==
  ASSUME TInv, NEW w \in Workers, Settle(w)
  PROVE  TInv'
<1> USE IdleIsRequest DEF TInv, ledger
<1>1. ASSUME NEW k \in Keys, NEW c \in Receipts \cup {None}, SettleRead(w, k, c)
      PROVE  TInv'
  <2> DEFINE r == [Idle EXCEPT !.pc = "settle_begin", !.key = k,
                               !.ents[k] = charge[k], !.receipt = c]
  <2>1. r \in Request /\ WellFormed(r)
    BY <1>1 DEF SettleRead, IsOpen, TypeOK, Request, WellFormed, OneCharge, PCs
  <2>2. QED
    BY <1>1, <2>1, OneRequest DEF SettleRead, TypeOK
<1>2. CASE SettleBegin(w)
  <2> DEFINE k == req[w].key
             row == RowOf(k, req[w].ents[k])
             r(credit) == [req[w] EXCEPT !.pc = "settle_commit", !.base[k] = row,
                                         !.credit = credit]
  <2>1. k \in Keys /\ RowOf(k, req[w].ents[k]) \in RowOrNone
    BY <1>2, RowOfType DEF SettleBegin, WellFormed, OneCharge
  <2>2. PICK credit \in Nat : req' = [req EXCEPT ![w] = r(credit)]
    <3> DEFINE funds == AtLeastZero(balance[k[1]])
    <3>1. PICK remaining \in FifoWalks(funds, OpenDue(k[1])) :
             req' = [req EXCEPT ![w] = r(AllocatedCredit(k, req[w].ents[k], remaining))]
      BY <1>2 DEF SettleBegin
    <3>2. funds \in Nat /\ OpenDue(k[1]) \in [Months -> Nat] /\ k[2] \in Months
      BY <2>1, KeysArePairs, OpenDueType DEF AtLeastZero, TypeOK
    <3>3. remaining[k[2] - 1] - remaining[k[2]] \in Nat
      BY <3>2, WalkSpends
    <3>4. QED
      BY <3>1, <3>3 DEF AllocatedCredit
  <2>3. r(credit) \in Request /\ WellFormed(r(credit))
    <3>r. req[w] \in Request
      BY DEF TypeOK
    <3>1. r(credit) \in Request
      <4>1. row \in RowOrNone /\ k \in Keys
        BY <2>1
      <4> HIDE DEF row, k
      <4>2. QED
        BY <2>2, <3>r, <4>1 DEF Request, PCs
    <3>2. WellFormed(r(credit))
      BY <1>2, <2>1 DEF SettleBegin, TypeOK, Request, WellFormed, OneCharge
    <3>3. QED
      BY <3>1, <3>2
  <2>4. QED
    BY <1>2, <2>2, <2>3, OneRequest DEF SettleBegin, TypeOK
<1>3. CASE SettleCommit(w)
  <2> DEFINE k == req[w].key
             ent(income, bank) == [req[w].ents[k] EXCEPT !.status = "paid", !.income = income,
                                                         !.bank = bank, !.receipt = req[w].receipt]
  <2>1. PICK income \in Incomes \cup {None}, bank \in BOOLEAN :
           charge' = [charge EXCEPT ![k] = Stored(k, req[w].base[k], ent(income, bank))]
    BY <1>3 DEF AsPaid, SettleCommit
  <2>2. k \in Keys /\ ent(income, bank) \in Row /\ req[w].base[k] \in RowOrNone /\ req[w].credit \in Nat
    <3>1. /\ k \in Keys /\ req[w].ents[k] \in Row /\ req[w].base[k] \in RowOrNone
          /\ req[w].credit \in Nat /\ req[w].receipt \in Receipts \cup {None}
      BY <1>3, Loaded DEF AsPaid, SettleCommit, OneCharge
    <3>2. QED
      BY <3>1 DEF Row
  <2>3. charge' \in [Keys -> RowOrNone]
    BY <2>1, <2>2, StoredType DEF TypeOK
  <2>4. balance' \in [Units -> Int] /\ applied' \in [Keys -> Nat]
    <3>1. k[1] \in Units
      BY <2>2, KeysArePairs
    <3>2. balance[k[1]] - req[w].credit \in Int /\ applied[k] + req[w].credit \in Nat
      BY <2>2, <3>1 DEF TypeOK
    <3>3. QED
      BY <1>3, <3>2 DEF AsPaid, SettleCommit, TypeOK
  <2>5. QED
    BY <1>3, <2>3, <2>4, OneRequest, IdleIsWellFormed DEF AsPaid, SettleCommit, Finish, TypeOK
<1>4. QED
  BY <1>1, <1>2, <1>3 DEF Settle

LEMMA ReopenType ==
  ASSUME TInv, NEW w \in Workers, Reopen(w)
  PROVE  TInv'
<1> USE IdleIsRequest DEF TInv, ledger
<1>1. ASSUME NEW k \in Keys, ReopenRead(w, k)
      PROVE  TInv'
  <2> DEFINE r == [Idle EXCEPT !.pc = "reopen_begin", !.key = k, !.ents[k] = charge[k]]
  <2>1. r \in Request /\ WellFormed(r)
    BY <1>1 DEF ReopenRead, IsPaid, TypeOK, Request, WellFormed, OneCharge, PCs
  <2>2. QED
    BY <1>1, <2>1, OneRequest DEF ReopenRead, TypeOK
<1>2. CASE ReopenBegin(w)
  <2> DEFINE k == req[w].key
             r == [req[w] EXCEPT !.pc = "reopen_commit",
                                 !.base[k] = RowOf(k, req[w].ents[k]),
                                 !.credit = IF SameRow(k, req[w].ents[k])
                                            THEN CreditToRestore(k) ELSE 0]
  <2>1. k \in Keys /\ RowOf(k, req[w].ents[k]) \in RowOrNone /\ applied[k] \in Nat
    BY <1>2, RowOfType DEF ReopenBegin, WellFormed, OneCharge, TypeOK
  <2>2. r \in Request /\ WellFormed(r)
    BY <1>2, <2>1 DEF ReopenBegin, CreditToRestore, TypeOK, Request, WellFormed, OneCharge, PCs
  <2>3. QED
    BY <1>2, <2>2, OneRequest DEF ReopenBegin, TypeOK
<1>3. CASE ReopenCommit(w)
  <2> DEFINE k == req[w].key
             ent == [req[w].ents[k] EXCEPT !.status = "open", !.income = None,
                                           !.bank = FALSE, !.receipt = None]
  <2>1. k \in Keys /\ ent \in Row /\ req[w].base[k] \in RowOrNone /\ req[w].credit \in Nat
    <3>1. /\ k \in Keys /\ req[w].ents[k] \in Row /\ req[w].base[k] \in RowOrNone
          /\ req[w].credit \in Nat
      BY <1>3, Loaded DEF ReopenCommit, OneCharge
    <3>2. QED
      BY <3>1 DEF Row
  <2>2. charge' \in [Keys -> RowOrNone]
    BY <1>3, <2>1, StoredType DEF ReopenCommit, TypeOK
  <2>3. balance' \in [Units -> Int] /\ restored' \in [Keys -> Nat] /\ reopenLog' \in [Keys -> Nat]
    <3>1. k[1] \in Units
      BY <2>1, KeysArePairs
    <3>2. /\ balance[k[1]] + req[w].credit \in Int /\ restored[k] + req[w].credit \in Nat
          /\ reopenLog[k] + 1 \in Nat
      BY <2>1, <3>1 DEF TypeOK
    <3>3. QED
      BY <1>3, <3>2 DEF ReopenCommit, TypeOK
  <2>4. QED
    BY <1>3, <2>2, <2>3, OneRequest, IdleIsWellFormed DEF ReopenCommit, Finish, TypeOK
<1>4. QED
  BY <1>1, <1>2, <1>3 DEF Reopen

LEMMA ChangeDueDateType ==
  ASSUME TInv, NEW w \in Workers, ChangeDueDate(w)
  PROVE  TInv'
<1> USE IdleIsRequest DEF TInv, ledger
<1>1. ASSUME NEW ks \in SUBSET Keys, DueRead(w, ks)
      PROVE  TInv'
  <2> DEFINE r == [Idle EXCEPT !.pc = "due_load",
                               !.ents = [k \in Keys |-> IF k \in ks THEN charge[k] ELSE None]]
  <2>1. r \in Request /\ WellFormed(r)
    BY DEF TypeOK, Request, WellFormed, OneCharge, PCs, RowOrNone
  <2>2. QED
    BY <1>1, <2>1, OneRequest DEF DueRead, TypeOK
<1>2. CASE DueLoad(w)
  <2> DEFINE base == [k \in Keys |-> IF req[w].ents[k] = None THEN None
                                     ELSE RowOf(k, req[w].ents[k])]
             r == [req[w] EXCEPT !.pc = "due_write", !.base = base]
  <2>1. base \in [Keys -> RowOrNone]
    BY RowOfType DEF RowOrNone
  <2> HIDE DEF base
  <2>2. r \in Request /\ WellFormed(r)
    BY <1>2, <2>1 DEF DueLoad, TypeOK, Request, WellFormed, OneCharge, PCs
  <2>3. QED
    BY <1>2, <2>2, OneRequest DEF DueLoad, TypeOK, base
<1>3. CASE DueWrite(w)
  <2> DEFINE ents == req[w].ents
             base == req[w].base
             after(k, d) == IF ents[k] = None THEN charge[k]
                            ELSE Stored(k, base[k], [ents[k] EXCEPT !.dueOn = d])
  <2>1. ents \in [Keys -> RowOrNone] /\ base \in [Keys -> RowOrNone]
    BY DEF TypeOK, Request
  <2>2. ASSUME NEW k \in Keys, NEW d \in DueDates
        PROVE  after(k, d) \in RowOrNone
    <3>1. CASE ents[k] = None
      BY <3>1 DEF TypeOK
    <3>2. CASE ents[k] # None
      <4>1. ents[k] \in Row /\ base[k] \in RowOrNone
        BY <3>2, <2>1 DEF RowOrNone
      <4>2. [ents[k] EXCEPT !.dueOn = d] \in Row
        BY <4>1 DEF Row
      <4>3. QED
        BY <3>2, <4>1, <4>2, StoredType
    <3>3. QED
      BY <3>1, <3>2
  <2>3. PICK d \in DueDates : charge' = [k \in Keys |-> after(k, d)]
    BY <1>3 DEF DueWrite
  <2>4. charge' \in [Keys -> RowOrNone]
    BY <2>2, <2>3
  <2>5. QED
    BY <1>3, <2>4, OneRequest, IdleIsWellFormed DEF DueWrite, Finish, TypeOK
<1>4. QED
  BY <1>1, <1>2, <1>3 DEF ChangeDueDate

LEMMA ReplaceReceiptType ==
  ASSUME TInv, NEW w \in Workers, ReplaceReceipt(w)
  PROVE  TInv'
<1> USE IdleIsRequest DEF TInv, ledger
<1>1. ASSUME NEW k \in Keys, NEW c \in Receipts, ReplaceRead(w, k, c)
      PROVE  TInv'
  <2> DEFINE r == [Idle EXCEPT !.pc = "replace_begin", !.key = k,
                               !.ents[k] = charge[k], !.receipt = c]
  <2>1. r \in Request /\ WellFormed(r)
    BY <1>1 DEF ReplaceRead, IsPaid, TypeOK, Request, WellFormed, OneCharge, PCs
  <2>2. QED
    BY <1>1, <2>1, OneRequest DEF ReplaceRead, TypeOK
<1>2. CASE ReplaceBegin(w)
  <2> DEFINE k == req[w].key
             r == [req[w] EXCEPT !.pc = "replace_commit", !.base[k] = RowOf(k, req[w].ents[k])]
  <2>1. r \in Request /\ WellFormed(r)
    BY <1>2, RowOfType DEF ReplaceBegin, TypeOK, Request, WellFormed, OneCharge, PCs
  <2>2. QED
    BY <1>2, <2>1, OneRequest DEF ReplaceBegin, TypeOK
<1>3. CASE ReplaceCommit(w)
  <2> DEFINE k == req[w].key
             old == req[w].ents[k].receipt
             ent == [req[w].ents[k] EXCEPT !.receipt = req[w].receipt]
             r == IF old = None THEN Idle
                  ELSE [Idle EXCEPT !.pc = "replace_delete", !.receipt = old]
  <2>1. /\ k \in Keys /\ req[w].ents[k] \in Row /\ req[w].base[k] \in RowOrNone
        /\ req[w].receipt \in Receipts \cup {None}
    BY <1>3, Loaded DEF ReplaceCommit, OneCharge
  <2>2. ent \in Row /\ old \in Receipts \cup {None}
    BY <2>1 DEF Row
  <2>3. charge' \in [Keys -> RowOrNone]
    BY <1>3, <2>1, <2>2, StoredType DEF ReplaceCommit, TypeOK
  <2>4. r \in Request /\ WellFormed(r)
    BY <2>2, IdleIsWellFormed DEF Request, WellFormed, OneCharge, PCs
  <2>5. QED
    BY <1>3, <2>3, <2>4, OneRequest DEF ReplaceCommit, ReplacedFile, TypeOK
<1>4. CASE ReplaceDelete(w)
  BY <1>4, OneRequest, IdleIsWellFormed DEF ReplaceDelete, Finish, TypeOK
<1>5. QED
  BY <1>1, <1>2, <1>3, <1>4 DEF ReplaceReceipt

LEMMA NextType == TInv /\ [Next]_vars => TInv'
<1> SUFFICES ASSUME TInv, [Next]_vars
             PROVE  TInv'
  OBVIOUS
<1> USE DEF TInv, ledger
<1>1. ASSUME NEW w \in Workers, Fail(w)
      PROVE  TInv'
  BY <1>1, IdleIsRequest, IdleIsWellFormed, OneRequest DEF Fail, Finish, TypeOK
<1>2. ASSUME NEW u \in Units, NEW amount \in Advances, Advance(u, amount)
      PROVE  TInv'
  BY <1>2, ConstantsAssumption DEF Advance, TypeOK
<1>3. ASSUME NEW r \in Receipts, Upload(r)
      PROVE  TInv'
  BY <1>3 DEF Upload, TypeOK
<1>4. CASE UNCHANGED vars
  BY <1>4 DEF vars, TypeOK
<1>5. QED
  BY <1>1, <1>2, <1>3, <1>4, CloseType, RegenerateType, SettleType, ReopenType,
     ChangeDueDateType, ReplaceReceiptType DEF Next

\* Every table keeps its shape, and every request has loaded what it is about
\* to use, whatever requests interleave.
THEOREM TypeCorrect == Spec => []TypeOK
<1>1. TInv => TypeOK
  BY DEF TInv
<1>2. QED
  BY <1>1, InitType, NextType, PTL DEF Spec

-----------------------------------------------------------------------------
(***************************************************************************)
(* Credit is consumed together with a payment.  What makes this inductive: *)
(* a transaction that is about to consume credit read its charge as open,  *)
(* so its save will write the status column.                               *)
(***************************************************************************)
ReadAsOpen(r) ==
    r.pc = "settle_commit" /\ r.credit > 0
       => /\ r.base[r.key] # None
          /\ r.base[r.key].status = "open"

CInv == TInv /\ \A w \in Workers : ReadAsOpen(req[w])

\* The transaction of settle finds credit for its charge only if it is open.
LEMMA CreditOnlyForOpen ==
  ASSUME TInv, NEW w \in Workers, SettleBegin(w)
  PROVE  ReadAsOpen(req'[w])
<1> DEFINE k == req[w].key
           ent == req[w].ents[k]
           funds == AtLeastZero(balance[k[1]])
<1>1. /\ k \in Keys /\ k[1] \in Units /\ k[2] \in Months /\ k = <<k[1], k[2]>>
      /\ req[w] \in Request
  BY Loaded, KeysArePairs DEF SettleBegin, OneCharge, TInv, TypeOK
<1>2. PICK remaining \in FifoWalks(funds, OpenDue(k[1])) :
         req' = [req EXCEPT ![w].pc = "settle_commit",
                            ![w].base[k] = RowOf(k, ent),
                            ![w].credit = IF SameRow(k, ent)
                                          THEN remaining[k[2] - 1] - remaining[k[2]] ELSE 0]
  BY DEF SettleBegin, AllocatedCredit
<1>3. funds \in Nat /\ OpenDue(k[1]) \in [Months -> Nat]
  BY <1>1, OpenDueType DEF AtLeastZero, TInv, TypeOK
<1>4. remaining[k[2] - 1] - remaining[k[2]] \in 0 .. OpenDue(k[1])[k[2]]
  BY <1>1, <1>3, WalkSpends DEF Lesser
<1>5. OpenDue(k[1])[k[2]] # 0 => IsOpen(k)
  BY <1>1 DEF OpenDue
<1> HIDE DEF k, funds
<1>6. /\ req'[w].key = k
      /\ req'[w].base[k] = RowOf(k, ent)
      /\ req'[w].credit = IF SameRow(k, ent) THEN remaining[k[2] - 1] - remaining[k[2]] ELSE 0
  BY <1>1, <1>2 DEF TInv, TypeOK, Request, k
<1>7. CASE SameRow(k, ent) /\ IsOpen(k)
  BY <1>6, <1>7 DEF ReadAsOpen, RowOf, SameRow, IsOpen
<1>8. CASE ~ (SameRow(k, ent) /\ IsOpen(k))
  BY <1>1, <1>3, <1>4, <1>5, <1>6, <1>8 DEF ReadAsOpen
<1>9. QED
  BY <1>7, <1>8

\* A step of a request after which it is not about to consume credit.
EndsElsewhere(w) ==
    /\ req'[w].pc # "settle_commit"
    /\ \A v \in Workers \ {w} : req'[v] = req[v]

LEMMA SettleElsewhere ==
  ASSUME TInv, NEW w \in Workers,
         \/ \E k \in Keys, r \in Receipts \cup {None} : SettleRead(w, k, r)
         \/ SettleCommit(w)
  PROVE  EndsElsewhere(w)
<1> USE IdleIsRequest DEF EndsElsewhere, Request, TInv, TypeOK
<1>1. ASSUME NEW k \in Keys, NEW c \in Receipts \cup {None}, SettleRead(w, k, c)
      PROVE  EndsElsewhere(w)
  BY <1>1 DEF SettleRead
<1>2. CASE SettleCommit(w)
  BY <1>2 DEF SettleCommit, Finish
<1>3. QED
  BY <1>1, <1>2

LEMMA OtherElsewhere ==
  ASSUME TInv, NEW w \in Workers,
         \/ Close(w) \/ Regenerate(w) \/ Reopen(w)
         \/ ChangeDueDate(w) \/ ReplaceReceipt(w) \/ Fail(w)
  PROVE  EndsElsewhere(w)
<1> USE IdleIsRequest DEF EndsElsewhere, Request, TInv, TypeOK
<1>1. ASSUME NEW m \in Months, CloseStart(w, m)
      PROVE  EndsElsewhere(w)
  BY <1>1 DEF CloseStart
<1>2. ASSUME NEW u \in Units, CloseRead(w, u)
      PROVE  EndsElsewhere(w)
  BY <1>2 DEF CloseRead
<1>3. ASSUME NEW u \in Units, CloseSkip(w, u)
      PROVE  EndsElsewhere(w)
  BY <1>3 DEF CloseSkip
<1>4. CASE CloseLoad(w)
  BY <1>4 DEF CloseLoad
<1>5. CASE CloseInsert(w)
  BY <1>5 DEF CloseInsert, NextUnit
<1>6. CASE CloseUpdate(w)
  BY <1>6 DEF CloseUpdate, NextUnit
<1>7. ASSUME NEW m \in Months, RegenStart(w, m)
      PROVE  EndsElsewhere(w)
  BY <1>7 DEF RegenStart
<1>8. CASE RegenDelete(w)
  BY <1>8 DEF RegenDelete
<1>9. ASSUME NEW u \in Units, RegenInsert(w, u)
      PROVE  EndsElsewhere(w)
  BY <1>9 DEF RegenInsert
<1>10. ASSUME NEW k \in Keys, ReopenRead(w, k)
       PROVE  EndsElsewhere(w)
  BY <1>10 DEF ReopenRead
<1>11. CASE ReopenBegin(w)
  BY <1>11 DEF ReopenBegin
<1>12. CASE ReopenCommit(w)
  BY <1>12 DEF ReopenCommit, Finish
<1>13. ASSUME NEW ks \in SUBSET Keys, DueRead(w, ks)
       PROVE  EndsElsewhere(w)
  BY <1>13 DEF DueRead
<1>14. CASE DueLoad(w)
  BY <1>14 DEF DueLoad
<1>15. CASE DueWrite(w)
  BY <1>15 DEF DueWrite, Finish
<1>16. ASSUME NEW k \in Keys, NEW c \in Receipts, ReplaceRead(w, k, c)
       PROVE  EndsElsewhere(w)
  BY <1>16 DEF ReplaceRead
<1>17. CASE ReplaceBegin(w)
  BY <1>17 DEF ReplaceBegin
<1>18. CASE ReplaceCommit(w)
  BY <1>18 DEF ReplaceCommit
<1>19. CASE ReplaceDelete(w)
  BY <1>19 DEF ReplaceDelete, Finish
<1>20. CASE Fail(w)
  BY <1>20 DEF Fail, Finish
<1>21. QED
  BY <1>1, <1>2, <1>3, <1>4, <1>5, <1>6, <1>7, <1>8, <1>9, <1>10,
     <1>11, <1>12, <1>13, <1>14, <1>15, <1>16, <1>17, <1>18, <1>19, <1>20
     DEF Close, Regenerate, Reopen, ChangeDueDate, ReplaceReceipt

LEMMA NextReadAsOpen == CInv /\ [Next]_vars => CInv'
<1> SUFFICES ASSUME CInv, [Next]_vars
             PROVE  CInv'
  OBVIOUS
<1>1. TInv'
  BY NextType DEF CInv
<1>2. ASSUME NEW w \in Workers, \A v \in Workers \ {w} : req'[v] = req[v], ReadAsOpen(req'[w])
      PROVE  \A v \in Workers : ReadAsOpen(req'[v])
  BY <1>2 DEF CInv
<1>5. ASSUME NEW w \in Workers, SettleBegin(w)
      PROVE  \A v \in Workers : ReadAsOpen(req'[v])
  <2>1. \A v \in Workers \ {w} : req'[v] = req[v]
    BY <1>5 DEF SettleBegin, CInv, TInv, TypeOK
  <2>2. QED
    BY <1>2, <1>5, <2>1, CreditOnlyForOpen DEF CInv
<1>6. ASSUME NEW w \in Workers, EndsElsewhere(w)
      PROVE  \A v \in Workers : ReadAsOpen(req'[v])
  BY <1>2, <1>6 DEF EndsElsewhere, ReadAsOpen
<1>7. ASSUME UNCHANGED req
      PROVE  \A v \in Workers : ReadAsOpen(req'[v])
  BY <1>7 DEF CInv
<1>8. ASSUME NEW w \in Workers, Settle(w)
      PROVE  \A v \in Workers : ReadAsOpen(req'[v])
  BY <1>5, <1>6, <1>8, SettleElsewhere DEF Settle, CInv
<1>9. ASSUME NEW w \in Workers, \/ Close(w) \/ Regenerate(w) \/ Reopen(w)
                                \/ ChangeDueDate(w) \/ ReplaceReceipt(w) \/ Fail(w)
      PROVE  \A v \in Workers : ReadAsOpen(req'[v])
  BY <1>6, <1>9, OtherElsewhere DEF CInv
<1>10. QED
  <2>1. (\E u \in Units, amount \in Advances : Advance(u, amount)) \/ (\E r \in Receipts : Upload(r))
           => UNCHANGED req
    BY DEF Advance, Upload
  <2>2. \A v \in Workers : ReadAsOpen(req'[v])
    BY <1>7, <1>8, <1>9, <2>1 DEF Next, vars
  <2>3. QED
    BY <1>1, <2>2 DEF CInv

LEMMA OthersKeepApplied ==
  ASSUME [Next]_vars, applied' # applied
  PROVE  \E w \in Workers : RegenDelete(w) \/ SettleCommit(w)
<1> USE DEF ledger
<1>1. ASSUME NEW w \in Workers, Close(w)
      PROVE  UNCHANGED applied
  BY <1>1 DEF Close, CloseStart, CloseRead, CloseSkip, CloseLoad, CloseInsert, CloseUpdate
<1>2. ASSUME NEW w \in Workers, Regenerate(w), ~ RegenDelete(w)
      PROVE  UNCHANGED applied
  BY <1>2 DEF Regenerate, RegenStart, RegenInsert
<1>3. ASSUME NEW w \in Workers, Settle(w), ~ SettleCommit(w)
      PROVE  UNCHANGED applied
  BY <1>3 DEF Settle, SettleRead, SettleBegin
<1>4. ASSUME NEW w \in Workers, Reopen(w)
      PROVE  UNCHANGED applied
  BY <1>4 DEF Reopen, ReopenRead, ReopenBegin, ReopenCommit
<1>5. ASSUME NEW w \in Workers, ChangeDueDate(w) \/ ReplaceReceipt(w) \/ Fail(w)
      PROVE  UNCHANGED applied
  BY <1>5 DEF ChangeDueDate, DueRead, DueLoad, DueWrite, ReplaceReceipt, ReplaceRead,
     ReplaceBegin, ReplaceCommit, ReplaceDelete, Fail
<1>6. ASSUME NEW u \in Units, NEW amount \in Advances, Advance(u, amount)
      PROVE  UNCHANGED applied
  BY <1>6 DEF Advance
<1>7. ASSUME NEW r \in Receipts, Upload(r)
      PROVE  UNCHANGED applied
  BY <1>7 DEF Upload
<1>8. QED
  BY <1>1, <1>2, <1>3, <1>4, <1>5, <1>6, <1>7 DEF Next, vars

\* The credit applied to a charge grows in one action, and that action pays it.
LEMMA PaymentStep ==
  ASSUME CInv, [Next]_vars, NEW k \in Keys, applied'[k] > applied[k]
  PROVE  charge'[k] # None /\ charge'[k].status = "paid"
<1>1. applied[k] \in Nat
  BY DEF CInv, TInv, TypeOK
<1>2. PICK w \in Workers : SettleCommit(w) /\ k = req[w].key /\ req[w].credit > 0
  <2>1. PICK w \in Workers : RegenDelete(w) \/ SettleCommit(w)
    BY <1>1, OthersKeepApplied
  <2>2. ~ RegenDelete(w)
    BY <1>1 DEF RegenDelete, OfMonth
  <2>3. applied' = [applied EXCEPT ![req[w].key] = @ + req[w].credit] /\ SettleCommit(w)
    BY <2>1, <2>2 DEF SettleCommit
  <2>4. req[w].credit \in Nat
    BY <2>3, Loaded DEF SettleCommit, OneCharge, CInv
  <2>5. QED
    BY <1>1, <2>3, <2>4 DEF CInv, TInv, TypeOK
<1> DEFINE ent(income, bank) == [req[w].ents[k] EXCEPT !.status = "paid", !.income = income,
                                                       !.bank = bank, !.receipt = req[w].receipt]
           was == req[w].base[k]
<1>3. /\ req[w].ents[k] \in Row /\ was \in Row /\ was.status = "open"
      /\ SameRow(k, req[w].ents[k])
  BY <1>2, Loaded DEF SettleCommit, OneCharge, CInv, ReadAsOpen, RowOrNone
<1>4. PICK income \in Incomes \cup {None}, bank \in BOOLEAN :
         charge' = [charge EXCEPT ![k] = Stored(k, was, ent(income, bank))]
  BY <1>2 DEF AsPaid, SettleCommit
<1>5. charge'[k] = Merge(charge[k], was, ent(income, bank))
  <2>1. SameRow(k, ent(income, bank)) /\ was # None
    BY <1>2, <1>3, ConstantsAssumption DEF SameRow, Row
  <2>2. QED
    BY <1>4, <2>1 DEF Stored, CInv, TInv, TypeOK
<1>6. Merge(charge[k], was, ent(income, bank)) \in Row
  <2>1. ent(income, bank) \in Row
    <3>1. req[w].receipt \in Receipts \cup {None}
      BY <1>2, Loaded DEF SettleCommit, OneCharge, CInv
    <3>2. QED
      BY <1>3, <3>1 DEF Row
  <2>2. charge[k] \in Row
    BY <1>3 DEF SameRow, CInv, TInv, TypeOK, RowOrNone
  <2>3. QED
    BY <1>3, <2>1, <2>2 DEF Merge, Column, Row
<1>7. QED
  BY <1>3, <1>5, <1>6, ConstantsAssumption DEF Merge, Column, Row

\* Whatever requests interleave and wherever they fail, the ledger consumes
\* credit for a charge only in the step that leaves the charge paid.
THEOREM CreditGoesWithPayment == Spec => CreditConsumedOnlyWithPayment
<1>1. Init => CInv
  BY InitType, IdleIsRequest DEF CInv, Init, ReadAsOpen
<1>2. CInv /\ [Next]_vars =>
         [\A k \in Keys : applied'[k] > applied[k] => charge'[k] # None /\ charge'[k].status = "paid"]_vars
  BY PaymentStep
<1>3. QED
  BY <1>1, <1>2, NextReadAsOpen, PTL DEF Spec, CreditConsumedOnlyWithPayment

-----------------------------------------------------------------------------
(***************************************************************************)
(* Requests one at a time, and no charge reopened twice.  Every step then  *)
(* changes the books in one of six ways.                                   *)
(***************************************************************************)
OneAtATime == \A v, w \in Workers : v = w

\* The ledger rows of a charge agree with the charge, and all of its credit
\* went back when it was reopened.
Exact(k) ==
    /\ reopenLog[k] = 0 => restored[k] = 0
    /\ IF IsPaid(k) THEN Held(k) \in 0 .. charge[k].due ELSE Held(k) = 0

\* What a request has read still holds.
Fresh(r) ==
    /\ r.pc \in OneCharge => r.ents[r.key] = charge[r.key]
    /\ r.pc \in {"settle_commit", "reopen_commit", "replace_commit"}
          => r.base[r.key] = charge[r.key]
    /\ r.pc = "close_write" /\ r.ents[r.key] # None => r.base[r.key] = charge[r.key]
    /\ r.pc \in {"close_load", "close_write"} => ~ IsPaid(r.key)
    /\ r.pc \in {"settle_begin", "settle_commit"} => IsOpen(r.key)
    /\ r.pc = "settle_commit" =>
          r.credit <= charge[r.key].due /\ r.credit <= balance[r.key[1]]
    /\ r.pc \in {"reopen_begin", "reopen_commit"} =>
          IsPaid(r.key) /\ reopenLog[r.key] < MaxReopens
    /\ r.pc = "reopen_commit" => r.credit = applied[r.key]
    /\ r.pc \in {"replace_begin", "replace_commit"} => IsPaid(r.key)
    /\ r.pc = "regen_delete" => NothingPaid(r.month)
    /\ r.pc \in {"due_load", "due_write"} =>
          \A k \in Keys : r.ents[k] # None => r.ents[k] = charge[k]
    /\ r.pc = "due_write" => \A k \in Keys : r.ents[k] # None => r.base[k] = charge[k]

EInv == /\ TInv
        /\ \A k \in Keys : Exact(k)
        /\ \A u \in Units : balance[u] >= 0
        /\ \A w \in Workers : Fresh(req[w])

\* The ways in which a step changes charges and ledger.
Same(k) == /\ charge'[k] = None <=> charge[k] = None
           /\ charge[k] # None => charge'[k].status = charge[k].status
           /\ IsPaid(k) => charge'[k].due = charge[k].due

Reworded == /\ \A k \in Keys : Same(k)
            /\ UNCHANGED <<balance, advanced, applied, restored, reopenLog>>

Billed(k, row) == /\ charge[k] = None /\ row.status = "open"
                  /\ charge' = [charge EXCEPT ![k] = row]
                  /\ UNCHANGED <<balance, advanced, applied, restored, reopenLog>>

Paid(k, row, credit) ==
    /\ IsOpen(k) /\ row.status = "paid"
    /\ credit <= row.due /\ credit <= balance[k[1]]
    /\ row.income = None /\ ~ row.bank => credit = row.due
    /\ charge' = [charge EXCEPT ![k] = row]
    /\ balance' = [balance EXCEPT ![k[1]] = @ - credit]
    /\ applied' = [applied EXCEPT ![k] = @ + credit]
    /\ UNCHANGED <<advanced, restored, reopenLog>>

Reopened(k, row) ==
    /\ IsPaid(k) /\ row.status = "open" /\ restored[k] = 0
    /\ charge' = [charge EXCEPT ![k] = row]
    /\ balance' = [balance EXCEPT ![k[1]] = @ + applied[k]]
    /\ restored' = [restored EXCEPT ![k] = applied[k]]
    /\ reopenLog' = [reopenLog EXCEPT ![k] = @ + 1]
    /\ UNCHANGED <<advanced, applied>>

Withdrawn(m) == /\ NothingPaid(m)
                /\ charge' = OfMonth(m, charge, None)
                /\ applied' = OfMonth(m, applied, 0)
                /\ restored' = OfMonth(m, restored, 0)
                /\ reopenLog' = OfMonth(m, reopenLog, 0)
                /\ UNCHANGED <<balance, advanced>>

Deposited(u, amount) == /\ balance' = [balance EXCEPT ![u] = @ + amount]
                        /\ advanced' = [advanced EXCEPT ![u] = @ + amount]
                        /\ UNCHANGED <<charge, applied, restored, reopenLog>>

Change == \/ Reworded
          \/ \E k \in Keys, row \in Row : Billed(k, row) \/ Reopened(k, row)
          \/ \E k \in Keys, row \in Row, credit \in Nat : Paid(k, row, credit)
          \/ \E m \in Months : Withdrawn(m)
          \/ \E u \in Units, amount \in Advances : Deposited(u, amount)

LEMMA Untouched == UNCHANGED <<charge, balance, advanced, applied, restored, reopenLog>> => Reworded
  BY DEF Reworded, Same, IsPaid

\* A save over the row it was compared with writes the entity.
LEMMA StoredOver ==
  ASSUME NEW k \in Keys, NEW ent \in Row, charge[k] \in Row, charge[k].id = ent.id
  PROVE  Stored(k, charge[k], ent) = ent
<1>1. charge[k] # None /\ SameRow(k, ent)
  BY ConstantsAssumption DEF SameRow
<1>2. Stored(k, charge[k], ent) = Merge(charge[k], charge[k], ent)
  BY <1>1 DEF Stored
<1>3. Merge(charge[k], charge[k], ent) = ent
  BY DEF Merge, Column, Row
<1>4. QED
  BY <1>2, <1>3

LEMMA Current ==
  ASSUME EInv, NEW w \in Workers, req[w].pc \in OneCharge
  PROVE  LET k == req[w].key
         IN  /\ k \in Keys /\ k[1] \in Units /\ k[2] \in Months
             /\ req[w].ents[k] = charge[k] /\ charge[k] \in RowOrNone
             /\ req[w].pc # "close_write" => charge[k] \in Row
             /\ req[w].credit \in Nat /\ req[w].receipt \in Receipts \cup {None}
             /\ Fresh(req[w]) /\ Exact(k)
<1>1. Fresh(req[w])
  BY DEF EInv
<1>2. req[w].ents[req[w].key] = charge[req[w].key]
  BY <1>1 DEF Fresh
<1>3. QED
  BY <1>1, <1>2, Loaded DEF EInv, TInv, TypeOK

LEMMA CloseChanges ==
  ASSUME EInv, NEW w \in Workers, Close(w)
  PROVE  Change
<1>1. ASSUME UNCHANGED <<charge, ledger, reopenLog>> PROVE Change
  BY <1>1, Untouched DEF ledger, Change
<1>2. CASE CloseInsert(w)
  <2>1. PICK k \in Keys : k = req[w].key
    BY <1>2, Current DEF CloseInsert, OneCharge
  <2>2. PICK i \in Ids, amount \in Amounts : charge' = [charge EXCEPT ![k] = NewRow(i, amount)]
    BY <1>2, <2>1 DEF CloseInsert
  <2>3. NewRow(i, amount) \in Row /\ NewRow(i, amount).status = "open"
    BY NewRowType DEF NewRow
  <2>4. Billed(k, NewRow(i, amount))
    BY <1>2, <2>1, <2>2, <2>3 DEF CloseInsert, Billed, ledger
  <2>5. QED
    BY <2>3, <2>4 DEF Change
<1>3. CASE CloseUpdate(w)
  <2>1. PICK k \in Keys : k = req[w].key
    BY <1>3, Current DEF CloseUpdate, OneCharge
  <2>2. /\ req[w].ents[k] = charge[k] /\ req[w].base[k] = charge[k] /\ ~ IsPaid(k)
        /\ charge[k] \in Row
    BY <1>3, <2>1, Current DEF CloseUpdate, OneCharge, Fresh, RowOrNone
  <2>3. PICK amount \in Amounts :
           charge' = [charge EXCEPT ![k] = Stored(k, charge[k],
                         [charge[k] EXCEPT !.due = amount, !.dueOn = DueDay10])]
    BY <1>3, <2>1, <2>2 DEF CloseUpdate
  <2>4. PICK ent \in Row : ent = [charge[k] EXCEPT !.due = amount, !.dueOn = DueDay10]
    BY <2>2, ConstantsAssumption DEF Row
  <2>5. ent.id = charge[k].id /\ ent.status = charge[k].status
    BY <2>2, <2>4 DEF Row
  <2>6. charge' = [charge EXCEPT ![k] = ent]
    BY <2>2, <2>3, <2>4, <2>5, StoredOver
  <2>7. charge'[k] = ent /\ ent # None /\ charge[k] # None
    BY <2>2, <2>6, ConstantsAssumption DEF EInv, TInv, TypeOK
  <2>8. \A c \in Keys : Same(c)
    BY <2>2, <2>5, <2>6, <2>7 DEF Same, IsPaid, EInv, TInv, TypeOK
  <2>9. QED
    BY <1>3, <2>8 DEF Change, Reworded, CloseUpdate, ledger
<1>4. QED
  BY <1>1, <1>2, <1>3 DEF Close, CloseStart, CloseRead, CloseSkip, CloseLoad

LEMMA RegenerateChanges ==
  ASSUME EInv, NEW w \in Workers, Regenerate(w)
  PROVE  Change
<1>1. ASSUME NEW m \in Months, RegenStart(w, m) PROVE Change
  BY <1>1, Untouched DEF RegenStart, ledger, Change
<1>2. CASE RegenDelete(w)
  <2>1. PICK m \in Months : m = req[w].month
    BY <1>2 DEF RegenDelete, EInv, TInv, WellFormed
  <2>2. NothingPaid(m)
    BY <1>2, <2>1 DEF RegenDelete, EInv, Fresh
  <2>3. Withdrawn(m)
    BY <1>2, <2>1, <2>2 DEF RegenDelete, Withdrawn
  <2>4. QED
    BY <2>3 DEF Change
<1>3. ASSUME NEW u \in Units, RegenInsert(w, u) PROVE Change
  <2>1. PICK k \in Keys : k = <<u, req[w].month>>
    BY <1>3 DEF RegenInsert, EInv, TInv, WellFormed, Keys
  <2>2. PICK i \in Ids, amount \in Amounts : charge' = [charge EXCEPT ![k] = NewRow(i, amount)]
    BY <1>3, <2>1 DEF RegenInsert
  <2>3. NewRow(i, amount) \in Row /\ NewRow(i, amount).status = "open"
    BY NewRowType DEF NewRow
  <2>4. Billed(k, NewRow(i, amount))
    BY <1>3, <2>1, <2>2, <2>3 DEF RegenInsert, Billed, ledger
  <2>5. QED
    BY <2>3, <2>4 DEF Change
<1>4. QED
  BY <1>1, <1>2, <1>3 DEF Regenerate

LEMMA SettleChanges ==
  ASSUME EInv, NEW w \in Workers, Settle(w)
  PROVE  Change
<1>1. ASSUME UNCHANGED <<charge, ledger, reopenLog>> PROVE Change
  BY <1>1, Untouched DEF ledger, Change
<1>2. CASE SettleCommit(w)
  <2>1. PICK k \in Keys, credit \in Nat : k = req[w].key /\ credit = req[w].credit
    BY <1>2, Current DEF SettleCommit, OneCharge
  <2>2. /\ req[w].ents[k] = charge[k] /\ req[w].base[k] = charge[k] /\ IsOpen(k)
        /\ charge[k] \in Row /\ credit <= charge[k].due /\ credit <= balance[k[1]]
        /\ req[w].receipt \in Receipts \cup {None}
    BY <1>2, <2>1, Current DEF SettleCommit, OneCharge, Fresh
  <2>3. PICK income \in Incomes \cup {None}, bank \in BOOLEAN :
           /\ Payable(k, charge[k], credit, income, bank)
           /\ charge' = [charge EXCEPT ![k] = Stored(k, charge[k],
                            AsPaid(charge[k], income, bank, req[w].receipt))]
    BY <1>2, <2>1, <2>2 DEF SettleCommit
  <2>4. PICK ent \in Row : ent = AsPaid(charge[k], income, bank, req[w].receipt)
    BY <2>2 DEF AsPaid, Row
  <2>5. /\ ent.id = charge[k].id /\ ent.status = "paid" /\ ent.due = charge[k].due
        /\ ent.income = income /\ ent.bank = bank
    BY <2>2, <2>4 DEF AsPaid, Row
  <2>6. charge' = [charge EXCEPT ![k] = ent]
    BY <2>2, <2>3, <2>4, <2>5, StoredOver
  <2>7. ent.income = None /\ ~ ent.bank => credit = ent.due
    <3>1. charge[k].due \in Nat
      BY <2>2 DEF Row
    <3>2. income = None /\ ~ bank => NetDue(charge[k].due, credit) <= 0
      BY <2>3, <3>1 DEF Payable, NetDue, AtLeastZero
    <3>3. income = None /\ ~ bank => credit = charge[k].due
      BY <2>2, <3>1, <3>2 DEF NetDue, AtLeastZero
    <3>4. QED
      BY <2>5, <3>3
  <2>8. Paid(k, ent, credit)
    BY <1>2, <2>1, <2>2, <2>5, <2>6, <2>7 DEF SettleCommit, Paid
  <2>9. QED
    BY <2>8 DEF Change
<1>3. QED
  BY <1>1, <1>2 DEF Settle, SettleRead, SettleBegin

LEMMA ReopenChanges ==
  ASSUME MaxReopens <= 1, EInv, NEW w \in Workers, Reopen(w)
  PROVE  Change
<1>1. ASSUME UNCHANGED <<charge, ledger, reopenLog>> PROVE Change
  BY <1>1, Untouched DEF ledger, Change
<1>2. CASE ReopenCommit(w)
  <2>1. PICK k \in Keys : k = req[w].key
    BY <1>2, Current DEF ReopenCommit, OneCharge
  <2>2. /\ req[w].ents[k] = charge[k] /\ req[w].base[k] = charge[k] /\ IsPaid(k)
        /\ charge[k] \in Row /\ req[w].credit = applied[k] /\ reopenLog[k] < MaxReopens
        /\ Exact(k)
    BY <1>2, <2>1, Current DEF ReopenCommit, OneCharge, Fresh
  <2>3. PICK ent \in Row : ent = [charge[k] EXCEPT !.status = "open", !.income = None,
                                                   !.bank = FALSE, !.receipt = None]
    BY <2>2 DEF Row
  <2>4. ent.id = charge[k].id /\ ent.status = "open"
    BY <2>2, <2>3 DEF Row
  <2>5. charge' = [charge EXCEPT ![k] = Stored(k, charge[k], ent)]
    BY <1>2, <2>1, <2>2, <2>3 DEF ReopenCommit
  <2>6. charge' = [charge EXCEPT ![k] = ent]
    BY <2>2, <2>4, <2>5, StoredOver
  <2>7. restored[k] = 0 /\ applied[k] \in Nat
    BY <2>2, ConstantsAssumption DEF Exact, EInv, TInv, TypeOK
  <2>8. restored' = [restored EXCEPT ![k] = applied[k]]
    <3>1. restored' = [restored EXCEPT ![k] = restored[k] + applied[k]]
      BY <1>2, <2>1, <2>2 DEF ReopenCommit
    <3>2. restored[k] + applied[k] = applied[k]
      BY <2>7
    <3>3. QED
      BY <3>1, <3>2
  <2>9. Reopened(k, ent)
    BY <1>2, <2>1, <2>2, <2>4, <2>6, <2>7, <2>8 DEF ReopenCommit, Reopened
  <2>10. QED
    BY <2>9 DEF Change
<1>3. QED
  BY <1>1, <1>2 DEF Reopen, ReopenRead, ReopenBegin

LEMMA ReplaceReceiptChanges ==
  ASSUME EInv, NEW w \in Workers, ReplaceReceipt(w)
  PROVE  Change
<1>1. ASSUME UNCHANGED <<charge, ledger, reopenLog>> PROVE Change
  BY <1>1, Untouched DEF ledger, Change
<1>2. CASE ReplaceCommit(w)
  <2>1. PICK k \in Keys : k = req[w].key
    BY <1>2, Current DEF ReplaceCommit, OneCharge
  <2>2. /\ req[w].ents[k] = charge[k] /\ req[w].base[k] = charge[k]
        /\ charge[k] \in Row /\ req[w].receipt \in Receipts \cup {None}
    BY <1>2, <2>1, Current DEF ReplaceCommit, OneCharge, Fresh
  <2>3. PICK ent \in Row : ent = [charge[k] EXCEPT !.receipt = req[w].receipt]
    BY <2>2 DEF Row
  <2>4. ent.id = charge[k].id /\ ent.status = charge[k].status /\ ent.due = charge[k].due
    BY <2>2, <2>3 DEF Row
  <2>5. charge' = [charge EXCEPT ![k] = Stored(k, charge[k], ent)]
    BY <1>2, <2>1, <2>2, <2>3 DEF ReplaceCommit
  <2>6. charge' = [charge EXCEPT ![k] = ent]
    BY <2>2, <2>4, <2>5, StoredOver
  <2>7. charge'[k] = ent /\ ent # None /\ charge[k] # None
    BY <2>2, <2>6, ConstantsAssumption DEF EInv, TInv, TypeOK
  <2>8. \A c \in Keys : Same(c)
    BY <2>4, <2>6, <2>7 DEF Same, IsPaid, EInv, TInv, TypeOK
  <2>9. QED
    BY <1>2, <2>8 DEF Change, Reworded, ReplaceCommit, ledger
<1>3. QED
  BY <1>1, <1>2 DEF ReplaceReceipt, ReplaceRead, ReplaceBegin, ReplaceDelete

LEMMA ChangeDueDateChanges ==
  ASSUME EInv, NEW w \in Workers, ChangeDueDate(w)
  PROVE  Change
<1>1. ASSUME UNCHANGED <<charge, ledger, reopenLog>> PROVE Change
  BY <1>1, Untouched DEF ledger, Change
<1>2. CASE DueWrite(w)
  <2>1. PICK d \in DueDates :
           charge' = [k \in Keys |-> IF req[w].ents[k] = None THEN charge[k]
                                     ELSE Stored(k, req[w].base[k],
                                                 [req[w].ents[k] EXCEPT !.dueOn = d])]
    BY <1>2 DEF DueWrite
  <2>2. ASSUME NEW k \in Keys PROVE Same(k)
    <3>1. CASE req[w].ents[k] = None
      BY <2>1, <3>1 DEF Same, IsPaid
    <3>2. CASE req[w].ents[k] # None
      <4>1. req[w].ents[k] = charge[k] /\ req[w].base[k] = charge[k]
        BY <1>2, <3>2 DEF DueWrite, EInv, Fresh
      <4>2. charge[k] \in Row
        BY <3>2, <4>1 DEF EInv, TInv, TypeOK, RowOrNone
      <4>3. PICK ent \in Row : ent = [charge[k] EXCEPT !.dueOn = d]
        BY <4>2 DEF Row
      <4>4. ent.id = charge[k].id /\ ent.status = charge[k].status /\ ent.due = charge[k].due
        BY <4>2, <4>3 DEF Row
      <4>5. Stored(k, charge[k], ent) = ent
        BY <4>2, <4>4, StoredOver
      <4>6. charge'[k] = ent
        BY <2>1, <3>2, <4>1, <4>3, <4>5
      <4>7. ent # None /\ charge[k] # None
        BY <3>2, <4>1, ConstantsAssumption
      <4>8. QED
        BY <4>4, <4>6, <4>7 DEF Same
    <3>3. QED
      BY <3>1, <3>2
  <2>3. QED
    BY <1>2, <2>2 DEF Change, Reworded, DueWrite, ledger
<1>3. QED
  BY <1>1, <1>2 DEF ChangeDueDate, DueRead, DueLoad

LEMMA NextChanges ==
  ASSUME MaxReopens <= 1, EInv, [Next]_vars
  PROVE  Change
<1>1. ASSUME UNCHANGED <<charge, ledger, reopenLog>> PROVE Change
  BY <1>1, Untouched DEF ledger, Change
<1>2. ASSUME NEW w \in Workers, Fail(w) PROVE Change
  BY <1>1, <1>2 DEF Fail
<1>3. ASSUME NEW u \in Units, NEW amount \in Advances, Advance(u, amount) PROVE Change
  BY <1>3 DEF Advance, Change, Deposited
<1>4. ASSUME NEW r \in Receipts, Upload(r) PROVE Change
  BY <1>1, <1>4 DEF Upload
<1>5. CASE UNCHANGED vars
  BY <1>1, <1>5 DEF vars, ledger
<1>6. ASSUME NEW w \in Workers,
             \/ Close(w) \/ Regenerate(w) \/ Settle(w) \/ Reopen(w)
             \/ ChangeDueDate(w) \/ ReplaceReceipt(w)
      PROVE  Change
  BY <1>6, CloseChanges, RegenerateChanges, SettleChanges, ReopenChanges,
     ChangeDueDateChanges, ReplaceReceiptChanges
<1>7. QED
  BY <1>2, <1>3, <1>4, <1>5, <1>6 DEF Next

-----------------------------------------------------------------------------
\* A change of the books keeps them exact and no balance below zero.
LEMMA ChangeKeepsBooks ==
  ASSUME EInv, TInv', Change
  PROVE  (\A k \in Keys : Exact(k)') /\ \A u \in Units : balance'[u] >= 0
<1> USE DEF TInv, TypeOK
<1>1. CASE Reworded
  <2>1. ASSUME NEW k \in Keys PROVE Exact(k)'
    BY <1>1 DEF EInv, Reworded, Same, Exact, IsPaid, Held
  <2>2. QED
    BY <1>1, <2>1 DEF EInv, Reworded
<1>2. ASSUME NEW k \in Keys, NEW row \in Row, Billed(k, row)
      PROVE  (\A c \in Keys : Exact(c)') /\ \A u \in Units : balance'[u] >= 0
  <2>1. charge'[k] = row /\ row.status = "open" /\ charge[k] = None
        /\ (\A c \in Keys \ {k} : charge'[c] = charge[c])
        /\ UNCHANGED <<balance, applied, restored, reopenLog>>
    BY <1>2 DEF EInv, Billed
  <2>2. Exact(k)'
    BY <2>1 DEF EInv, Exact, IsPaid, Held
  <2>3. ASSUME NEW c \in Keys \ {k} PROVE Exact(c)'
    BY <2>1 DEF EInv, Exact, IsPaid, Held
  <2>4. QED
    BY <2>1, <2>2, <2>3 DEF EInv
<1>3. ASSUME NEW k \in Keys, NEW row \in Row, Reopened(k, row)
      PROVE  (\A c \in Keys : Exact(c)') /\ \A u \in Units : balance'[u] >= 0
  <2>1. /\ charge'[k] = row /\ row.status = "open" /\ restored'[k] = applied[k]
        /\ reopenLog'[k] = reopenLog[k] + 1 /\ reopenLog[k] \in Nat /\ applied[k] \in Nat
        /\ applied' = applied
        /\ \A c \in Keys \ {k} : /\ charge'[c] = charge[c] /\ restored'[c] = restored[c]
                                 /\ reopenLog'[c] = reopenLog[c]
    BY <1>3 DEF EInv, Reopened
  <2>2. Exact(k)'
    BY <2>1 DEF Exact, IsPaid, Held
  <2>3. ASSUME NEW c \in Keys \ {k} PROVE Exact(c)'
    BY <2>1 DEF EInv, Exact, IsPaid, Held
  <2>4. ASSUME NEW u \in Units PROVE balance'[u] >= 0
    <3>1. k[1] \in Units /\ balance[u] >= 0 /\ balance[u] \in Int /\ balance' = [balance EXCEPT ![k[1]] = @ + applied[k]]
      BY <1>3, KeysArePairs DEF EInv, Reopened
    <3>2. QED
      BY <2>1, <3>1 DEF EInv
  <2>5. QED
    BY <2>2, <2>3, <2>4
<1>4. ASSUME NEW k \in Keys, NEW row \in Row, NEW credit \in Nat, Paid(k, row, credit)
      PROVE  (\A c \in Keys : Exact(c)') /\ \A u \in Units : balance'[u] >= 0
  <2>1. /\ charge'[k] = row /\ row.status = "paid" /\ credit <= row.due
        /\ applied'[k] = applied[k] + credit /\ applied[k] \in Nat /\ restored[k] \in Nat
        /\ restored' = restored /\ reopenLog' = reopenLog
        /\ \A c \in Keys \ {k} : charge'[c] = charge[c] /\ applied'[c] = applied[c]
    BY <1>4 DEF EInv, Paid
  <2>2. Held(k) = 0 /\ (reopenLog[k] = 0 => restored[k] = 0)
    BY <1>4 DEF EInv, Exact, Paid, IsOpen, IsPaid
  <2>3. row.due \in Nat
    BY DEF Row
  <2>4. Held(k)' = credit
    BY <2>1, <2>2 DEF Held
  <2>5. IsPaid(k)'
    BY <2>1, ConstantsAssumption DEF IsPaid
  <2>6. Exact(k)'
    BY <2>1, <2>2, <2>3, <2>4, <2>5 DEF Exact
  <2>7. ASSUME NEW c \in Keys \ {k} PROVE Exact(c)'
    BY <2>1 DEF EInv, Exact, IsPaid, Held
  <2>8. ASSUME NEW u \in Units PROVE balance'[u] >= 0
    <3>1. k[1] \in Units /\ balance[u] >= 0 /\ balance[u] \in Int /\ credit <= balance[k[1]]
          /\ balance' = [balance EXCEPT ![k[1]] = @ - credit]
      BY <1>4, KeysArePairs DEF EInv, Paid
    <3>2. QED
      BY <3>1 DEF EInv
  <2>9. QED
    BY <2>6, <2>7, <2>8
<1>5. ASSUME NEW m \in Months, Withdrawn(m)
      PROVE  (\A c \in Keys : Exact(c)') /\ \A u \in Units : balance'[u] >= 0
  <2>1. ASSUME NEW c \in Keys, c[2] = m PROVE Exact(c)'
    <3>1. charge'[c] = None /\ applied'[c] = 0 /\ restored'[c] = 0
      BY <1>5, <2>1 DEF Withdrawn, OfMonth
    <3>2. QED
      BY <3>1 DEF Exact, IsPaid, Held
  <2>2. ASSUME NEW c \in Keys, c[2] # m PROVE Exact(c)'
    <3>1. charge'[c] = charge[c] /\ applied'[c] = applied[c] /\ restored'[c] = restored[c]
          /\ reopenLog'[c] = reopenLog[c]
      BY <1>5, <2>2 DEF Withdrawn, OfMonth
    <3>2. QED
      BY <3>1 DEF EInv, Exact, IsPaid, Held
  <2>3. QED
    BY <1>5, <2>1, <2>2 DEF EInv, Withdrawn
<1>6. ASSUME NEW u \in Units, NEW amount \in Advances, Deposited(u, amount)
      PROVE  (\A c \in Keys : Exact(c)') /\ \A v \in Units : balance'[v] >= 0
  <2>1. ASSUME NEW c \in Keys PROVE Exact(c)'
    BY <1>6 DEF EInv, Deposited, Exact, IsPaid, Held
  <2>2. amount \in Nat
    BY ConstantsAssumption
  <2>3. QED
    BY <1>6, <2>1, <2>2 DEF EInv, Deposited
<1>7. QED
  BY <1>1, <1>2, <1>3, <1>4, <1>5, <1>6 DEF Change

\* Requests that have read no charge, or none that matters any more.
Unloaded == {"idle", "close_unit", "regen_insert", "replace_delete"}

LEMMA UnloadedIsFresh ==
  ASSUME NEW w \in Workers, req'[w].pc \in Unloaded
  PROVE  Fresh(req[w])'
  BY DEF Fresh, Unloaded, OneCharge

\* A request that reads the charges leaves them as they are.
LEMMA FreshReads ==
  ASSUME TInv, NEW w \in Workers, NEW r, Fresh(r), req' = [req EXCEPT ![w] = r],
         UNCHANGED <<charge, balance, applied, reopenLog>>
  PROVE  Fresh(req[w])'
<1>1. req'[w] = r
  BY DEF TInv, TypeOK
<1>2. QED
  BY <1>1 DEF Fresh, IsPaid, IsOpen, NothingPaid

LEMMA CloseFresh ==
  ASSUME EInv, NEW w \in Workers, Close(w)
  PROVE  Fresh(req[w])'
<1> USE DEF ledger
<1>1. ASSUME NEW m \in Months, CloseStart(w, m) PROVE Fresh(req[w])'
  <2>1. req'[w].pc = "close_unit"
    BY <1>1, IdleIsRequest DEF CloseStart, EInv, TInv, TypeOK, Request
  <2>2. QED
    BY <2>1, UnloadedIsFresh DEF Unloaded
<1>2. ASSUME NEW u \in Units, CloseRead(w, u) PROVE Fresh(req[w])'
  <2> DEFINE k == <<u, req[w].month>>
             pc == IF charge[k] = None THEN "close_write" ELSE "close_load"
             r == [req[w] EXCEPT !.pc = pc, !.key = k, !.ents[k] = charge[k]]
  <2>1. k \in Keys
    BY <1>2 DEF CloseRead, EInv, TInv, WellFormed, Keys
  <2>2. req' = [req EXCEPT ![w] = r] /\ ~ IsPaid(k)
        /\ UNCHANGED <<charge, balance, applied, reopenLog>>
    BY <1>2 DEF CloseRead
  <2>3. req[w] \in Request
    BY DEF EInv, TInv, TypeOK
  <2>4. /\ pc \in {"close_write", "close_load"}
        /\ pc = "close_write" => charge[k] = None
    OBVIOUS
  <2> HIDE DEF k, pc
  <2>5. r.pc = pc /\ r.key = k /\ r.ents[k] = charge[k]
    BY <2>1, <2>3 DEF Request
  <2> HIDE DEF r
  <2>6. Fresh(r)
    BY <2>2, <2>4, <2>5 DEF Fresh, OneCharge
  <2>7. QED
    BY <2>2, <2>6, FreshReads DEF EInv
<1>3. ASSUME NEW u \in Units, CloseSkip(w, u) PROVE Fresh(req[w])'
  <2>1. req'[w].pc \in {"idle", "close_unit"}
    BY <1>3, IdleIsRequest DEF CloseSkip, EInv, TInv, TypeOK, Request
  <2>2. QED
    BY <2>1, UnloadedIsFresh DEF Unloaded
<1>4. CASE CloseLoad(w)
  <2> DEFINE k == req[w].key
             row == RowOf(k, req[w].ents[k])
             r == [req[w] EXCEPT !.pc = "close_write", !.base[k] = row]
  <2>1. /\ k \in Keys /\ req[w].ents[k] = charge[k] /\ ~ IsPaid(k) /\ charge[k] \in Row
        /\ req[w] \in Request
    BY <1>4, Current DEF CloseLoad, OneCharge, Fresh, EInv, TInv, TypeOK
  <2>2. row = charge[k]
    BY <2>1, ConstantsAssumption DEF RowOf, SameRow
  <2>3. req' = [req EXCEPT ![w] = r] /\ UNCHANGED <<charge, balance, applied, reopenLog>>
    BY <1>4 DEF CloseLoad
  <2> HIDE DEF row
  <2>4. r.pc = "close_write" /\ r.key = k /\ r.ents[k] = charge[k] /\ r.base[k] = charge[k]
    BY <2>1, <2>2 DEF Request
  <2> HIDE DEF k, r
  <2>5. Fresh(r)
    BY <2>1, <2>4 DEF Fresh, OneCharge
  <2>6. QED
    BY <2>3, <2>5, FreshReads DEF EInv
<1>5. CASE CloseInsert(w) \/ CloseUpdate(w)
  <2>1. NextUnit(w, "close_unit")
    BY <1>5 DEF CloseInsert, CloseUpdate
  <2>2. req'[w].pc \in {"idle", "close_unit"}
    BY <2>1, IdleIsRequest DEF NextUnit, EInv, TInv, TypeOK, Request
  <2>3. QED
    BY <2>2, UnloadedIsFresh DEF Unloaded
<1>6. QED
  BY <1>1, <1>2, <1>3, <1>4, <1>5 DEF Close

LEMMA RegenerateFresh ==
  ASSUME EInv, NEW w \in Workers, Regenerate(w)
  PROVE  Fresh(req[w])'
<1> USE DEF ledger
<1>1. ASSUME NEW m \in Months, RegenStart(w, m) PROVE Fresh(req[w])'
  <2> DEFINE r == [Idle EXCEPT !.pc = "regen_delete", !.month = m]
  <2>1. r.pc = "regen_delete" /\ r.month = m
    BY IdleIsRequest DEF Request
  <2>2. req' = [req EXCEPT ![w] = r] /\ NothingPaid(m)
        /\ UNCHANGED <<charge, balance, applied, reopenLog>>
    BY <1>1 DEF RegenStart
  <2> HIDE DEF r
  <2>3. Fresh(r)
    BY <2>1, <2>2 DEF Fresh, OneCharge
  <2>4. QED
    BY <2>2, <2>3, FreshReads DEF EInv
<1>2. CASE RegenDelete(w)
  <2>1. req'[w].pc = "regen_insert"
    BY <1>2 DEF RegenDelete, EInv, TInv, TypeOK, Request
  <2>2. QED
    BY <2>1, UnloadedIsFresh DEF Unloaded
<1>3. ASSUME NEW u \in Units, RegenInsert(w, u) PROVE Fresh(req[w])'
  <2>1. req'[w].pc \in {"idle", "regen_insert"}
    BY <1>3, IdleIsRequest DEF RegenInsert, EInv, TInv, TypeOK, Request
  <2>2. QED
    BY <2>1, UnloadedIsFresh DEF Unloaded
<1>4. QED
  BY <1>1, <1>2, <1>3 DEF Regenerate

\* The transaction of settle allocates no more than the charge is due and the unit has.
LEMMA AllocatedIsCovered ==
  ASSUME EInv, NEW k \in Keys, IsOpen(k),
         NEW remaining \in FifoWalks(AtLeastZero(balance[k[1]]), OpenDue(k[1]))
  PROVE  /\ AllocatedCredit(k, charge[k], remaining) \in Nat
         /\ AllocatedCredit(k, charge[k], remaining) <= charge[k].due
         /\ AllocatedCredit(k, charge[k], remaining) <= balance[k[1]]
<1>1. k[1] \in Units /\ k[2] \in Months /\ k = <<k[1], k[2]>>
  BY KeysArePairs
<1>2. balance[k[1]] \in Nat /\ AtLeastZero(balance[k[1]]) = balance[k[1]]
  BY <1>1 DEF EInv, TInv, TypeOK, AtLeastZero
<1>3. OpenDue(k[1]) \in [Months -> Nat]
  BY <1>1, OpenDueType DEF EInv, TInv
<1>4. OpenDue(k[1])[k[2]] = charge[k].due
  BY <1>1 DEF OpenDue
<1>5. /\ remaining[k[2] - 1] \in 0 .. balance[k[1]]
      /\ remaining[k[2] - 1] - remaining[k[2]] \in 0 .. Lesser(charge[k].due, remaining[k[2] - 1])
  BY <1>1, <1>2, <1>3, <1>4, WalkSpends
<1>6. AllocatedCredit(k, charge[k], remaining) = remaining[k[2] - 1] - remaining[k[2]]
  BY DEF AllocatedCredit, SameRow, IsOpen
<1>7. charge[k].due \in Nat
  BY DEF IsOpen, EInv, TInv, TypeOK, RowOrNone, Row
<1>8. QED
  BY <1>2, <1>5, <1>6, <1>7 DEF Lesser

LEMMA SettleFresh ==
  ASSUME EInv, NEW w \in Workers, Settle(w)
  PROVE  Fresh(req[w])'
<1> USE DEF ledger
<1>1. ASSUME NEW k \in Keys, NEW c \in Receipts \cup {None}, SettleRead(w, k, c)
      PROVE  Fresh(req[w])'
  <2> DEFINE r == [Idle EXCEPT !.pc = "settle_begin", !.key = k,
                               !.ents[k] = charge[k], !.receipt = c]
  <2>1. r.pc = "settle_begin" /\ r.key = k /\ r.ents[k] = charge[k]
    BY IdleIsRequest DEF Request
  <2>2. req' = [req EXCEPT ![w] = r] /\ IsOpen(k)
        /\ UNCHANGED <<charge, balance, applied, reopenLog>>
    BY <1>1 DEF SettleRead
  <2> HIDE DEF r
  <2>3. Fresh(r)
    BY <2>1, <2>2 DEF Fresh, OneCharge
  <2>4. QED
    BY <2>2, <2>3, FreshReads DEF EInv
<1>2. CASE SettleBegin(w)
  <2> DEFINE k == req[w].key
             ent == req[w].ents[k]
             row == RowOf(k, ent)
             r(credit) == [req[w] EXCEPT !.pc = "settle_commit", !.base[k] = row,
                                         !.credit = credit]
  <2>1. /\ k \in Keys /\ ent = charge[k] /\ IsOpen(k) /\ req[w] \in Request
    BY <1>2, Current DEF SettleBegin, OneCharge, Fresh, EInv, TInv, TypeOK
  <2>2. row = charge[k]
    BY <2>1 DEF RowOf, SameRow, IsOpen
  <2>3. PICK remaining \in FifoWalks(AtLeastZero(balance[k[1]]), OpenDue(k[1])) :
           req' = [req EXCEPT ![w] = r(AllocatedCredit(k, ent, remaining))]
    BY <1>2 DEF SettleBegin
  <2>4. PICK credit \in Nat : /\ req' = [req EXCEPT ![w] = r(credit)]
                              /\ credit <= charge[k].due /\ credit <= balance[k[1]]
    BY <2>1, <2>3, AllocatedIsCovered
  <2>5. UNCHANGED <<charge, balance, applied, reopenLog>>
    BY <1>2 DEF SettleBegin
  <2> HIDE DEF row
  <2>6. /\ r(credit).pc = "settle_commit" /\ r(credit).key = k /\ r(credit).ents = req[w].ents
        /\ r(credit).base[k] = charge[k] /\ r(credit).credit = credit
    BY <2>1, <2>2 DEF Request
  <2>7. r(credit).ents[k] = charge[k]
    BY <2>1, <2>6
  <2> HIDE DEF k, r
  <2>8. Fresh(r(credit))
    BY <2>1, <2>4, <2>6, <2>7 DEF Fresh, OneCharge
  <2>9. QED
    BY <2>4, <2>5, <2>8, FreshReads DEF EInv
<1>3. CASE SettleCommit(w)
  <2>1. req'[w].pc = "idle"
    BY <1>3, IdleIsRequest DEF SettleCommit, Finish, EInv, TInv, TypeOK
  <2>2. QED
    BY <2>1, UnloadedIsFresh DEF Unloaded
<1>4. QED
  BY <1>1, <1>2, <1>3 DEF Settle

LEMMA ReopenFresh ==
  ASSUME EInv, NEW w \in Workers, Reopen(w)
  PROVE  Fresh(req[w])'
<1> USE DEF ledger
<1>1. ASSUME NEW k \in Keys, ReopenRead(w, k) PROVE Fresh(req[w])'
  <2> DEFINE r == [Idle EXCEPT !.pc = "reopen_begin", !.key = k, !.ents[k] = charge[k]]
  <2>1. r.pc = "reopen_begin" /\ r.key = k /\ r.ents[k] = charge[k]
    BY IdleIsRequest DEF Request
  <2>2. req' = [req EXCEPT ![w] = r] /\ IsPaid(k) /\ reopenLog[k] < MaxReopens
        /\ UNCHANGED <<charge, balance, applied, reopenLog>>
    BY <1>1 DEF ReopenRead
  <2> HIDE DEF r
  <2>3. Fresh(r)
    BY <2>1, <2>2 DEF Fresh, OneCharge
  <2>4. QED
    BY <2>2, <2>3, FreshReads DEF EInv
<1>2. CASE ReopenBegin(w)
  <2> DEFINE k == req[w].key
             ent == req[w].ents[k]
             row == RowOf(k, ent)
             credit == IF SameRow(k, ent) THEN CreditToRestore(k) ELSE 0
             r == [req[w] EXCEPT !.pc = "reopen_commit", !.base[k] = row, !.credit = credit]
  <2>1. /\ k \in Keys /\ ent = charge[k] /\ IsPaid(k) /\ reopenLog[k] < MaxReopens
        /\ req[w] \in Request
    BY <1>2, Current DEF ReopenBegin, OneCharge, Fresh, EInv, TInv, TypeOK
  <2>2. row = charge[k] /\ credit = applied[k]
    BY <2>1 DEF RowOf, SameRow, IsPaid, CreditToRestore
  <2>3. req' = [req EXCEPT ![w] = r] /\ UNCHANGED <<charge, balance, applied, reopenLog>>
    BY <1>2 DEF ReopenBegin
  <2> HIDE DEF row, credit
  <2>4. /\ r.pc = "reopen_commit" /\ r.key = k /\ r.ents = req[w].ents
        /\ r.base[k] = charge[k] /\ r.credit = applied[k]
    BY <2>1, <2>2 DEF Request
  <2>5. r.ents[k] = charge[k]
    BY <2>1, <2>4
  <2> HIDE DEF k, r
  <2>6. Fresh(r)
    BY <2>1, <2>4, <2>5 DEF Fresh, OneCharge
  <2>7. QED
    BY <2>3, <2>6, FreshReads DEF EInv
<1>3. CASE ReopenCommit(w)
  <2>1. req'[w].pc = "idle"
    BY <1>3, IdleIsRequest DEF ReopenCommit, Finish, EInv, TInv, TypeOK
  <2>2. QED
    BY <2>1, UnloadedIsFresh DEF Unloaded
<1>4. QED
  BY <1>1, <1>2, <1>3 DEF Reopen

LEMMA ReplaceReceiptFresh ==
  ASSUME EInv, NEW w \in Workers, ReplaceReceipt(w)
  PROVE  Fresh(req[w])'
<1> USE DEF ledger
<1>1. ASSUME NEW k \in Keys, NEW c \in Receipts, ReplaceRead(w, k, c) PROVE Fresh(req[w])'
  <2> DEFINE r == [Idle EXCEPT !.pc = "replace_begin", !.key = k,
                               !.ents[k] = charge[k], !.receipt = c]
  <2>1. r.pc = "replace_begin" /\ r.key = k /\ r.ents[k] = charge[k]
    BY IdleIsRequest DEF Request
  <2>2. req' = [req EXCEPT ![w] = r] /\ IsPaid(k)
        /\ UNCHANGED <<charge, balance, applied, reopenLog>>
    BY <1>1 DEF ReplaceRead
  <2> HIDE DEF r
  <2>3. Fresh(r)
    BY <2>1, <2>2 DEF Fresh, OneCharge
  <2>4. QED
    BY <2>2, <2>3, FreshReads DEF EInv
<1>2. CASE ReplaceBegin(w)
  <2> DEFINE k == req[w].key
             row == RowOf(k, req[w].ents[k])
             r == [req[w] EXCEPT !.pc = "replace_commit", !.base[k] = row]
  <2>1. k \in Keys /\ req[w].ents[k] = charge[k] /\ IsPaid(k) /\ req[w] \in Request
    BY <1>2, Current DEF ReplaceBegin, OneCharge, Fresh, EInv, TInv, TypeOK
  <2>2. row = charge[k]
    BY <2>1 DEF RowOf, SameRow, IsPaid
  <2>3. req' = [req EXCEPT ![w] = r] /\ UNCHANGED <<charge, balance, applied, reopenLog>>
    BY <1>2 DEF ReplaceBegin
  <2> HIDE DEF row
  <2>4. r.pc = "replace_commit" /\ r.key = k /\ r.ents[k] = charge[k] /\ r.base[k] = charge[k]
    BY <2>1, <2>2 DEF Request
  <2> HIDE DEF k, r
  <2>5. Fresh(r)
    BY <2>1, <2>4 DEF Fresh, OneCharge
  <2>6. QED
    BY <2>3, <2>5, FreshReads DEF EInv
<1>3. CASE ReplaceCommit(w)
  <2>1. req'[w].pc \in {"idle", "replace_delete"}
    BY <1>3, IdleIsRequest DEF ReplaceCommit, EInv, TInv, TypeOK, Request
  <2>2. QED
    BY <2>1, UnloadedIsFresh DEF Unloaded
<1>4. CASE ReplaceDelete(w)
  <2>1. req'[w].pc = "idle"
    BY <1>4, IdleIsRequest DEF ReplaceDelete, Finish, EInv, TInv, TypeOK
  <2>2. QED
    BY <2>1, UnloadedIsFresh DEF Unloaded
<1>5. QED
  BY <1>1, <1>2, <1>3, <1>4 DEF ReplaceReceipt

LEMMA ChangeDueDateFresh ==
  ASSUME EInv, NEW w \in Workers, ChangeDueDate(w)
  PROVE  Fresh(req[w])'
<1> USE DEF ledger
<1>1. ASSUME NEW ks \in SUBSET Keys, DueRead(w, ks) PROVE Fresh(req[w])'
  <2> DEFINE ents == [k \in Keys |-> IF k \in ks THEN charge[k] ELSE None]
             r == [Idle EXCEPT !.pc = "due_load", !.ents = ents]
  <2>1. r.pc = "due_load" /\ r.ents = ents
    BY IdleIsRequest DEF Request
  <2>2. req' = [req EXCEPT ![w] = r] /\ UNCHANGED <<charge, balance, applied, reopenLog>>
    BY <1>1 DEF DueRead
  <2>3. \A k \in Keys : ents[k] # None => ents[k] = charge[k]
    OBVIOUS
  <2> HIDE DEF ents, r
  <2>4. Fresh(r)
    BY <2>1, <2>3 DEF Fresh, OneCharge
  <2>5. QED
    BY <2>2, <2>4, FreshReads DEF EInv
<1>2. CASE DueLoad(w)
  <2> DEFINE ents == req[w].ents
             base == [k \in Keys |-> IF ents[k] = None THEN None ELSE RowOf(k, ents[k])]
             r == [req[w] EXCEPT !.pc = "due_write", !.base = base]
  <2>1. req[w] \in Request /\ \A k \in Keys : ents[k] # None => ents[k] = charge[k]
    BY <1>2 DEF DueLoad, Fresh, EInv, TInv, TypeOK
  <2>2. \A k \in Keys : ents[k] # None => base[k] = charge[k]
    BY <2>1 DEF RowOf, SameRow
  <2>3. req' = [req EXCEPT ![w] = r] /\ UNCHANGED <<charge, balance, applied, reopenLog>>
    BY <1>2 DEF DueLoad
  <2> HIDE DEF base
  <2>4. r.pc = "due_write" /\ r.ents = ents /\ r.base = base
    BY <2>1 DEF Request
  <2> HIDE DEF ents, r
  <2>5. Fresh(r)
    BY <2>1, <2>2, <2>4 DEF Fresh, OneCharge
  <2>6. QED
    BY <2>3, <2>5, FreshReads DEF EInv
<1>3. CASE DueWrite(w)
  <2>1. req'[w].pc = "idle"
    BY <1>3, IdleIsRequest DEF DueWrite, Finish, EInv, TInv, TypeOK
  <2>2. QED
    BY <2>1, UnloadedIsFresh DEF Unloaded
<1>4. QED
  BY <1>1, <1>2, <1>3 DEF ChangeDueDate

\* An advance payment comes in while a request runs: the unit has more, the rest is as it was.
LEMMA FreshAfterAdvance ==
  ASSUME EInv, NEW u \in Units, NEW amount \in Advances, Advance(u, amount), NEW w \in Workers
  PROVE  Fresh(req[w])'
<1>1. UNCHANGED <<charge, applied, reopenLog, req>> /\ balance' = [balance EXCEPT ![u] = @ + amount]
  BY DEF Advance
<1>2. Fresh(req[w]) /\ (req[w].pc \in OneCharge => req[w].key[1] \in Units) /\ amount \in Nat
      /\ req[w].credit \in Nat
  BY Current, ConstantsAssumption DEF EInv, TInv, TypeOK, Request
<1>3. \A v \in Units : balance[v] <= balance'[v] /\ balance[v] \in Int /\ balance'[v] \in Int
  BY <1>1, <1>2 DEF EInv, TInv, TypeOK
<1>4. req[w].pc = "settle_commit" =>
        req[w].credit <= charge[req[w].key].due /\ req[w].credit <= balance'[req[w].key[1]]
  BY <1>2, <1>3 DEF Fresh, OneCharge
<1>5. QED
  BY <1>1, <1>2, <1>4 DEF Fresh, IsPaid, IsOpen, NothingPaid

LEMMA InitBooks == Init => EInv
<1> SUFFICES ASSUME Init PROVE EInv
  OBVIOUS
<1>1. \A k \in Keys : Exact(k)
  BY DEF Init, NothingLoaded, Exact, IsPaid, Held
<1>2. \A w \in Workers : Fresh(req[w])
  BY IdleIsRequest DEF Init, Fresh, OneCharge
<1>3. QED
  BY <1>1, <1>2, InitType DEF EInv, Init

LEMMA NextBooks ==
  ASSUME OneAtATime, MaxReopens <= 1, EInv, [Next]_vars
  PROVE  EInv'
<1>1. TInv' /\ (\A k \in Keys : Exact(k)') /\ \A u \in Units : balance'[u] >= 0
  <2>1. TInv'
    BY NextType DEF EInv
  <2>2. Change
    BY NextChanges
  <2>3. QED
    BY <2>1, <2>2, ChangeKeepsBooks
<1>2. ASSUME NEW w \in Workers, Fresh(req[w])' PROVE EInv'
  <2>1. \A v \in Workers : Fresh(req[v])'
    BY <1>2 DEF OneAtATime
  <2>2. QED
    BY <1>1, <2>1 DEF EInv
<1>3. ASSUME NEW w \in Workers,
             \/ Close(w) \/ Regenerate(w) \/ Settle(w) \/ Reopen(w)
             \/ ChangeDueDate(w) \/ ReplaceReceipt(w)
      PROVE  EInv'
  BY <1>2, <1>3, CloseFresh, RegenerateFresh, SettleFresh, ReopenFresh, ChangeDueDateFresh,
     ReplaceReceiptFresh
<1>4. ASSUME NEW w \in Workers, Fail(w) PROVE EInv'
  <2>1. req'[w].pc = "idle"
    BY <1>4, IdleIsRequest DEF Fail, Finish, EInv, TInv, TypeOK
  <2>2. QED
    BY <1>2, <2>1, UnloadedIsFresh DEF Unloaded
<1>5. ASSUME NEW u \in Units, NEW amount \in Advances, Advance(u, amount) PROVE EInv'
  <2>1. \A w \in Workers : Fresh(req[w])'
    BY <1>5, FreshAfterAdvance
  <2>2. QED
    BY <1>1, <2>1 DEF EInv
<1>6. ASSUME UNCHANGED <<charge, balance, applied, reopenLog, req>> PROVE EInv'
  <2>1. \A w \in Workers : Fresh(req[w])'
    BY <1>6 DEF EInv, Fresh, IsPaid, IsOpen, NothingPaid
  <2>2. QED
    BY <1>1, <2>1 DEF EInv
<1>7. ASSUME NEW r \in Receipts, Upload(r) PROVE EInv'
  BY <1>6, <1>7 DEF Upload, ledger
<1>8. CASE UNCHANGED vars
  BY <1>6, <1>8 DEF vars, ledger
<1>9. QED
  BY <1>3, <1>4, <1>5, <1>7, <1>8 DEF Next

\* For requests one at a time that may fail anywhere, with advance payments
\* coming in meanwhile: the ledger rows of a charge agree with the charge.
THEOREM SerialLedgerExact ==
  ASSUME OneAtATime, MaxReopens <= 1
  PROVE  Spec => []LedgerExact
<1>1. EInv => LedgerExact
  BY DEF EInv, Exact, LedgerExact
<1>2. QED
  BY <1>1, InitBooks, NextBooks, PTL DEF Spec

\* With the same hypotheses a unit never spends credit it does not have.
THEOREM SerialNoOverspend ==
  ASSUME OneAtATime, MaxReopens <= 1
  PROVE  Spec => []NoOverspend
<1>1. EInv => NoOverspend
  BY DEF EInv, NoOverspend
<1>2. QED
  BY <1>1, InitBooks, NextBooks, PTL DEF Spec

\* A paid charge stays in the table, and paid until a reopening that is logged.
THEOREM SerialPaid ==
  ASSUME OneAtATime, MaxReopens <= 1
  PROVE  Spec => PaidUntilReopened
<1> DEFINE Stays(k) == /\ charge'[k] # None
                       /\ charge'[k].status = "paid" \/ reopenLog'[k] = reopenLog[k] + 1
           A == \A k \in Keys : IsPaid(k) => Stays(k)
<1>1. EInv /\ [Next]_vars => A
  <2> SUFFICES ASSUME EInv, [Next]_vars, NEW k \in Keys, IsPaid(k)
               PROVE  Stays(k)
    OBVIOUS
  <2>0. charge \in [Keys -> RowOrNone] /\ reopenLog \in [Keys -> Nat]
        /\ charge[k] # None /\ charge[k].status = "paid"
    BY DEF EInv, TInv, TypeOK, IsPaid
  <2>1. CASE Reworded
    BY <2>0, <2>1 DEF Reworded, Same
  <2>2. ASSUME NEW c \in Keys, NEW row \in Row, Billed(c, row) PROVE Stays(k)
    BY <2>0, <2>2 DEF Billed
  <2>3. ASSUME NEW c \in Keys, NEW row \in Row, Reopened(c, row) PROVE Stays(k)
    BY <2>0, <2>3, ConstantsAssumption DEF Reopened
  <2>4. ASSUME NEW c \in Keys, NEW row \in Row, NEW credit \in Nat, Paid(c, row, credit)
        PROVE  Stays(k)
    BY <2>0, <2>4 DEF Paid, IsOpen
  <2>5. ASSUME NEW m \in Months, Withdrawn(m) PROVE Stays(k)
    <3>1. k[2] # m
      BY <2>5, KeysArePairs DEF Withdrawn, NothingPaid
    <3>2. charge'[k] = charge[k]
      BY <2>5, <3>1 DEF Withdrawn, OfMonth
    <3>3. QED
      BY <2>0, <3>2
  <2>6. ASSUME NEW u \in Units, NEW amount \in Advances, Deposited(u, amount) PROVE Stays(k)
    BY <2>0, <2>6 DEF Deposited
  <2>7. QED
    BY <2>1, <2>2, <2>3, <2>4, <2>5, <2>6, NextChanges DEF Change
<1>2. QED
  BY <1>1, InitBooks, NextBooks, PTL DEF Spec, PaidUntilReopened

\* A charge that is settled with neither an income nor a bank account is one the
\* credit of the unit paid in full.
THEOREM SerialFreePayment ==
  ASSUME OneAtATime, MaxReopens <= 1
  PROVE  Spec => FreePaymentIsCovered
<1> DEFINE Free(k) == /\ ~ IsPaid(k) /\ charge'[k] # None /\ charge'[k].status = "paid"
                      /\ charge'[k].income = None /\ ~ charge'[k].bank
           Covered(k) == applied'[k] - applied[k] = charge'[k].due
           A == \A k \in Keys : Free(k) => Covered(k)
<1>1. EInv /\ [Next]_vars => A
  <2> SUFFICES ASSUME EInv, [Next]_vars, NEW k \in Keys, Free(k)
               PROVE  Covered(k)
    OBVIOUS
  <2>0. charge \in [Keys -> RowOrNone] /\ applied \in [Keys -> Nat]
    BY DEF EInv, TInv, TypeOK
  <2>1. CASE Reworded
    BY <2>0, <2>1 DEF Reworded, Same, IsPaid
  <2>2. ASSUME NEW c \in Keys, NEW row \in Row, Billed(c, row) PROVE Covered(k)
    BY <2>0, <2>2 DEF Billed, IsPaid
  <2>3. ASSUME NEW c \in Keys, NEW row \in Row, Reopened(c, row) PROVE Covered(k)
    BY <2>0, <2>3 DEF Reopened, IsPaid
  <2>4. ASSUME NEW c \in Keys, NEW row \in Row, NEW credit \in Nat, Paid(c, row, credit)
        PROVE  Covered(k)
    <3>1. c = k
      BY <2>0, <2>4 DEF Paid, IsPaid
    <3>2. charge'[k] = row /\ applied'[k] = applied[k] + credit
      BY <2>0, <2>4, <3>1 DEF Paid
    <3>3. credit = row.due
      BY <2>4, <3>2 DEF Paid
    <3>4. QED
      BY <2>0, <3>2, <3>3
  <2>5. ASSUME NEW m \in Months, Withdrawn(m) PROVE Covered(k)
    BY <2>0, <2>5 DEF Withdrawn, OfMonth, IsPaid
  <2>6. ASSUME NEW u \in Units, NEW amount \in Advances, Deposited(u, amount) PROVE Covered(k)
    BY <2>0, <2>6 DEF Deposited, IsPaid
  <2>7. QED
    BY <2>1, <2>2, <2>3, <2>4, <2>5, <2>6, NextChanges DEF Change
<1>2. QED
  BY <1>1, InitBooks, NextBooks, PTL DEF Spec, FreePaymentIsCovered

-----------------------------------------------------------------------------
(***************************************************************************)
(* The charges and their ledger implement FeeLedger.                       *)
(***************************************************************************)
\* A step about one charge leaves the others alone in the books.
LEMMA OthersInLedger ==
  ASSUME NEW k \in Keys,
         \A c \in Keys \ {k} : /\ charge'[c] = charge[c] /\ applied'[c] = applied[c]
                               /\ restored'[c] = restored[c]
  PROVE  /\ [c \in Keys |-> StatusOf(c)]' = [[c \in Keys |-> StatusOf(c)] EXCEPT ![k] = StatusOf(k)']
         /\ [c \in Keys |-> Held(c)]' = [[c \in Keys |-> Held(c)] EXCEPT ![k] = Held(k)']
<1>1. ASSUME NEW c \in Keys \ {k} PROVE StatusOf(c)' = StatusOf(c) /\ Held(c)' = Held(c)
  BY DEF StatusOf, Held
<1>2. QED
  BY <1>1

LEMMA BilledInLedger ==
  ASSUME EInv, NEW k \in Keys, NEW row \in Row, Billed(k, row)
  PROVE  Ledger!LNext
<1>1. /\ charge'[k] = row /\ row # None /\ row.status = "open" /\ charge[k] = None
      /\ UNCHANGED <<applied, restored, balance>>
      /\ \A c \in Keys \ {k} : /\ charge'[c] = charge[c] /\ applied'[c] = applied[c]
                               /\ restored'[c] = restored[c]
  BY ConstantsAssumption DEF Billed, EInv, TInv, TypeOK
<1>2. StatusOf(k) = "none" /\ StatusOf(k)' = "open" /\ Held(k)' = Held(k)
  BY <1>1 DEF StatusOf, Held
<1>3. [c \in Keys |-> StatusOf(c)]' = [[c \in Keys |-> StatusOf(c)] EXCEPT ![k] = "open"]
  BY <1>1, <1>2, OthersInLedger
<1>4. [c \in Keys |-> Held(c)]' = [c \in Keys |-> Held(c)]
  BY <1>1, <1>2, OthersInLedger
<1>5. Ledger!Bill(k)
  BY <1>1, <1>2, <1>3, <1>4 DEF Ledger!Bill
<1>6. QED
  BY <1>5 DEF Ledger!LNext

LEMMA PaidInLedger ==
  ASSUME EInv, NEW k \in Keys, NEW row \in Row, NEW credit \in Nat, Paid(k, row, credit)
  PROVE  Ledger!LNext
<1>1. /\ charge'[k] = row /\ row # None /\ row.status = "paid" /\ IsOpen(k)
      /\ applied'[k] = applied[k] + credit /\ restored' = restored
      /\ applied[k] \in Nat /\ restored[k] \in Nat
      /\ \A c \in Keys \ {k} : /\ charge'[c] = charge[c] /\ applied'[c] = applied[c]
                               /\ restored'[c] = restored[c]
  BY ConstantsAssumption DEF Paid, EInv, TInv, TypeOK
<1>2. Held(k) = 0
  BY <1>1 DEF EInv, Exact, IsOpen, IsPaid
<1>3. StatusOf(k) = "open" /\ StatusOf(k)' = "paid" /\ Held(k)' = credit
  BY <1>1, <1>2 DEF StatusOf, Held, IsOpen
<1>4. /\ UnitOfKey(k) = k[1] /\ balance' = [balance EXCEPT ![k[1]] = @ - credit]
      /\ credit \in 0 .. balance[k[1]]
  <2>1. k[1] \in Units /\ balance[k[1]] \in Int
    BY KeysArePairs DEF EInv, TInv, TypeOK
  <2>2. QED
    BY <2>1 DEF UnitOfKey, Paid
<1>5. [c \in Keys |-> StatusOf(c)]' = [[c \in Keys |-> StatusOf(c)] EXCEPT ![k] = "paid"]
  BY <1>1, <1>3, OthersInLedger
<1>6. [c \in Keys |-> Held(c)]' = [[c \in Keys |-> Held(c)] EXCEPT ![k] = credit]
  BY <1>1, <1>3, OthersInLedger
<1>7. Ledger!Pay(k)
  BY <1>3, <1>4, <1>5, <1>6 DEF Ledger!Pay
<1>8. QED
  BY <1>7 DEF Ledger!LNext

LEMMA ReopenedInLedger ==
  ASSUME EInv, NEW k \in Keys, NEW row \in Row, Reopened(k, row)
  PROVE  Ledger!LNext
<1>1. /\ charge'[k] = row /\ row # None /\ row.status = "open" /\ IsPaid(k)
      /\ applied' = applied /\ restored'[k] = applied[k] /\ restored[k] = 0
      /\ applied[k] \in Nat
      /\ \A c \in Keys \ {k} : /\ charge'[c] = charge[c] /\ applied'[c] = applied[c]
                               /\ restored'[c] = restored[c]
  BY ConstantsAssumption DEF Reopened, EInv, TInv, TypeOK
<1>2. StatusOf(k) = "paid" /\ StatusOf(k)' = "open" /\ Held(k)' = 0 /\ Held(k) = applied[k]
  BY <1>1 DEF StatusOf, Held, IsPaid
<1>3. UnitOfKey(k) = k[1] /\ balance' = [balance EXCEPT ![k[1]] = @ + Held(k)]
  BY <1>2 DEF UnitOfKey, Reopened
<1>4. [c \in Keys |-> StatusOf(c)]' = [[c \in Keys |-> StatusOf(c)] EXCEPT ![k] = "open"]
  BY <1>1, <1>2, OthersInLedger
<1>5. [c \in Keys |-> Held(c)]' = [[c \in Keys |-> Held(c)] EXCEPT ![k] = 0]
  BY <1>1, <1>2, OthersInLedger
<1>6. Ledger!GiveBack(k)
  BY <1>2, <1>3, <1>4, <1>5 DEF Ledger!GiveBack
<1>7. QED
  BY <1>6 DEF Ledger!LNext

\* The charges a regeneration deletes are not paid, and hold nothing.
LEMMA WithdrawnInLedger ==
  ASSUME EInv, NEW m \in Months, Withdrawn(m)
  PROVE  Ledger!LNext
<1> DEFINE cs == {k \in Keys : k[2] = m}
<1>1. ASSUME NEW k \in cs
      PROVE  StatusOf(k) # "paid" /\ StatusOf(k)' = "none" /\ Held(k)' = Held(k)
  <2>1. ~ IsPaid(k)
    BY KeysArePairs DEF Withdrawn, NothingPaid
  <2>2. charge'[k] = None /\ applied'[k] = 0 /\ restored'[k] = 0
    BY DEF Withdrawn, OfMonth
  <2>3. Held(k) = 0
    BY <2>1 DEF EInv, Exact
  <2>4. QED
    BY <2>1, <2>2, <2>3 DEF StatusOf, Held, IsPaid
<1>2. ASSUME NEW k \in Keys \ cs
      PROVE  StatusOf(k)' = StatusOf(k) /\ Held(k)' = Held(k)
  BY DEF Withdrawn, OfMonth, StatusOf, Held
<1>3. [k \in Keys |-> StatusOf(k)]' = [k \in Keys |-> IF k \in cs THEN "none"
                                                      ELSE [c \in Keys |-> StatusOf(c)][k]]
  BY <1>1, <1>2
<1>4. [k \in Keys |-> Held(k)]' = [k \in Keys |-> Held(k)]
  BY <1>1, <1>2
<1>5. \A k \in cs : [c \in Keys |-> StatusOf(c)][k] # "paid"
  BY <1>1
<1>6. cs \in SUBSET Keys /\ balance' = balance
  BY DEF Withdrawn
<1> HIDE DEF cs
<1>7. Ledger!Withdraw(cs)
  BY <1>3, <1>4, <1>5, <1>6 DEF Ledger!Withdraw
<1>8. QED
  BY <1>6, <1>7 DEF Ledger!LNext

\* For requests one at a time the charges and the ledger implement FeeLedger,
\* where credit is held by a paid charge and given back once.
THEOREM SerialLedger ==
  ASSUME OneAtATime, MaxReopens <= 1
  PROVE  Spec => ImplementsLedger
<1>1. Init => Ledger!LInit
  BY DEF Init, NothingLoaded, StatusOf, Held, Ledger!LInit
<1>2. EInv /\ [Next]_vars => [Ledger!LNext]_(Ledger!lvars)
  <2> SUFFICES ASSUME EInv, [Next]_vars
               PROVE  Ledger!LNext \/ UNCHANGED Ledger!lvars
    OBVIOUS
  <2>1. CASE Reworded
    <3>1. ASSUME NEW k \in Keys PROVE StatusOf(k)' = StatusOf(k) /\ Held(k)' = Held(k)
      BY <2>1 DEF Reworded, Same, StatusOf, Held
    <3>2. QED
      BY <2>1, <3>1 DEF Reworded, Ledger!lvars
  <2>2. ASSUME NEW u \in Units, NEW amount \in Advances, Deposited(u, amount)
        PROVE  Ledger!LNext
    <3>1. ASSUME NEW k \in Keys PROVE StatusOf(k)' = StatusOf(k) /\ Held(k)' = Held(k)
      BY <2>2 DEF Deposited, StatusOf, Held
    <3>2. Ledger!Deposit(u)
      BY <2>2, <3>1 DEF Deposited, Ledger!Deposit
    <3>3. QED
      BY <3>2 DEF Ledger!LNext
  <2>3. QED
    BY <2>1, <2>2, NextChanges, BilledInLedger, PaidInLedger, ReopenedInLedger,
       WithdrawnInLedger DEF Change
<1>3. QED
  BY <1>1, <1>2, InitBooks, NextBooks, PTL DEF Spec, ImplementsLedger, Ledger!LSpec

-----------------------------------------------------------------------------
(***************************************************************************)
(* The credit that was advanced is in the balances or held by charges.     *)
(***************************************************************************)

LEMMA HeldOfType ==
  ASSUME TypeOK, NEW u \in Units
  PROVE  /\ \A m \in Months : HeldOf(u)[m] = Held(<<u, m>>) /\ HeldOf(u)[m] \in Int
         /\ Sum(HeldOf(u), Months) \in Int
<1>1. IsFiniteSet(Months)
  BY ConstantsAssumption, FS_Interval DEF Months
<1>2. \A m \in Months : HeldOf(u)[m] = Held(<<u, m>>) /\ HeldOf(u)[m] \in Int
  BY DEF TypeOK, HeldOf, Held, Keys
<1>3. Sum(HeldOf(u), Months) \in Int
  BY <1>1, <1>2, SumInt
<1>4. QED
  BY <1>2, <1>3

\* What a unit holds changes by what the step adds to the credit of one charge.
LEMMA HeldTogether ==
  ASSUME TypeOK, TypeOK', NEW u \in Units, NEW m \in Months,
         \A c \in Months \ {m} : Held(<<u, c>>)' = Held(<<u, c>>)
  PROVE  Sum(HeldOf(u), Months)' = Sum(HeldOf(u), Months) + Held(<<u, m>>)' - Held(<<u, m>>)
<1> DEFINE f == HeldOf(u)
           g == HeldOf(u)'
<1>1. IsFiniteSet(Months)
  BY ConstantsAssumption, FS_Interval DEF Months
<1>2. \A c \in Months : f[c] = Held(<<u, c>>) /\ f[c] \in Int
  BY HeldOfType
<1>3. \A c \in Months : g[c] = Held(<<u, c>>)' /\ g[c] \in Int
  BY DEF TypeOK, HeldOf, Held, Keys
<1>4. \A c \in Months \ {m} : f[c] = g[c]
  BY <1>2, <1>3
<1>5. Sum(HeldOf(u), Months)' = Sum(g, Months)
  OBVIOUS
<1>6. Sum(HeldOf(u), Months) = Sum(f, Months)
  OBVIOUS
<1> HIDE DEF f, g
<1>7. \A c \in Months : f[c] \in Int /\ g[c] \in Int
  BY <1>2, <1>3
<1>8. Sum(g, Months) = Sum(f, Months) + g[m] - f[m]
  BY <1>1, <1>4, <1>7, SumChange
<1>9. QED
  BY <1>2, <1>3, <1>5, <1>6, <1>8

\* No change of the books loses credit.
LEMMA ChangeConserves ==
  ASSUME EInv, TInv', CreditConserved, Change
  PROVE  CreditConserved'
<1> SUFFICES ASSUME NEW u \in Units
             PROVE  balance'[u] + Sum(HeldOf(u), Months)' = advanced'[u]
  BY DEF CreditConserved
<1>0. /\ TypeOK /\ TypeOK' /\ balance[u] \in Int /\ advanced[u] \in Nat
      /\ balance[u] + Sum(HeldOf(u), Months) = advanced[u] /\ Sum(HeldOf(u), Months) \in Int
  BY HeldOfType DEF EInv, TInv, TypeOK, CreditConserved
<1>1. ASSUME \A m \in Months : Held(<<u, m>>)' = Held(<<u, m>>)
      PROVE  Sum(HeldOf(u), Months)' = Sum(HeldOf(u), Months)
  <2>1. HeldOf(u)' = HeldOf(u)
    BY <1>1 DEF HeldOf
  <2>2. QED
    BY <2>1
<1>2. ASSUME UNCHANGED <<balance, advanced>>, \A m \in Months : Held(<<u, m>>)' = Held(<<u, m>>)
      PROVE  balance'[u] + Sum(HeldOf(u), Months)' = advanced'[u]
  BY <1>0, <1>1, <1>2
<1>3. CASE Reworded
  BY <1>2, <1>3 DEF Reworded, Held
<1>4. ASSUME NEW k \in Keys, NEW row \in Row, Billed(k, row)
      PROVE  balance'[u] + Sum(HeldOf(u), Months)' = advanced'[u]
  BY <1>2, <1>4 DEF Billed, Held
<1>5. ASSUME NEW k \in Keys, NEW d \in Int, NEW b, b = balance[k[1]] - d,
             balance' = [balance EXCEPT ![k[1]] = b], UNCHANGED advanced,
             Held(k)' = Held(k) + d, \A c \in Keys \ {k} : Held(c)' = Held(c)
      PROVE  balance'[u] + Sum(HeldOf(u), Months)' = advanced'[u]
  <2>1. PICK v \in Units, m \in Months : k = <<v, m>>
    BY DEF Keys
  <2>2. CASE u = v
    <3>1. \A c \in Months \ {m} : Held(<<u, c>>)' = Held(<<u, c>>)
      BY <1>5, <2>1, <2>2 DEF Keys
    <3>2. Sum(HeldOf(u), Months)' = Sum(HeldOf(u), Months) + Held(<<u, m>>)' - Held(<<u, m>>)
      BY <1>0, <3>1, HeldTogether
    <3>3. Held(<<u, m>>) \in Int
      BY <1>0, HeldOfType
    <3>4. balance'[u] = balance[u] - d
      BY <1>0, <1>5, <2>1, <2>2 DEF TypeOK
    <3>5. Held(<<u, m>>)' = Held(<<u, m>>) + d
      BY <1>5, <2>1, <2>2
    <3>6. QED
      BY <1>0, <1>5, <3>2, <3>3, <3>4, <3>5
  <2>3. CASE u # v
    <3>1. \A c \in Months : Held(<<u, c>>)' = Held(<<u, c>>)
      BY <1>5, <2>1, <2>3 DEF Keys
    <3>2. balance'[u] = balance[u]
      BY <1>0, <1>5, <2>1, <2>3 DEF TypeOK
    <3>3. QED
      BY <1>0, <1>1, <1>5, <3>1, <3>2
  <2>4. QED
    BY <2>2, <2>3
<1>6. ASSUME NEW k \in Keys, NEW row \in Row, Reopened(k, row)
      PROVE  balance'[u] + Sum(HeldOf(u), Months)' = advanced'[u]
  <2>1. applied[k] \in Nat /\ k[1] \in Units /\ balance[k[1]] \in Int
    BY <1>0, KeysArePairs DEF TypeOK
  <2>2. /\ balance' = [balance EXCEPT ![k[1]] = @ + applied[k]] /\ UNCHANGED advanced
        /\ balance[k[1]] + applied[k] = balance[k[1]] - (0 - applied[k])
    BY <1>6, <2>1 DEF Reopened
  <2>3. Held(k)' = Held(k) + (0 - applied[k]) /\ \A c \in Keys \ {k} : Held(c)' = Held(c)
    BY <1>0, <1>6, <2>1 DEF Reopened, Held, TypeOK
  <2>4. 0 - applied[k] \in Int
    BY <2>1
  <2>5. QED
    BY <1>5, <2>2, <2>3, <2>4
<1>7. ASSUME NEW k \in Keys, NEW row \in Row, NEW credit \in Nat, Paid(k, row, credit)
      PROVE  balance'[u] + Sum(HeldOf(u), Months)' = advanced'[u]
  <2>1. balance' = [balance EXCEPT ![k[1]] = @ - credit] /\ UNCHANGED advanced
    BY <1>7 DEF Paid
  <2>2. Held(k)' = Held(k) + credit /\ \A c \in Keys \ {k} : Held(c)' = Held(c)
    BY <1>0, <1>7 DEF Paid, Held, TypeOK
  <2>3. credit \in Int
    OBVIOUS
  <2>4. QED
    BY <1>5, <2>1, <2>2, <2>3
<1>8. ASSUME NEW m \in Months, Withdrawn(m)
      PROVE  balance'[u] + Sum(HeldOf(u), Months)' = advanced'[u]
  <2>1. ASSUME NEW c \in Months PROVE Held(<<u, c>>)' = Held(<<u, c>>)
    <3>1. <<u, c>> \in Keys /\ <<u, c>>[2] = c
      BY DEF Keys
    <3>2. CASE c = m
      <4>1. Held(<<u, c>>) = 0
        BY <1>8, <3>1, <3>2 DEF EInv, Exact, Withdrawn, NothingPaid
      <4>2. applied'[<<u, c>>] = 0 /\ restored'[<<u, c>>] = 0
        BY <1>8, <3>1, <3>2 DEF Withdrawn, OfMonth
      <4>3. QED
        BY <4>1, <4>2 DEF Held
    <3>3. CASE c # m
      BY <1>8, <3>1, <3>3 DEF Withdrawn, OfMonth, Held
    <3>4. QED
      BY <3>2, <3>3
  <2>2. QED
    BY <1>2, <1>8, <2>1 DEF Withdrawn
<1>9. ASSUME NEW v \in Units, NEW amount \in Advances, Deposited(v, amount)
      PROVE  balance'[u] + Sum(HeldOf(u), Months)' = advanced'[u]
  <2>1. Sum(HeldOf(u), Months)' = Sum(HeldOf(u), Months)
    BY <1>1, <1>9 DEF Deposited, Held
  <2>2. amount \in Nat
    BY ConstantsAssumption
  <2>3. balance'[u] - balance[u] = advanced'[u] - advanced[u]
    BY <1>0, <1>9, <2>2 DEF Deposited, TypeOK
  <2>4. balance'[u] \in Int /\ advanced'[u] \in Int
    BY <1>0 DEF TypeOK
  <2>5. QED
    BY <1>0, <2>1, <2>3, <2>4
<1>10. QED
  BY <1>3, <1>4, <1>6, <1>7, <1>8, <1>9 DEF Change

\* With requests one at a time and no charge reopened twice, no cent that was
\* advanced is lost or counted twice: it is in the balance of its unit or it is
\* held by a charge of that unit.
THEOREM SerialCreditConserved ==
  ASSUME OneAtATime, MaxReopens <= 1
  PROVE  Spec => []CreditConserved
<1>1. Init => CreditConserved
  <2> SUFFICES ASSUME Init, NEW u \in Units
               PROVE  balance[u] + Sum(HeldOf(u), Months) = advanced[u]
    BY DEF CreditConserved
  <2>1. IsFiniteSet(Months)
    BY ConstantsAssumption, FS_Interval DEF Months
  <2>2. \A m \in Months : HeldOf(u)[m] = 0
    BY DEF Init, HeldOf, Held, Keys
  <2>3. Sum(HeldOf(u), Months) = 0
    BY <2>1, <2>2, SumZero
  <2>4. QED
    BY <2>3 DEF Init
<1>2. EInv /\ CreditConserved /\ [Next]_vars => EInv' /\ CreditConserved'
  <2> SUFFICES ASSUME EInv, CreditConserved, [Next]_vars
               PROVE  EInv' /\ CreditConserved'
    OBVIOUS
  <2>1. EInv' /\ Change
    BY NextBooks, NextChanges
  <2>2. TInv'
    BY <2>1 DEF EInv
  <2>3. QED
    BY <2>1, <2>2, ChangeConserves
<1>3. QED
  BY <1>1, <1>2, InitBooks, PTL DEF Spec

-----------------------------------------------------------------------------
(***************************************************************************)
(* First in, first out.                                                    *)
(***************************************************************************)

\* As long as credit remains, what is gone paid the older competences.
LEMMA WalkPaysOlder ==
  ASSUME NEW credit \in Nat, NEW due \in [Months -> Nat],
         NEW remaining \in FifoWalks(credit, due), NEW m \in Months, remaining[m - 1] > 0
  PROVE  Sum(due, 1 .. m - 1) + remaining[m - 1] = credit
<1> DEFINE P(n) == remaining[n] > 0 => Sum(due, 1 .. n) + remaining[n] = credit
           N == {n \in Nat : n <= NMonths => P(n)}
<1>0. /\ remaining \in [0 .. NMonths -> 0 .. credit] /\ remaining[0] = credit
      /\ \A c \in Months : remaining[c] = remaining[c - 1] - Lesser(due[c], remaining[c - 1])
      /\ NMonths \in Nat
  BY ConstantsAssumption DEF FifoWalks
<1>1. 0 \in N
  <2>1. 1 .. 0 = {}
    OBVIOUS
  <2>2. Sum(due, 1 .. 0) = 0
    BY <2>1, SumEmpty
  <2>3. QED
    BY <1>0, <2>2
<1>2. ASSUME NEW n \in Nat, n \in N PROVE n + 1 \in N
  <2> SUFFICES ASSUME n + 1 <= NMonths, remaining[n + 1] > 0
               PROVE  Sum(due, 1 .. n + 1) + remaining[n + 1] = credit
    OBVIOUS
  <2>1. n + 1 \in Months /\ n \in 0 .. NMonths /\ n + 1 \in 0 .. NMonths /\ (n + 1) - 1 = n
    BY <1>0 DEF Months
  <2>2. remaining[n + 1] = remaining[n] - Lesser(due[n + 1], remaining[n])
    BY <1>0, <2>1
  <2>3. due[n + 1] \in Nat /\ remaining[n] \in Nat /\ remaining[n + 1] \in Nat
    BY <1>0, <2>1
  <2>4. remaining[n] > 0 /\ remaining[n + 1] = remaining[n] - due[n + 1]
    BY <2>2, <2>3 DEF Lesser
  <2>5. Sum(due, 1 .. n) + remaining[n] = credit
    BY <1>2, <2>1, <2>4, <1>0
  <2> DEFINE S == 1 .. n
  <2>6. n + 1 \notin S /\ 1 .. n + 1 = S \cup {n + 1}
    <3>1. \A c : c \in 1 .. n + 1 <=> c \in S \/ c = n + 1
      OBVIOUS
    <3>2. QED
      BY <3>1
  <2>7. IsFiniteSet(S) /\ \A c \in S \cup {n + 1} : due[c] \in Int
    <3>1. \A c \in S : c \in Months
      BY <1>0, <2>1 DEF Months
    <3>2. IsFiniteSet(S)
      BY FS_Interval
    <3> HIDE DEF S
    <3>3. QED
      BY <2>1, <3>1, <3>2
  <2> HIDE DEF S
  <2>8. Sum(due, S \cup {n + 1}) = due[n + 1] + Sum(due, S)
    BY <2>6, <2>7, SumAdd
  <2>9. Sum(due, S) \in Int
    BY <2>7, SumInt
  <2>10. Sum(due, 1 .. n + 1) = due[n + 1] + Sum(due, S) /\ Sum(due, S) + remaining[n] = credit
    BY <2>5, <2>6, <2>8 DEF S
  <2>11. QED
    BY <2>3, <2>4, <2>9, <2>10
<1>3. m - 1 \in N
  <2> HIDE DEF N
  <2>1. m - 1 \in Nat
    BY DEF Months
  <2>2. QED
    BY <1>1, <1>2, <2>1, NumberInduction
<1>4. m - 1 \in Nat /\ m - 1 <= NMonths
  BY <1>0 DEF Months
<1>5. QED
  BY <1>3, <1>4

LEMMA OlderDueType ==
  ASSUME TypeOK, NEW u \in Units, NEW m \in Months
  PROVE  Sum(OpenDue(u), 1 .. m - 1) \in Nat
<1> DEFINE older == 1 .. m - 1
<1>1. m \in Int /\ older \subseteq Months
  BY ConstantsAssumption DEF Months
<1>2. IsFiniteSet(older)
  BY <1>1, FS_Interval
<1>3. \A c \in older : OpenDue(u)[c] \in Nat
  BY <1>1, OpenDueType
<1> HIDE DEF older
<1>4. Sum(OpenDue(u), older) \in Nat
  BY <1>2, <1>3, SumNat
<1>5. QED
  BY <1>4 DEF older

\* Credit about to be consumed leaves enough for the older open charges.
Ordered(r) ==
    r.pc = "settle_commit" /\ r.credit > 0
       => Sum(OpenDue(r.key[1]), 1 .. r.key[2] - 1) + r.credit <= balance[r.key[1]]

FInv == TInv /\ \A w \in Workers : Ordered(req[w])

LEMMA AllocationOrdered ==
  ASSUME TInv, NEW w \in Workers, SettleBegin(w)
  PROVE  Ordered(req[w])'
<1>1. PICK k \in Keys : k = req[w].key
  BY Loaded DEF SettleBegin, OneCharge
<1> DEFINE funds == AtLeastZero(balance[k[1]])
           S == 1 .. k[2] - 1
<1>2. k[1] \in Units /\ k[2] \in Months /\ req[w] \in Request /\ balance[k[1]] \in Int
  BY KeysArePairs DEF TInv, TypeOK
<1>3. PICK remaining \in FifoWalks(funds, OpenDue(k[1])) :
         req' = [req EXCEPT ![w].pc = "settle_commit",
                            ![w].base[k] = RowOf(k, req[w].ents[k]),
                            ![w].credit = IF SameRow(k, req[w].ents[k])
                                          THEN remaining[k[2] - 1] - remaining[k[2]] ELSE 0]
  BY <1>1 DEF SettleBegin, AllocatedCredit
<1>4. funds \in Nat /\ OpenDue(k[1]) \in [Months -> Nat]
  BY <1>2, OpenDueType DEF AtLeastZero, TInv
<1>5. remaining[k[2] - 1] \in Nat /\ remaining[k[2]] \in Nat
  BY <1>2, <1>4, WalkSpends
<1>6. remaining[k[2] - 1] > 0 => Sum(OpenDue(k[1]), S) + remaining[k[2] - 1] = funds
  BY <1>2, <1>4, WalkPaysOlder
<1>7. Sum(OpenDue(k[1]), S) \in Nat
  BY <1>2, OlderDueType DEF TInv
<1>8. /\ req'[w].key = k
      /\ req'[w].credit = IF SameRow(k, req[w].ents[k])
                          THEN remaining[k[2] - 1] - remaining[k[2]] ELSE 0
  BY <1>1, <1>2, <1>3 DEF TInv, TypeOK, Request
<1>9. OpenDue(k[1])' = OpenDue(k[1]) /\ balance' = balance
  <2>1. charge' = charge /\ balance' = balance
    BY DEF SettleBegin, ledger
  <2>2. QED
    BY <2>1 DEF OpenDue, IsOpen
<1>10. ASSUME req'[w].credit > 0
       PROVE  Sum(OpenDue(k[1]), S) + req'[w].credit <= balance[k[1]]
  <2>1. req'[w].credit = remaining[k[2] - 1] - remaining[k[2]] /\ remaining[k[2] - 1] > 0
    BY <1>5, <1>8, <1>10
  <2>2. Sum(OpenDue(k[1]), S) + remaining[k[2] - 1] = funds
    BY <1>6, <2>1
  <2>3. funds = balance[k[1]] \/ funds = 0
    BY DEF AtLeastZero
  <2> HIDE DEF funds, S
  <2>4. QED
    BY <1>2, <1>4, <1>5, <1>7, <2>1, <2>2, <2>3
<1>11. QED
  BY <1>8, <1>9, <1>10 DEF Ordered

LEMMA NextOrdered ==
  ASSUME OneAtATime, FInv, [Next]_vars
  PROVE  FInv'
<1>1. TInv'
  BY NextType DEF FInv
<1>2. ASSUME NEW w \in Workers, Ordered(req[w])' PROVE \A v \in Workers : Ordered(req[v])'
  BY <1>2 DEF OneAtATime
<1>3. ASSUME NEW w \in Workers, SettleBegin(w) PROVE \A v \in Workers : Ordered(req[v])'
  BY <1>2, <1>3, AllocationOrdered DEF FInv
<1>4. ASSUME NEW w \in Workers, EndsElsewhere(w) PROVE \A v \in Workers : Ordered(req[v])'
  BY <1>2, <1>4 DEF EndsElsewhere, Ordered
<1>5. ASSUME UNCHANGED <<charge, req>>, \A u \in Units : balance'[u] >= balance[u]
      PROVE  \A v \in Workers : Ordered(req[v])'
  <2> SUFFICES ASSUME NEW v \in Workers, req[v].pc = "settle_commit", req[v].credit > 0
               PROVE  Sum(OpenDue(req[v].key[1]), 1 .. req[v].key[2] - 1)' + req[v].credit
                         <= balance'[req[v].key[1]]
    BY <1>5 DEF Ordered
  <2>1. PICK k \in Keys : k = req[v].key
    BY Loaded DEF FInv, OneCharge
  <2>2. k[1] \in Units /\ k[2] \in Months /\ req[v].credit \in Nat
    BY <2>1, Loaded DEF FInv, OneCharge
  <2>3. balance[k[1]] \in Int /\ balance'[k[1]] \in Int /\ balance'[k[1]] >= balance[k[1]]
    BY <1>1, <1>5, <2>2 DEF FInv, TInv, TypeOK
  <2>4. OpenDue(k[1])' = OpenDue(k[1]) /\ req' = req
    BY <1>5 DEF OpenDue, IsOpen
  <2>5. Sum(OpenDue(k[1]), 1 .. k[2] - 1) + req[v].credit <= balance[k[1]]
    BY <2>1 DEF FInv, Ordered
  <2>6. Sum(OpenDue(k[1]), 1 .. k[2] - 1) \in Nat
    BY <2>2, OlderDueType DEF FInv, TInv
  <2>7. Sum(OpenDue(k[1]), 1 .. k[2] - 1) + req[v].credit <= balance'[k[1]]
    BY <2>2, <2>3, <2>5, <2>6
  <2>8. QED
    BY <2>1, <2>4, <2>7
<1>6. ASSUME NEW u \in Units, NEW amount \in Advances, Advance(u, amount)
      PROVE  \A v \in Workers : Ordered(req[v])'
  <2>1. amount \in Nat /\ balance \in [Units -> Int]
    BY ConstantsAssumption DEF FInv, TInv, TypeOK
  <2>2. \A v \in Units : balance'[v] >= balance[v]
    BY <1>6, <2>1 DEF Advance
  <2>3. QED
    BY <1>5, <1>6, <2>2 DEF Advance
<1>7. ASSUME UNCHANGED <<charge, ledger, req>> PROVE \A v \in Workers : Ordered(req[v])'
  <2>1. \A u \in Units : balance'[u] >= balance[u]
    BY <1>7 DEF ledger, FInv, TInv, TypeOK
  <2>2. QED
    BY <1>5, <1>7, <2>1
<1>8. ASSUME NEW r \in Receipts, Upload(r) PROVE \A v \in Workers : Ordered(req[v])'
  BY <1>7, <1>8 DEF Upload
<1>9. ASSUME NEW w \in Workers, Settle(w) PROVE \A v \in Workers : Ordered(req[v])'
  BY <1>3, <1>4, <1>9, SettleElsewhere DEF Settle, FInv
<1>10. ASSUME NEW w \in Workers, \/ Close(w) \/ Regenerate(w) \/ Reopen(w)
                                 \/ ChangeDueDate(w) \/ ReplaceReceipt(w) \/ Fail(w)
       PROVE  \A v \in Workers : Ordered(req[v])'
  BY <1>4, <1>10, OtherElsewhere DEF FInv
<1>11. ASSUME UNCHANGED vars PROVE \A v \in Workers : Ordered(req[v])'
  BY <1>7, <1>11 DEF vars, ledger
<1>12. \A v \in Workers : Ordered(req[v])'
  BY <1>6, <1>8, <1>9, <1>10, <1>11 DEF Next
<1>13. QED
  BY <1>1, <1>12 DEF FInv

\* With requests one at a time, credit goes to the oldest open charges first: a
\* charge that takes credit leaves in the balance all that the older open charges
\* of its unit are due, whatever is advanced, billed and reopened in between.
THEOREM SerialFifo ==
  ASSUME OneAtATime
  PROVE  Spec => FifoRespected
<1> DEFINE Keeps(k) == Sum(OpenDue(k[1]), 1 .. k[2] - 1) <= balance'[k[1]]
           A == \A k \in Keys : applied'[k] > applied[k] => Keeps(k)
<1>1. Init => FInv
  BY InitType, IdleIsRequest DEF FInv, Init, Ordered
<1>2. FInv /\ [Next]_vars => A
  <2> SUFFICES ASSUME FInv, [Next]_vars, NEW k \in Keys, applied'[k] > applied[k]
               PROVE  Keeps(k)
    OBVIOUS
  <2>1. applied[k] \in Nat
    BY DEF FInv, TInv, TypeOK
  <2>2. PICK w \in Workers : RegenDelete(w) \/ SettleCommit(w)
    BY <2>1, OthersKeepApplied
  <2>3. SettleCommit(w)
    BY <2>1, <2>2 DEF RegenDelete, OfMonth
  <2>4. req[w].credit \in Nat /\ req[w].key \in Keys /\ req[w].key[1] \in Units
        /\ req[w].key[2] \in Months
    BY <2>3, Loaded DEF SettleCommit, OneCharge, FInv
  <2>5. k = req[w].key /\ req[w].credit > 0
    BY <2>1, <2>3, <2>4 DEF SettleCommit, FInv, TInv, TypeOK
  <2>6. balance'[k[1]] = balance[k[1]] - req[w].credit /\ balance[k[1]] \in Int
    BY <2>3, <2>4, <2>5 DEF SettleCommit, FInv, TInv, TypeOK
  <2>7. Sum(OpenDue(k[1]), 1 .. k[2] - 1) + req[w].credit <= balance[k[1]]
    BY <2>3, <2>5 DEF FInv, Ordered, SettleCommit
  <2>8. Sum(OpenDue(k[1]), 1 .. k[2] - 1) \in Nat
    BY <2>4, <2>5, OlderDueType DEF FInv, TInv
  <2>9. QED
    BY <2>4, <2>6, <2>7, <2>8
<1>3. FInv /\ [Next]_vars => FInv'
  BY NextOrdered
<1>4. QED
  BY <1>1, <1>2, <1>3, PTL DEF Spec, FifoRespected
-----------------------------------------------------------------------------
(***************************************************************************)
(* The receipts of paid charges.                                           *)
(***************************************************************************)

\* The receipt of a charge, while it is paid.
Slip(k) == IF IsPaid(k) THEN charge[k].receipt ELSE None

\* A file is the receipt of one paid charge.
OneUse == \A j, k \in Keys : Slip(j) # None /\ Slip(j) = Slip(k) => j = k

Giving == {"settle_begin", "settle_commit", "replace_begin", "replace_commit"}

\* A request gives out a file that is in the storage, another one than the charge has, and
\* deletes one that no charge has any more.
Filed(r) ==
    /\ r.pc \in Giving /\ r.receipt # None => files[r.receipt] = "stored"
    /\ r.pc \in {"replace_begin", "replace_commit"} =>
          r.receipt \in Receipts /\ r.receipt # Slip(r.key)
    /\ r.pc = "replace_delete" => \A k \in Keys : Slip(k) # r.receipt

RInv == EInv /\ ReceiptOnFile /\ \A w \in Workers : Filed(req[w])

\* A step leaves the receipts, or takes some away.
FewerSlips == \A k \in Keys : Slip(k)' \in {Slip(k), None}

LEMMA SameSlips == charge' = charge => FewerSlips
  BY DEF FewerSlips, Slip, IsPaid

\* A row that is written leaves the receipt of its charge when it is not paid, or keeps it.
LEMMA RowSlip ==
  ASSUME EInv, NEW k \in Keys, NEW row, charge' = [charge EXCEPT ![k] = row],
         row # None => (row.status = "paid" => IsPaid(k) /\ row.receipt = charge[k].receipt)
  PROVE  FewerSlips
<1>1. charge'[k] = row /\ \A j \in Keys : j # k => charge'[j] = charge[j]
  BY DEF EInv, TInv, TypeOK
<1>2. QED
  BY <1>1 DEF FewerSlips, Slip, IsPaid

LEMMA OthersSlips ==
  ASSUME EInv, NEW w \in Workers, Close(w) \/ Regenerate(w) \/ Reopen(w) \/ ChangeDueDate(w)
  PROVE  FewerSlips
<1>1. CASE CloseInsert(w)
  <2>1. PICK k \in Keys : k = req[w].key
    BY <1>1, Current DEF CloseInsert, OneCharge
  <2>2. PICK i \in Ids, amount \in Amounts : charge' = [charge EXCEPT ![k] = NewRow(i, amount)]
    BY <1>1, <2>1 DEF CloseInsert
  <2>3. QED
    BY <2>2, RowSlip DEF NewRow
<1>2. CASE CloseUpdate(w)
  <2>1. PICK k \in Keys : k = req[w].key
    BY <1>2, Current DEF CloseUpdate, OneCharge
  <2>2. /\ req[w].ents[k] = charge[k] /\ req[w].base[k] = charge[k] /\ ~ IsPaid(k)
        /\ charge[k] \in Row
    BY <1>2, <2>1, Current DEF CloseUpdate, OneCharge, Fresh, RowOrNone
  <2>3. PICK amount \in Amounts :
           charge' = [charge EXCEPT ![k] = Stored(k, charge[k],
                         [charge[k] EXCEPT !.due = amount, !.dueOn = DueDay10])]
    BY <1>2, <2>1, <2>2 DEF CloseUpdate
  <2>4. PICK ent \in Row : ent = [charge[k] EXCEPT !.due = amount, !.dueOn = DueDay10]
    BY <2>2, ConstantsAssumption DEF Row
  <2>5. ent.id = charge[k].id /\ ent.status = charge[k].status /\ charge[k] # None
    BY <2>2, <2>4, ConstantsAssumption DEF Row
  <2>6. charge' = [charge EXCEPT ![k] = ent]
    BY <2>2, <2>3, <2>4, <2>5, StoredOver
  <2>7. QED
    BY <2>2, <2>5, <2>6, RowSlip DEF IsPaid
<1>3. CASE RegenDelete(w)
  BY <1>3 DEF RegenDelete, OfMonth, FewerSlips, Slip, IsPaid
<1>4. ASSUME NEW u \in Units, RegenInsert(w, u) PROVE FewerSlips
  <2>1. PICK k \in Keys : k = <<u, req[w].month>>
    BY <1>4 DEF RegenInsert, EInv, TInv, WellFormed, Keys
  <2>2. PICK i \in Ids, amount \in Amounts : charge' = [charge EXCEPT ![k] = NewRow(i, amount)]
    BY <1>4, <2>1 DEF RegenInsert
  <2>3. QED
    BY <2>2, RowSlip DEF NewRow
<1>5. CASE ReopenCommit(w)
  <2>1. PICK k \in Keys : k = req[w].key
    BY <1>5, Current DEF ReopenCommit, OneCharge
  <2>2. /\ req[w].ents[k] = charge[k] /\ req[w].base[k] = charge[k] /\ charge[k] \in Row
    BY <1>5, <2>1, Current DEF ReopenCommit, OneCharge, Fresh
  <2>3. PICK ent \in Row : ent = [charge[k] EXCEPT !.status = "open", !.income = None,
                                                   !.bank = FALSE, !.receipt = None]
    BY <2>2 DEF Row
  <2>4. ent.id = charge[k].id /\ ent.status = "open"
    BY <2>2, <2>3 DEF Row
  <2>5. charge' = [charge EXCEPT ![k] = Stored(k, charge[k], ent)]
    BY <1>5, <2>1, <2>2, <2>3 DEF ReopenCommit
  <2>6. charge' = [charge EXCEPT ![k] = ent]
    BY <2>2, <2>4, <2>5, StoredOver
  <2>7. QED
    BY <2>4, <2>6, RowSlip
<1>6. CASE DueWrite(w)
  <2>1. PICK d \in DueDates :
           charge' = [k \in Keys |-> IF req[w].ents[k] = None THEN charge[k]
                                     ELSE Stored(k, req[w].base[k],
                                                 [req[w].ents[k] EXCEPT !.dueOn = d])]
    BY <1>6 DEF DueWrite
  <2>2. ASSUME NEW k \in Keys PROVE Slip(k)' = Slip(k)
    <3>1. CASE req[w].ents[k] = None
      BY <2>1, <3>1 DEF Slip, IsPaid
    <3>2. CASE req[w].ents[k] # None
      <4>1. req[w].ents[k] = charge[k] /\ req[w].base[k] = charge[k]
        BY <1>6, <3>2 DEF DueWrite, EInv, Fresh
      <4>2. charge[k] \in Row
        BY <3>2, <4>1 DEF EInv, TInv, TypeOK, RowOrNone
      <4>3. PICK ent \in Row : ent = [charge[k] EXCEPT !.dueOn = d]
        BY <4>2 DEF Row
      <4>4. ent.id = charge[k].id /\ ent.status = charge[k].status
            /\ ent.receipt = charge[k].receipt
        BY <4>2, <4>3 DEF Row
      <4>5. Stored(k, charge[k], ent) = ent
        BY <4>2, <4>4, StoredOver
      <4>6. charge'[k] = ent
        BY <2>1, <3>2, <4>1, <4>3, <4>5
      <4>7. ent # None /\ charge[k] # None
        BY <3>2, <4>1, ConstantsAssumption
      <4>8. QED
        BY <4>4, <4>6, <4>7 DEF Slip, IsPaid
    <3>3. QED
      BY <3>1, <3>2
  <2>3. QED
    BY <2>2 DEF FewerSlips
<1>7. QED
  BY <1>1, <1>2, <1>3, <1>4, <1>5, <1>6, SameSlips
  DEF Close, CloseStart, CloseRead, CloseSkip, CloseLoad, Regenerate, RegenStart,
      Reopen, ReopenRead, ReopenBegin, ChangeDueDate, DueRead, DueLoad

\* A settlement and a replacement give the charge the receipt of their request.
Given(k, c) ==
    /\ Slip(k)' = c
    /\ \A j \in Keys : j # k => Slip(j)' = Slip(j)

LEMMA CommitGives ==
  ASSUME EInv, NEW w \in Workers, SettleCommit(w) \/ ReplaceCommit(w)
  PROVE  \E k \in Keys, c \in Receipts \cup {None} :
            k = req[w].key /\ c = req[w].receipt /\ Given(k, c)
<1>1. PICK k \in Keys : k = req[w].key
  BY Current DEF SettleCommit, ReplaceCommit, OneCharge
<1>2. PICK c \in Receipts \cup {None} : c = req[w].receipt
  BY Current DEF SettleCommit, ReplaceCommit, OneCharge
<1> SUFFICES Given(k, c)
  BY <1>1, <1>2
<1>3. /\ req[w].ents[k] = charge[k] /\ req[w].base[k] = charge[k] /\ charge[k] \in Row
  BY <1>1, Current DEF SettleCommit, ReplaceCommit, OneCharge, Fresh
<1>4. ASSUME NEW ent \in Row, charge' = [charge EXCEPT ![k] = Stored(k, charge[k], ent)],
             ent.id = charge[k].id, ent.status = "paid", ent.receipt = c
      PROVE  Given(k, c)
  <2>1. charge' = [charge EXCEPT ![k] = ent]
    BY <1>3, <1>4, StoredOver
  <2>2. charge'[k] = ent /\ ent # None /\ \A j \in Keys : j # k => charge'[j] = charge[j]
    BY <2>1, ConstantsAssumption DEF EInv, TInv, TypeOK
  <2>3. Slip(k)' = c /\ \A j \in Keys : j # k => Slip(j)' = Slip(j)
    BY <1>4, <2>2 DEF Slip, IsPaid
  <2>4. QED
    BY <2>3 DEF Given
<1>5. CASE SettleCommit(w)
  <2>1. PICK income \in Incomes \cup {None}, bank \in BOOLEAN :
           charge' = [charge EXCEPT ![k] = Stored(k, charge[k], AsPaid(charge[k], income, bank, c))]
    BY <1>1, <1>2, <1>3, <1>5 DEF SettleCommit
  <2>2. PICK ent \in Row : ent = AsPaid(charge[k], income, bank, c)
    BY <1>3 DEF AsPaid, Row
  <2>3. ent.id = charge[k].id /\ ent.status = "paid" /\ ent.receipt = c
    BY <1>3, <2>2 DEF AsPaid, Row
  <2>4. QED
    BY <1>4, <2>1, <2>2, <2>3
<1>6. CASE ReplaceCommit(w)
  <2>1. PICK ent \in Row : ent = [charge[k] EXCEPT !.receipt = c]
    BY <1>3 DEF Row
  <2>2. IsPaid(k)
    BY <1>1, <1>6, Current DEF ReplaceCommit, OneCharge, Fresh
  <2>3. ent.id = charge[k].id /\ ent.status = "paid" /\ ent.receipt = c
    BY <1>3, <2>1, <2>2 DEF IsPaid, Row
  <2>4. charge' = [charge EXCEPT ![k] = Stored(k, charge[k], ent)]
    BY <1>1, <1>2, <1>3, <1>6, <2>1 DEF ReplaceCommit
  <2>5. QED
    BY <1>4, <2>3, <2>4
<1>7. QED
  BY <1>5, <1>6

\* Receipts that are left or taken away are on file as long as their files are.
LEMMA FewerOnFile ==
  ASSUME RInv, FewerSlips, files' = files
  PROVE  ReceiptOnFile'
<1>1. ASSUME NEW k \in Keys, IsPaid(k)', charge'[k].receipt # None
      PROVE  files'[charge'[k].receipt] = "stored"
  <2>1. Slip(k)' = charge'[k].receipt
    BY <1>1 DEF Slip
  <2>2. Slip(k) = charge'[k].receipt /\ Slip(k) # None
    BY <1>1, <2>1 DEF FewerSlips
  <2>3. IsPaid(k) /\ charge[k].receipt = charge'[k].receipt
    BY <2>2 DEF Slip
  <2>4. QED
    BY <1>1, <2>3 DEF RInv, ReceiptOnFile
<1>2. QED
  BY <1>1 DEF ReceiptOnFile

LEMMA GivenOnFile ==
  ASSUME RInv, files' = files, NEW k \in Keys, NEW c, Given(k, c),
         c # None => files[c] = "stored"
  PROVE  ReceiptOnFile'
<1>1. ASSUME NEW j \in Keys, IsPaid(j)', charge'[j].receipt # None
      PROVE  files'[charge'[j].receipt] = "stored"
  <2>1. Slip(j)' = charge'[j].receipt
    BY <1>1 DEF Slip
  <2>2. CASE j = k
    BY <1>1, <2>1, <2>2 DEF Given
  <2>3. CASE j # k
    <3>1. Slip(j) = charge'[j].receipt /\ Slip(j) # None
      BY <1>1, <2>1, <2>3 DEF Given
    <3>2. IsPaid(j) /\ charge[j].receipt = charge'[j].receipt
      BY <3>1 DEF Slip
    <3>3. QED
      BY <1>1, <3>2 DEF RInv, ReceiptOnFile
  <2>4. QED
    BY <2>2, <2>3
<1>2. QED
  BY <1>1 DEF ReceiptOnFile

LEMMA OthersFile ==
  ASSUME RInv, EInv', NEW w \in Workers,
         Close(w) \/ Regenerate(w) \/ Reopen(w) \/ ChangeDueDate(w) \/ Fail(w)
  PROVE  ReceiptOnFile' /\ Filed(req[w])'
<1>1. req \in [Workers -> Request] /\ req[w] \in Request
  BY DEF RInv, EInv, TInv, TypeOK
<1> DEFINE away == {"idle", "close_unit", "close_load", "close_write", "regen_delete", "regen_insert",
                    "reopen_begin", "reopen_commit", "due_load", "due_write"}
<1>2. files' = files
  BY DEF Close, CloseStart, CloseRead, CloseSkip, CloseLoad, CloseInsert, CloseUpdate,
         Regenerate, RegenStart, RegenDelete, RegenInsert, Reopen, ReopenRead, ReopenBegin,
         ReopenCommit, ChangeDueDate, DueRead, DueLoad, DueWrite, Fail
<1>3. FewerSlips
  BY OthersSlips, SameSlips DEF RInv, Fail
<1>4. Close(w) => req'[w].pc \in away
  <2>1. (\E m \in Months : CloseStart(w, m)) => req'[w].pc = "close_unit"
    BY <1>1, IdleIsRequest DEF CloseStart, Request
  <2>2. ASSUME NEW u \in Units, CloseRead(w, u) PROVE req'[w].pc \in {"close_load", "close_write"}
    BY <1>1, <2>2 DEF CloseRead, Request
  <2>3. CloseLoad(w) => req'[w].pc = "close_write"
    BY <1>1 DEF CloseLoad, Request
  <2>4. ASSUME NEW u \in Units, CloseSkip(w, u) PROVE req'[w].pc \in {"idle", "close_unit"}
    BY <1>1, <2>4, IdleIsRequest DEF CloseSkip, Request
  <2>5. NextUnit(w, "close_unit") => req'[w].pc \in {"idle", "close_unit"}
    BY <1>1, IdleIsRequest DEF NextUnit, Request
  <2>6. CloseInsert(w) \/ CloseUpdate(w) => req'[w].pc \in {"idle", "close_unit"}
    BY <2>5 DEF CloseInsert, CloseUpdate
  <2>7. QED
    BY <2>1, <2>2, <2>3, <2>4, <2>6 DEF Close
<1>5. Regenerate(w) => req'[w].pc \in away
  <2>1. (\E m \in Months : RegenStart(w, m)) => req'[w].pc = "regen_delete"
    BY <1>1, IdleIsRequest DEF RegenStart, Request
  <2>2. RegenDelete(w) => req'[w].pc = "regen_insert"
    BY <1>1 DEF RegenDelete, Request
  <2>3. (\E u \in Units : RegenInsert(w, u)) => req'[w].pc \in {"idle", "regen_insert"}
    BY <1>1, IdleIsRequest DEF RegenInsert, Request
  <2>4. QED
    BY <2>1, <2>2, <2>3 DEF Regenerate
<1>6. Reopen(w) \/ Fail(w) => req'[w].pc \in away
  <2>1. (\E k \in Keys : ReopenRead(w, k)) => req'[w].pc = "reopen_begin"
    BY <1>1, IdleIsRequest DEF ReopenRead, Request
  <2>2. ReopenBegin(w) => req'[w].pc = "reopen_commit"
    BY <1>1 DEF ReopenBegin, Request
  <2>3. ReopenCommit(w) \/ Fail(w) => req'[w].pc = "idle"
    BY <1>1, IdleIsRequest DEF ReopenCommit, Fail, Finish
  <2>4. QED
    BY <2>1, <2>2, <2>3 DEF Reopen
<1>7. ChangeDueDate(w) => req'[w].pc \in away
  <2>1. (\E ks \in SUBSET Keys : DueRead(w, ks)) => req'[w].pc = "due_load"
    BY <1>1, IdleIsRequest DEF DueRead, Request
  <2>2. DueLoad(w) => req'[w].pc = "due_write"
    BY <1>1 DEF DueLoad, Request
  <2>3. DueWrite(w) => req'[w].pc = "idle"
    BY <1>1, IdleIsRequest DEF DueWrite, Finish
  <2>4. QED
    BY <2>1, <2>2, <2>3 DEF ChangeDueDate
<1>8. req'[w].pc \in away => Filed(req[w])'
  BY DEF Filed, Giving
<1>9. QED
  BY <1>2, <1>3, <1>4, <1>5, <1>6, <1>7, <1>8, FewerOnFile

\* A request that gives out a receipt goes on to do so.
LEMMA StillFiled ==
  ASSUME RInv, NEW w \in Workers, UNCHANGED <<charge, files>>,
         req[w].pc \in Giving, req'[w].pc \in Giving,
         req'[w].pc \in {"replace_begin", "replace_commit"} =>
            req[w].pc \in {"replace_begin", "replace_commit"},
         req'[w].receipt = req[w].receipt, req'[w].key = req[w].key
  PROVE  Filed(req[w])'
<1>1. Slip(req[w].key)' = Slip(req[w].key)
  BY DEF Slip, IsPaid
<1>2. QED
  BY <1>1 DEF RInv, Filed, Giving, Slip, IsPaid

LEMMA SettleFiles ==
  ASSUME RInv, EInv', NEW w \in Workers, Settle(w)
  PROVE  ReceiptOnFile' /\ Filed(req[w])'
<1>1. req \in [Workers -> Request] /\ req[w] \in Request /\ files' = files
  BY DEF RInv, EInv, TInv, TypeOK, Settle, SettleRead, SettleBegin, SettleCommit
<1>2. ASSUME NEW k \in Keys, NEW c \in Receipts \cup {None}, SettleRead(w, k, c)
      PROVE  ReceiptOnFile' /\ Filed(req[w])'
  <2>1. req'[w].pc = "settle_begin" /\ req'[w].receipt = c
    BY <1>1, <1>2, IdleIsRequest DEF SettleRead, Request
  <2>2. charge' = charge /\ (c # None => files[c] = "stored")
    BY <1>2 DEF SettleRead
  <2>3. QED
    BY <1>1, <2>1, <2>2, SameSlips, FewerOnFile DEF Filed
<1>3. CASE SettleBegin(w)
  <2>1. /\ req[w].pc = "settle_begin" /\ req'[w].pc = "settle_commit" /\ charge' = charge
        /\ req'[w].receipt = req[w].receipt /\ req'[w].key = req[w].key
    BY <1>1, <1>3 DEF SettleBegin, Request
  <2>2. QED
    BY <1>1, <2>1, SameSlips, FewerOnFile, StillFiled DEF Giving
<1>4. CASE SettleCommit(w)
  <2>1. req'[w].pc = "idle" /\ req[w].pc = "settle_commit"
    BY <1>1, <1>4, IdleIsRequest DEF SettleCommit, Finish
  <2>2. PICK k \in Keys, c \in Receipts \cup {None} : c = req[w].receipt /\ Given(k, c)
    BY <1>4, CommitGives DEF RInv
  <2>3. c # None => files[c] = "stored"
    BY <2>1, <2>2 DEF RInv, Filed, Giving
  <2>4. ReceiptOnFile'
    BY <1>1, <2>2, <2>3, GivenOnFile
  <2>5. QED
    BY <2>1, <2>4 DEF Filed, Giving
<1>5. QED
  BY <1>2, <1>3, <1>4 DEF Settle

LEMMA ReplaceFiles ==
  ASSUME RInv, OneUse, EInv', NEW w \in Workers, ReplaceReceipt(w)
  PROVE  ReceiptOnFile' /\ Filed(req[w])'
<1>1. req \in [Workers -> Request] /\ req[w] \in Request
  BY DEF RInv, EInv, TInv, TypeOK
<1>2. ASSUME NEW k \in Keys, NEW c \in Receipts, ReplaceRead(w, k, c)
      PROVE  ReceiptOnFile' /\ Filed(req[w])'
  <2>1. req'[w].pc = "replace_begin" /\ req'[w].receipt = c /\ req'[w].key = k
    BY <1>1, <1>2, IdleIsRequest DEF ReplaceRead, Request
  <2>2. UNCHANGED <<charge, files>> /\ files[c] = "stored" /\ IsPaid(k) /\ charge[k].receipt # c
    BY <1>2 DEF ReplaceRead
  <2>3. QED
    BY <2>1, <2>2, SameSlips, FewerOnFile DEF Filed, Slip, IsPaid
<1>3. CASE ReplaceBegin(w)
  <2>1. /\ req[w].pc = "replace_begin" /\ req'[w].pc = "replace_commit"
        /\ req'[w].receipt = req[w].receipt /\ req'[w].key = req[w].key
        /\ UNCHANGED <<charge, files>>
    BY <1>1, <1>3 DEF ReplaceBegin, Request
  <2>2. QED
    BY <2>1, SameSlips, FewerOnFile, StillFiled DEF Giving
<1>4. CASE ReplaceCommit(w)
  <2>1. PICK k \in Keys, c \in Receipts \cup {None} :
           k = req[w].key /\ c = req[w].receipt /\ Given(k, c)
    BY <1>4, CommitGives DEF RInv
  <2>2. req[w].ents[k] = charge[k] /\ IsPaid(k)
    BY <1>4, <2>1, Current DEF ReplaceCommit, OneCharge, Fresh, RInv
  <2>3. files' = files
    BY <1>4 DEF ReplaceCommit
  <2>4. c \in Receipts /\ c # Slip(k) /\ (c # None => files[c] = "stored")
    BY <1>4, <2>1 DEF ReplaceCommit, RInv, Filed, Giving
  <2>5. ReceiptOnFile'
    BY <2>1, <2>3, <2>4, GivenOnFile
  <2>6. CASE charge[k].receipt = None
    <3>1. req'[w].pc = "idle"
      BY <1>1, <1>4, <2>1, <2>2, <2>6, IdleIsRequest DEF ReplaceCommit
    <3>2. QED
      BY <2>5, <3>1 DEF Filed, Giving
  <2>7. CASE charge[k].receipt # None
    <3>1. req'[w].pc = "replace_delete" /\ req'[w].receipt = Slip(k) /\ Slip(k) # None
      BY <1>1, <1>4, <2>1, <2>2, <2>7, IdleIsRequest DEF ReplaceCommit, ReplacedFile, Slip, Request
    <3>2. \A j \in Keys : Slip(j)' # Slip(k)
      BY <2>1, <2>4, <3>1 DEF Given, OneUse
    <3>3. QED
      BY <2>5, <3>1, <3>2 DEF Filed, Giving
  <2>8. QED
    BY <2>6, <2>7
<1>5. CASE ReplaceDelete(w)
  <2>1. req'[w].pc = "idle" /\ charge' = charge /\ req[w].pc = "replace_delete"
    BY <1>1, <1>5, IdleIsRequest DEF ReplaceDelete, Finish
  <2>2. \A k \in Keys : Slip(k) # req[w].receipt
    BY <2>1 DEF RInv, Filed
  <2>3. files' = [files EXCEPT ![req[w].receipt] = "deleted"]
    BY <1>5 DEF ReplaceDelete
  <2>4. ASSUME NEW k \in Keys, IsPaid(k)', charge'[k].receipt # None
        PROVE  files'[charge'[k].receipt] = "stored"
    <3>1. IsPaid(k) /\ charge[k].receipt # None /\ charge'[k].receipt = charge[k].receipt
      BY <2>1, <2>4 DEF IsPaid
    <3>2. charge[k].receipt # req[w].receipt /\ files[charge[k].receipt] = "stored"
      BY <2>2, <3>1 DEF Slip, RInv, ReceiptOnFile
    <3>3. charge[k].receipt \in Receipts
      BY <3>1 DEF RInv, EInv, TInv, TypeOK, RowOrNone, Row, IsPaid
    <3>4. QED
      BY <2>3, <3>1, <3>2, <3>3 DEF RInv, EInv, TInv, TypeOK
  <2>5. QED
    BY <2>1, <2>4 DEF ReceiptOnFile, Filed, Giving
<1>6. QED
  BY <1>2, <1>3, <1>4, <1>5 DEF ReplaceReceipt

LEMMA InitFiles == Init => RInv
<1>1. ASSUME Init PROVE ReceiptOnFile /\ \A w \in Workers : Filed(req[w])
  BY <1>1, IdleIsRequest DEF Init, NothingLoaded, ReceiptOnFile, IsPaid, Filed, Giving
<1>2. QED
  BY <1>1, InitBooks DEF RInv

LEMMA NextFiles ==
  ASSUME OneAtATime, MaxReopens <= 1, RInv, OneUse, [Next]_vars
  PROVE  RInv'
<1>1. EInv'
  BY NextBooks DEF RInv
<1>2. ASSUME NEW w \in Workers,
             \/ Close(w) \/ Regenerate(w) \/ Settle(w) \/ Reopen(w)
             \/ ChangeDueDate(w) \/ ReplaceReceipt(w) \/ Fail(w)
      PROVE  RInv'
  <2>1. ReceiptOnFile' /\ Filed(req[w])'
    BY <1>1, <1>2, OthersFile, SettleFiles, ReplaceFiles
  <2>2. QED
    BY <1>1, <2>1 DEF RInv, OneAtATime
<1>3. ASSUME UNCHANGED <<charge, req>>,
             \A r \in Receipts : files[r] = "stored" => files'[r] = "stored"
      PROVE  RInv'
  <2>1. \A k \in Keys : Slip(k)' = Slip(k) /\ (IsPaid(k)' <=> IsPaid(k))
    BY <1>3 DEF Slip, IsPaid
  <2>2. \A k \in Keys : IsPaid(k) => charge[k].receipt \in Receipts \cup {None}
    BY DEF RInv, EInv, TInv, TypeOK, RowOrNone, Row, IsPaid
  <2>3. ReceiptOnFile'
    BY <1>3, <2>1, <2>2 DEF RInv, ReceiptOnFile
  <2>4. ASSUME NEW w \in Workers PROVE Filed(req[w])'
    <3>1. req[w].receipt \in Receipts \cup {None} /\ Filed(req[w])
      BY DEF RInv, EInv, TInv, TypeOK, Request
    <3>2. req[w].pc \in Giving => req[w].key \in Keys
      BY DEF RInv, EInv, TInv, WellFormed, OneCharge, Giving
    <3>3. QED
      BY <1>3, <2>1, <3>1, <3>2 DEF Filed, Giving
  <2>5. QED
    BY <1>1, <2>3, <2>4 DEF RInv
<1>4. ASSUME NEW r \in Receipts, Upload(r) PROVE RInv'
  BY <1>3, <1>4 DEF Upload, RInv, EInv, TInv, TypeOK
<1>5. ASSUME NEW u \in Units, NEW amount \in Advances, Advance(u, amount) PROVE RInv'
  BY <1>3, <1>5 DEF Advance
<1>6. CASE UNCHANGED vars
  BY <1>3, <1>6 DEF vars
<1>7. QED
  BY <1>2, <1>4, <1>5, <1>6 DEF Next

\* With requests one at a time, and as long as a file is the receipt of one paid charge, the
\* receipt of a paid charge is in the storage: replacing a receipt deletes the file that was
\* replaced, after the transaction and never when it failed.
THEOREM SerialReceipts ==
  ASSUME OneAtATime, MaxReopens <= 1
  PROVE  Spec /\ []OneUse => []ReceiptOnFile
<1>1. RInv => ReceiptOnFile
  BY DEF RInv
<1>2. RInv /\ OneUse /\ [Next]_vars => RInv'
  BY NextFiles
<1>3. QED
  BY <1>1, <1>2, InitFiles, PTL DEF Spec
===============================================================================
