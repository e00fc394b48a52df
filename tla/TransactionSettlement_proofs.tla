--------------------- MODULE TransactionSettlement_proofs ---------------------
(***************************************************************************)
(* Theorems about TransactionSettlement, for every set of transactions,    *)
(* units, amounts, receipts and requests in progress, and about            *)
(* WorkTimelines, whose works and maintenances transactions are linked to. *)
(***************************************************************************)
EXTENDS TransactionSettlement, Sums_proofs, Sequences, SequenceTheorems, TLAPS

\* Those of WorkTimelines.
CONSTANTS Engines, Works, Maintenances, Budgets, MaxEntries, MaxFiles, MaxUpload,
          Slots, MaxRequests, MaxStops
VARIABLES engine, works, maintenances, txs, shown, entries, budgets, rows, stored,
          tasks, asked, stops, interrupted

\* What a request has loaded when it is about to use it.
WellFormed(r) ==
    /\ r.pc # "idle" => r.t \in Txs
    /\ r.pc \in {"settle_file", "settle_commit"} =>
          r.ent # None /\ r.base = r.ent /\ r.ent.status = "pending"
    /\ r.pc \in {"settle_begin", "settle_file", "settle_commit"} => r.receipt # Keep
    /\ r.pc = "reopen_commit" => r.ent # None /\ r.base = r.ent /\ r.ent.status = "paid"
    /\ r.pc \in {"cancel_load", "cancel_write", "update_file", "update_begin", "update_commit"}
          => r.ent # None

TInv == TypeOK /\ \A w \in Workers : WellFormed(req[w])

LEMMA IdleIsRequest == Idle \in Request /\ Idle.pc = "idle" /\ WellFormed(Idle)
  BY DEF Idle, Request, PCs, NoCredit, RowOrNone, WellFormed

LEMMA InitType == Init => TInv
  BY IdleIsRequest DEF Init, TInv, TypeOK, NoCredit, RowOrNone

\* save leaves a row or nothing where there was a row or nothing.
LEMMA SavedType ==
  ASSUME NEW row \in RowOrNone, NEW was \in RowOrNone, NEW ent \in Row
  PROVE  Saved(row, was, ent) \in RowOrNone
  BY DEF Saved, Merge, Row, RowOrNone

\* A step that changes one request keeps the others.
LEMMA OneRequest ==
  ASSUME TInv, NEW w \in Workers, NEW r \in Request, WellFormed(r),
         req' = [req EXCEPT ![w] = r]
  PROVE  req' \in [Workers -> Request] /\ \A v \in Workers : WellFormed(req'[v])
  BY DEF TInv, TypeOK

LEMMA FinishType ==
  ASSUME TInv, NEW w \in Workers, Finish(w)
  PROVE  req' \in [Workers -> Request] /\ \A v \in Workers : WellFormed(req'[v])
  BY OneRequest, IdleIsRequest DEF Finish

LEMMA StoredType ==
  ASSUME TInv, NEW w \in Workers, req[w].pc # "idle", NEW ent \in Row, SaveAs(w, ent)
  PROVE  tx' \in [Txs -> RowOrNone]
<1>1. req[w] \in Request /\ req[w].t \in Txs
  BY DEF TInv, TypeOK, WellFormed
<1>2. Saved(tx[req[w].t], req[w].base, ent) \in RowOrNone
  BY <1>1, SavedType DEF TInv, TypeOK, Request
<1>3. QED
  BY <1>1, <1>2 DEF SaveAs, TInv, TypeOK

LEMMA DeleteFileType ==
  ASSUME TypeOK, NEW r, DeleteFile(r)
  PROVE  files' \in [Receipts -> {"absent", "stored", "deleted"}]
  BY DEF TypeOK, DeleteFile

-----------------------------------------------------------------------------
LEMMA SettleType ==
  ASSUME TInv, NEW w \in Workers, Settle(w)
  PROVE  TInv'
<1> USE IdleIsRequest DEF ledger
<1>1. ASSUME NEW t \in Txs, NEW u \in Units \cup {None}, NEW r \in Receipts \cup {None},
             SettleRead(w, t, u, r)
      PROVE  TInv'
  <2> DEFINE q == [Idle EXCEPT !.pc = "settle_begin", !.t = t, !.unit = u, !.receipt = r]
  <2>1. q \in Request /\ WellFormed(q)
    BY ConstantsAssumption DEF Idle, Request, PCs, WellFormed, NoCredit, RowOrNone
  <2>2. QED
    BY <1>1, <2>1, OneRequest DEF SettleRead, Start, TInv, TypeOK
<1>2. CASE SettleBegin(w)
  <2> DEFINE t == req[w].t
             q(pc) == [req[w] EXCEPT !.pc = pc, !.ent = tx[t], !.base = tx[t], !.seen = given[t]]
  <2>1. t \in Txs /\ req[w] \in Request /\ req[w].receipt # Keep
    BY <1>2 DEF SettleBegin, TInv, TypeOK, WellFormed
  <2>2. tx[t] \in RowOrNone /\ tx[t] # None /\ tx[t].status = "pending" /\ given[t] \in [Units -> Nat]
    BY <1>2, <2>1 DEF SettleBegin, IsPending, TInv, TypeOK
  <2>3. ASSUME NEW pc \in {"settle_file", "settle_commit"}
        PROVE  q(pc) \in Request /\ WellFormed(q(pc))
    BY <2>1, <2>2 DEF Request, PCs, WellFormed
  <2>4. PICK pc \in {"settle_file", "settle_commit"} : req' = [req EXCEPT ![w] = q(pc)]
    BY <1>2 DEF SettleBegin
  <2>5. QED
    BY <1>2, <2>3, <2>4, OneRequest DEF SettleBegin, TInv, TypeOK
<1>3. CASE SettleFile(w)
  <2> DEFINE q == [req[w] EXCEPT !.pc = "settle_commit"]
  <2>1. q \in Request /\ WellFormed(q)
    <3>r. req[w] \in Request
      BY DEF TInv, TypeOK
    <3>1. q \in Request
      BY <3>r DEF Request, PCs
    <3>2. WellFormed(q)
      BY <1>3 DEF SettleFile, TInv, TypeOK, Request, WellFormed
    <3>3. QED
      BY <3>1, <3>2
  <2>2. QED
    BY <1>3, <2>1, OneRequest, DeleteFileType DEF SettleFile, TInv, TypeOK
<1>4. CASE SettleCommit(w)
  <2> DEFINE ent == AsPaid(req[w].ent, req[w].receipt)
  <2>1. req[w] \in Request /\ req[w].pc # "idle" /\ req[w].t \in Txs /\ req[w].ent \in Row
        /\ req[w].receipt \in Receipts \cup {None}
    BY <1>4 DEF SettleCommit, TInv, TypeOK, WellFormed, Request, RowOrNone
  <2>2. ent \in Row
    BY <2>1 DEF AsPaid, NewKey, Row
  <2>3. tx' \in [Txs -> RowOrNone]
    BY <1>4, <2>1, <2>2, StoredType DEF SettleCommit
  <2>4. given' \in [Txs -> [Units -> Nat]] /\ taken' \in [Txs -> [Units -> Nat]]
        /\ balance' \in [Units -> Int]
    <3>1. req[w].ent.amount \in Nat
      BY <2>1, ConstantsAssumption DEF Row
    <3>2. req[w].unit = None => UNCHANGED ledger
      BY <1>4 DEF SettleCommit
    <3>3. req[w].unit # None =>
             /\ given' = [given EXCEPT ![req[w].t][req[w].unit] = @ + req[w].ent.amount]
             /\ balance' = [balance EXCEPT ![req[w].unit] = @ + req[w].ent.amount]
             /\ taken' = taken
      BY <1>4 DEF SettleCommit
    <3>4. req[w].unit # None => req[w].unit \in Units
      BY <2>1 DEF Request
    <3>5. CASE req[w].unit = None
      BY <3>2, <3>5 DEF ledger, TInv, TypeOK
    <3>6. CASE req[w].unit # None
      <4>1. given' \in [Txs -> [Units -> Nat]]
        <5> DEFINE u == req[w].unit
                   row == [given[req[w].t] EXCEPT ![u] = @ + req[w].ent.amount]
        <5>1. given[req[w].t] \in [Units -> Nat] /\ u \in Units
          BY <2>1, <3>4, <3>6 DEF TInv, TypeOK
        <5>2. given[req[w].t][u] + req[w].ent.amount \in Nat
          BY <3>1, <5>1
        <5>3. row \in [Units -> Nat]
          BY <5>1, <5>2
        <5>4. given' = [given EXCEPT ![req[w].t] = row]
          BY <3>3, <3>6
        <5>5. QED
          BY <5>3, <5>4 DEF TInv, TypeOK
      <4>2. balance' \in [Units -> Int]
        BY <3>1, <3>3, <3>4, <3>6 DEF TInv, TypeOK
      <4>3. QED
        BY <3>3, <3>6, <4>1, <4>2 DEF TInv, TypeOK
    <3>7. QED
      BY <3>5, <3>6
  <2>5. QED
    BY <1>4, <2>3, <2>4, FinishType DEF SettleCommit, TInv, TypeOK
<1>5. QED
  BY <1>1, <1>2, <1>3, <1>4 DEF Settle

LEMMA CancelType ==
  ASSUME TInv, NEW w \in Workers, Cancel(w)
  PROVE  TInv'
<1> USE IdleIsRequest DEF ledger
<1>1. ASSUME NEW t \in Txs, CancelRead(w, t)
      PROVE  TInv'
  <2> DEFINE q == [Idle EXCEPT !.pc = "cancel_load", !.t = t, !.ent = tx[t]]
  <2>1. tx[t] \in RowOrNone /\ tx[t] # None
    BY <1>1 DEF CancelRead, Cancellable, IsPending, TInv, TypeOK
  <2>2. q \in Request /\ WellFormed(q)
    BY <2>1 DEF Idle, Request, PCs, WellFormed, NoCredit, RowOrNone
  <2>3. QED
    BY <1>1, <2>2, OneRequest DEF CancelRead, Start, TInv, TypeOK
<1>2. CASE CancelLoad(w)
  <2> DEFINE q == [req[w] EXCEPT !.pc = "cancel_write", !.base = tx[req[w].t]]
  <2>1. q \in Request /\ WellFormed(q)
    <3>r. req[w] \in Request
      BY DEF TInv, TypeOK
    <3>t. tx[req[w].t] \in RowOrNone
      BY <1>2 DEF CancelLoad, TInv, TypeOK, WellFormed
    <3>1. q \in Request
      BY <3>r, <3>t DEF Request, PCs
    <3>2. WellFormed(q)
      BY <1>2 DEF CancelLoad, TInv, TypeOK, Request, WellFormed
    <3>3. QED
      BY <3>1, <3>2
  <2>2. QED
    BY <1>2, <2>1, OneRequest DEF CancelLoad, TInv, TypeOK
<1>3. CASE CancelWrite(w)
  <2>1. req[w].pc # "idle" /\ req[w].ent \in Row
    BY <1>3 DEF CancelWrite, TInv, TypeOK, WellFormed, Request, RowOrNone
  <2>2. [req[w].ent EXCEPT !.status = "cancelled"] \in Row
    BY <2>1 DEF Row
  <2>3. QED
    BY <1>3, <2>1, <2>2, StoredType, FinishType DEF CancelWrite, TInv, TypeOK
<1>4. QED
  BY <1>1, <1>2, <1>3 DEF Cancel

LEMMA ReopenType ==
  ASSUME TInv, NEW w \in Workers, Reopen(w)
  PROVE  TInv'
<1> USE IdleIsRequest DEF ledger
<1>1. ASSUME NEW t \in Txs, ReopenRead(w, t)
      PROVE  TInv'
  <2> DEFINE q == [Idle EXCEPT !.pc = "reopen_begin", !.t = t]
  <2>1. q \in Request /\ WellFormed(q)
    BY DEF Idle, Request, PCs, WellFormed, NoCredit, RowOrNone
  <2>2. QED
    BY <1>1, <2>1, OneRequest DEF ReopenRead, Start, TInv, TypeOK
<1>2. CASE ReopenBegin(w)
  <2> DEFINE t == req[w].t
             q == [req[w] EXCEPT !.pc = "reopen_commit", !.ent = tx[t], !.base = tx[t],
                                 !.seen = given[t]]
  <2>1. t \in Txs /\ req[w] \in Request
    BY <1>2 DEF ReopenBegin, TInv, TypeOK, WellFormed
  <2>2. tx[t] \in RowOrNone /\ tx[t] # None /\ tx[t].status = "paid" /\ given[t] \in [Units -> Nat]
    BY <1>2, <2>1 DEF ReopenBegin, IsPaid, TInv, TypeOK
  <2>3. q \in Request /\ WellFormed(q)
    <3>1. q \in Request
      BY <2>1, <2>2 DEF Request, PCs
    <3>2. WellFormed(q)
      BY <2>1, <2>2 DEF Request, WellFormed
    <3>3. QED
      BY <3>1, <3>2
  <2>4. QED
    BY <1>2, <2>3, OneRequest DEF ReopenBegin, TInv, TypeOK
<1>3. CASE ReopenCommit(w)
  <2> DEFINE t == req[w].t
             seen == req[w].seen
  <2>1. req[w].pc # "idle" /\ t \in Txs /\ req[w].ent \in Row /\ seen \in [Units -> Nat]
    BY <1>3 DEF ReopenCommit, TInv, TypeOK, WellFormed, Request, RowOrNone
  <2>2. [req[w].ent EXCEPT !.status = "pending"] \in Row
    BY <2>1 DEF Row
  <2>3. tx' \in [Txs -> RowOrNone]
    BY <1>3, <2>1, <2>2, StoredType DEF ReopenCommit
  <2>4. taken' \in [Txs -> [Units -> Nat]]
    <3>1. [u \in Units |-> taken[t][u] + seen[u]] \in [Units -> Nat]
      BY <2>1 DEF TInv, TypeOK
    <3>2. taken' = [taken EXCEPT ![t] = [u \in Units |-> taken[t][u] + seen[u]]]
      BY <1>3 DEF ReopenCommit, TakenBack
    <3>3. QED
      BY <3>1, <3>2 DEF TInv, TypeOK
  <2>5. balance' \in [Units -> Int] /\ reopens' \in [Txs -> Nat]
    BY <1>3, <2>1 DEF ReopenCommit, TakenBack, TInv, TypeOK
  <2>6. QED
    BY <1>3, <2>3, <2>4, <2>5, FinishType DEF ReopenCommit, TInv, TypeOK
<1>4. QED
  BY <1>1, <1>2, <1>3 DEF Reopen

LEMMA UpdateType ==
  ASSUME TInv, NEW w \in Workers, Update(w)
  PROVE  TInv'
<1> USE IdleIsRequest DEF ledger
<1>1. ASSUME NEW t \in Txs, NEW kind \in Kinds, NEW amount \in Amounts,
             NEW r \in Receipts \cup {None, Keep}, UpdateRead(w, t, kind, amount, r)
      PROVE  TInv'
  <2> DEFINE ent == [tx[t] EXCEPT !.kind = kind, !.amount = amount,
                                  !.receipt = IF r = Keep THEN @ ELSE r]
             q(pc) == [Idle EXCEPT !.pc = pc, !.t = t, !.ent = ent, !.receipt = tx[t].receipt]
  <2>1. tx[t] \in Row
    BY <1>1 DEF UpdateRead, TInv, TypeOK, RowOrNone
  <2>2. ent \in Row /\ ent # None /\ tx[t].receipt \in Receipts \cup {None}
    BY <2>1, ConstantsAssumption DEF Row
  <2>3. ASSUME NEW pc \in {"update_file", "update_begin"}
        PROVE  q(pc) \in Request /\ WellFormed(q(pc))
    <3>1. q(pc) \in Request
      <4> HIDE DEF ent
      <4>1. QED
        BY <2>2, <2>3 DEF Idle, Request, PCs, NoCredit, RowOrNone
    <3>2. WellFormed(q(pc))
      BY <2>2 DEF Idle, Request, WellFormed, NoCredit, RowOrNone
    <3>3. QED
      BY <3>1, <3>2
  <2>4. PICK pc \in {"update_file", "update_begin"} : req' = [req EXCEPT ![w] = q(pc)]
    BY <1>1 DEF UpdateRead, Start
  <2>5. QED
    BY <1>1, <2>3, <2>4, OneRequest DEF UpdateRead, TInv, TypeOK
<1>2. CASE UpdateFile(w)
  <2> DEFINE q == [req[w] EXCEPT !.pc = "update_begin"]
  <2>1. q \in Request /\ WellFormed(q)
    <3>r. req[w] \in Request
      BY DEF TInv, TypeOK
    <3>1. q \in Request
      BY <3>r DEF Request, PCs
    <3>2. WellFormed(q)
      BY <1>2 DEF UpdateFile, TInv, TypeOK, Request, WellFormed
    <3>3. QED
      BY <3>1, <3>2
  <2>2. QED
    BY <1>2, <2>1, OneRequest, DeleteFileType DEF UpdateFile, TInv, TypeOK
<1>3. CASE UpdateBegin(w)
  <2> DEFINE q == [req[w] EXCEPT !.pc = "update_commit", !.base = tx[req[w].t]]
  <2>1. q \in Request /\ WellFormed(q)
    <3>r. req[w] \in Request
      BY DEF TInv, TypeOK
    <3>t. tx[req[w].t] \in RowOrNone
      BY <1>3 DEF UpdateBegin, TInv, TypeOK, WellFormed
    <3>1. q \in Request
      BY <3>r, <3>t DEF Request, PCs
    <3>2. WellFormed(q)
      BY <1>3 DEF UpdateBegin, TInv, TypeOK, Request, WellFormed
    <3>3. QED
      BY <3>1, <3>2
  <2>2. QED
    BY <1>3, <2>1, OneRequest DEF UpdateBegin, TInv, TypeOK
<1>4. CASE UpdateCommit(w)
  <2>1. req[w].pc # "idle" /\ req[w].ent \in Row
    BY <1>4 DEF UpdateCommit, TInv, TypeOK, WellFormed, Request, RowOrNone
  <2>2. tx' \in [Txs -> RowOrNone]
    BY <1>4, <2>1, StoredType DEF UpdateCommit
  <2>3. ASSUME NEW v \in Workers
        PROVE  req'[v] \in Request /\ WellFormed(req'[v])
    <3>1. req'[v] \in {Idle, [req[v] EXCEPT !.shares = "replaced"], req[v]}
      BY <1>4 DEF UpdateCommit
    <3>2. req[v] \in Request /\ WellFormed(req[v])
      BY DEF TInv, TypeOK
    <3>3. [req[v] EXCEPT !.shares = "replaced"] \in Request
          /\ WellFormed([req[v] EXCEPT !.shares = "replaced"])
      BY <3>2 DEF Request, WellFormed
    <3>4. QED
      BY <3>1, <3>2, <3>3
  <2>4. req' \in [Workers -> Request]
    BY <1>4, <2>3 DEF UpdateCommit
  <2>5. QED
    BY <1>4, <2>2, <2>3, <2>4 DEF UpdateCommit, TInv, TypeOK
<1>5. QED
  BY <1>1, <1>2, <1>3, <1>4 DEF Update

LEMMA RemoveType ==
  ASSUME TInv, NEW w \in Workers, Remove(w)
  PROVE  TInv'
<1> USE IdleIsRequest DEF ledger
<1>1. ASSUME NEW t \in Txs, RemoveRead(w, t)
      PROVE  TInv'
  <2> DEFINE q == [Idle EXCEPT !.pc = "remove_file", !.t = t, !.ent = tx[t]]
  <2>1. q \in Request /\ WellFormed(q)
    BY DEF TInv, TypeOK, Idle, Request, PCs, WellFormed, NoCredit, RowOrNone
  <2>2. QED
    BY <1>1, <2>1, OneRequest DEF RemoveRead, Start, TInv, TypeOK
<1>2. CASE RemoveFile(w)
  <2> DEFINE q == [req[w] EXCEPT !.pc = "remove_row"]
  <2>1. q \in Request /\ WellFormed(q)
    <3>r. req[w] \in Request
      BY DEF TInv, TypeOK
    <3>1. q \in Request
      BY <3>r DEF Request, PCs
    <3>2. WellFormed(q)
      BY <1>2 DEF RemoveFile, TInv, TypeOK, Request, WellFormed
    <3>3. QED
      BY <3>1, <3>2
  <2>2. files' \in [Receipts -> {"absent", "stored", "deleted"}]
    BY <1>2, DeleteFileType DEF RemoveFile, TInv, TypeOK
  <2>3. QED
    BY <1>2, <2>1, <2>2, OneRequest DEF RemoveFile, TInv, TypeOK
<1>3. CASE RemoveRow(w)
  BY <1>3, FinishType DEF RemoveRow, TInv, TypeOK, NoCredit, RowOrNone
<1>4. QED
  BY <1>1, <1>2, <1>3 DEF Remove

LEMMA NextType == TInv /\ [Next]_vars => TInv'
<1> SUFFICES ASSUME TInv, [Next]_vars
             PROVE  TInv'
  OBVIOUS
<1> USE DEF ledger
<1>1. ASSUME NEW w \in Workers, Fail(w)
      PROVE  TInv'
  BY <1>1, FinishType DEF Fail, TInv, TypeOK
<1>2. ASSUME NEW r \in Receipts, Upload(r)
      PROVE  TInv'
  BY <1>2 DEF Upload, TInv, TypeOK
<1>3. ASSUME NEW t \in Txs, NEW kind \in Kinds, NEW amount \in Amounts,
             NEW r \in Receipts \cup {None}, Create(t, kind, amount, r)
      PROVE  TInv'
  <2>1. [kind |-> kind, amount |-> amount, status |-> "pending", receipt |-> r] \in RowOrNone
    BY DEF Row, RowOrNone
  <2>2. QED
    BY <1>3, <2>1 DEF Create, TInv, TypeOK
<1>4. CASE UNCHANGED vars
  BY <1>4 DEF vars, TInv, TypeOK
<1>5. QED
  BY <1>1, <1>2, <1>3, <1>4, SettleType, CancelType, ReopenType, UpdateType, RemoveType DEF Next

\* The transactions, the credit of the units and the requests in progress keep
\* their types: no interleaving of saves of stale entities makes a row of two
\* that is no row, or credit that is negative.
THEOREM TypeCorrect == Spec => []TypeOK
<1>1. TInv => TypeOK
  BY DEF TInv
<1>2. QED
  BY <1>1, InitType, NextType, PTL DEF Spec

-----------------------------------------------------------------------------
(***************************************************************************)
(* Credit moves in two actions only, and each of them saves an entity that *)
(* differs in its status from the row `save` compares it with.             *)
(***************************************************************************)
LEMMA StatusWritten ==
  ASSUME TInv, NEW w \in Workers, NEW ent \in Row, SaveAs(w, ent),
         req[w].t \in Txs, req[w].base \in Row, req[w].base.status # ent.status,
         tx'[req[w].t] # None
  PROVE  tx'[req[w].t].status = ent.status
<1> DEFINE row == tx[req[w].t]
<1>1. tx'[req[w].t] = Saved(row, req[w].base, ent)
  BY DEF SaveAs, TInv, TypeOK
<1>2. row \in Row /\ tx'[req[w].t] = Merge(row, req[w].base, ent)
  BY <1>1, ConstantsAssumption DEF Saved, TInv, TypeOK, RowOrNone
<1>3. QED
  BY <1>2 DEF Merge, Row

LEMMA GivenAsPaid ==
  ASSUME TInv, NEW w \in Workers, SettleCommit(w), NEW t \in Txs,
         given'[t] # given[t], tx'[t] # None
  PROVE  tx'[t].status = "paid"
<1>1. req[w] \in Request /\ req[w].t \in Txs /\ req[w].ent \in Row /\ req[w].base = req[w].ent
      /\ req[w].ent.status = "pending" /\ req[w].receipt \in Receipts \cup {None}
  BY DEF SettleCommit, TInv, TypeOK, WellFormed, Request, RowOrNone
<1>2. t = req[w].t
  BY <1>1 DEF SettleCommit, ledger, TInv, TypeOK
<1> DEFINE ent == AsPaid(req[w].ent, req[w].receipt)
<1>3. ent \in Row /\ ent.status = "paid"
  BY <1>1 DEF AsPaid, NewKey, Row
<1>4. QED
  BY <1>1, <1>2, <1>3, StatusWritten DEF SettleCommit

LEMMA TakenAsPending ==
  ASSUME TInv, NEW w \in Workers, ReopenCommit(w), NEW t \in Txs,
         taken'[t] # taken[t], tx'[t] # None
  PROVE  tx'[t].status = "pending"
<1>1. req[w].t \in Txs /\ req[w].ent \in Row /\ req[w].base = req[w].ent
      /\ req[w].ent.status = "paid"
  BY DEF ReopenCommit, TInv, TypeOK, WellFormed, Request, RowOrNone
<1>2. t = req[w].t
  BY <1>1 DEF ReopenCommit, TInv, TypeOK
<1> DEFINE ent == [req[w].ent EXCEPT !.status = "pending"]
<1>3. ent \in Row /\ ent.status = "pending"
  BY <1>1 DEF Row
<1>4. QED
  BY <1>1, <1>2, <1>3, StatusWritten DEF ReopenCommit

LEMMA OthersKeepCredit ==
  ASSUME [Next]_vars
  PROVE  \/ \E w \in Workers : SettleCommit(w) \/ ReopenCommit(w) \/ RemoveRow(w)
         \/ UNCHANGED <<given, taken>>
<1> USE DEF ledger
<1>1. ASSUME NEW w \in Workers, Settle(w), ~ SettleCommit(w)
      PROVE  UNCHANGED <<given, taken>>
  BY <1>1 DEF Settle, SettleRead, SettleBegin, SettleFile
<1>2. ASSUME NEW w \in Workers, Cancel(w) \/ Update(w) \/ Fail(w)
      PROVE  UNCHANGED <<given, taken>>
  <2>1. Cancel(w) \/ Fail(w) => UNCHANGED <<given, taken>>
    BY DEF Cancel, CancelRead, CancelLoad, CancelWrite, Fail
  <2>2. ASSUME NEW t, NEW kind, NEW amount, NEW r, UpdateRead(w, t, kind, amount, r)
        PROVE  UNCHANGED <<given, taken>>
    BY <2>2 DEF UpdateRead
  <2>3. UpdateFile(w) \/ UpdateBegin(w) \/ UpdateCommit(w) => UNCHANGED <<given, taken>>
    BY DEF UpdateFile, UpdateBegin, UpdateCommit
  <2>4. QED
    BY <1>2, <2>1, <2>2, <2>3 DEF Update
<1>3. ASSUME NEW w \in Workers, Reopen(w), ~ ReopenCommit(w)
      PROVE  UNCHANGED <<given, taken>>
  BY <1>3 DEF Reopen, ReopenRead, ReopenBegin
<1>4. ASSUME NEW w \in Workers, Remove(w), ~ RemoveRow(w)
      PROVE  UNCHANGED <<given, taken>>
  BY <1>4 DEF Remove, RemoveRead, RemoveFile
<1>5. (\E r \in Receipts : Upload(r)) \/ (\E t \in Txs, kind \in Kinds, amount \in Amounts,
         r \in Receipts \cup {None} : Create(t, kind, amount, r)) => UNCHANGED <<given, taken>>
  BY DEF Upload, Create
<1>6. QED
  BY <1>1, <1>2, <1>3, <1>4, <1>5 DEF Next, vars

\* However settlements, cancellations, edits, reopenings and removals interleave
\* and fail, a unit gets credit only in the step that leaves the transaction
\* paid, and loses it only in one that leaves it pending or removes it.
THEOREM CreditFollowsStatus == Spec => CreditOnlyWithStatus
<1> DEFINE A == \A t \in Txs :
                  /\ given'[t] # given[t] /\ tx'[t] # None => tx'[t].status = "paid"
                  /\ taken'[t] # taken[t] /\ tx'[t] # None => tx'[t].status = "pending"
<1>1. TInv /\ [Next]_vars => [A]_vars
  <2> SUFFICES ASSUME TInv, [Next]_vars
               PROVE  A
    OBVIOUS
  <2>1. ASSUME NEW w \in Workers, SettleCommit(w)
        PROVE  A
    BY <2>1, GivenAsPaid DEF SettleCommit, ledger, TInv, TypeOK
  <2>2. ASSUME NEW w \in Workers, ReopenCommit(w)
        PROVE  A
    BY <2>2, TakenAsPending DEF ReopenCommit
  <2>3. ASSUME NEW w \in Workers, RemoveRow(w)
        PROVE  A
    <3>1. req[w].t \in Txs
      BY <2>3 DEF RemoveRow, TInv, TypeOK, WellFormed
    <3>2. tx'[req[w].t] = None /\ \A t \in Txs \ {req[w].t} : given'[t] = given[t] /\ taken'[t] = taken[t]
      BY <2>3, <3>1 DEF RemoveRow, TInv, TypeOK
    <3>3. QED
      BY <3>2
  <2>4. QED
    BY <2>1, <2>2, <2>3, OthersKeepCredit
<1>2. QED
  BY <1>1, InitType, NextType, PTL DEF Spec, CreditOnlyWithStatus

-----------------------------------------------------------------------------
(***************************************************************************)
(* Requests one at a time, and no transaction reopened twice.              *)
(***************************************************************************)
OneAtATime == \A v, w \in Workers : v = w

\* What the ledger holds of a transaction: nothing on balance, or the amount of a
\* transaction that is paid, all of it for one unit and none of it taken back.
Booked(t) ==
    /\ tx[t] # None => t \in used
    /\ reopens[t] = 0 => taken[t] = NoCredit
    /\ \/ given[t] = taken[t]
       \/ /\ IsPaid(t) /\ taken[t] = NoCredit
          /\ \E u \in Units : given[t] = [NoCredit EXCEPT ![u] = tx[t].amount]

\* What a request has read of its transaction still holds, since no other came in between.
Holds(r) ==
    /\ r.pc # "idle" => tx[r.t] # None
    /\ r.pc \in {"settle_begin", "settle_file", "settle_commit", "cancel_load", "cancel_write"}
          => tx[r.t].status = "pending"
    /\ r.pc \in {"settle_file", "settle_commit", "cancel_load", "cancel_write", "reopen_commit"}
          => r.ent = tx[r.t]
    /\ r.pc \in {"settle_file", "settle_commit", "cancel_write", "reopen_commit", "update_commit"}
          => r.base = tx[r.t]
    /\ r.pc \in {"settle_file", "settle_commit", "reopen_commit"} => r.seen = given[r.t]
    /\ r.pc \in {"reopen_begin", "reopen_commit"}
          => tx[r.t].status = "paid" /\ reopens[r.t] < MaxReopens
    /\ r.pc \in {"update_file", "update_begin", "update_commit"} =>
          /\ r.ent.status = tx[r.t].status
          /\ r.ent.status # "pending" => r.ent.amount = tx[r.t].amount
    /\ r.pc \in {"remove_file", "remove_row"} => tx[r.t].status # "paid"

EInv == TInv /\ (\A t \in Txs : Booked(t)) /\ \A w \in Workers : Holds(req[w])

\* A save over the row it was compared with writes the entity.
LEMMA SavedOverBase == ASSUME NEW row \in Row, NEW ent \in Row PROVE Saved(row, row, ent) = ent
  BY ConstantsAssumption DEF Saved, Merge, Row

LEMMA Loaded ==
  ASSUME EInv, NEW w \in Workers, req[w].pc # "idle"
  PROVE  /\ req[w] \in Request /\ Holds(req[w]) /\ Booked(req[w].t)
         /\ req[w].t \in Txs /\ tx[req[w].t] \in Row
         /\ given[req[w].t] \in [Units -> Nat] /\ taken[req[w].t] \in [Units -> Nat]
         /\ reopens[req[w].t] \in Nat
<1>1. req[w] \in Request /\ req[w].t \in Txs /\ Holds(req[w]) /\ Booked(req[w].t)
  BY DEF EInv, TInv, TypeOK, WellFormed
<1>2. tx[req[w].t] # None
  BY <1>1 DEF Holds
<1>3. QED
  BY <1>1, <1>2 DEF EInv, TInv, TypeOK, RowOrNone

\* A request that has written nothing but files goes on, or ends.
LEMMA GoesOn ==
  ASSUME OneAtATime, EInv, TInv', NEW w \in Workers, NEW q, req' = [req EXCEPT ![w] = q],
         Holds(q), UNCHANGED <<tx, used, given, taken, reopens>>
  PROVE  EInv'
<1>1. \A t \in Txs : Booked(t)'
  BY DEF EInv, Booked, IsPaid
<1>2. req'[w] = q
  BY DEF EInv, TInv, TypeOK
<1>3. Holds(req[w])'
  BY <1>2 DEF Holds
<1>4. QED
  BY <1>1, <1>3 DEF EInv, OneAtATime

LEMMA IdleHolds == Holds(Idle)
  BY DEF Holds, Idle

\* The last step of a request is about its transaction only.
LEMMA Ends ==
  ASSUME OneAtATime, EInv, TInv', NEW w \in Workers, NEW t \in Txs, req'[w] = Idle,
         Booked(t)', used' = used,
         \A d \in Txs \ {t} : /\ tx'[d] = tx[d] /\ given'[d] = given[d]
                              /\ taken'[d] = taken[d] /\ reopens'[d] = reopens[d]
  PROVE  EInv'
<1>1. ASSUME NEW d \in Txs \ {t} PROVE Booked(d)'
  <2>1. Booked(d)
    BY DEF EInv
  <2>2. /\ tx'[d] = tx[d] /\ given'[d] = given[d] /\ taken'[d] = taken[d]
        /\ reopens'[d] = reopens[d]
    OBVIOUS
  <2>3. QED
    BY <2>1, <2>2 DEF Booked, IsPaid
<1>2. Holds(req[w])'
  BY DEF Holds, Idle
<1>3. QED
  BY <1>1, <1>2 DEF EInv, OneAtATime

\* What the last step of a request saves is its entity.
LEMMA SavesEntity ==
  ASSUME EInv, NEW w \in Workers, NEW ent \in Row, req[w].pc # "idle",
         req[w].base = tx[req[w].t], SaveAs(w, ent)
  PROVE  tx' = [tx EXCEPT ![req[w].t] = ent]
<1>1. tx[req[w].t] \in Row
  BY Loaded
<1>2. Saved(tx[req[w].t], req[w].base, ent) = ent
  BY <1>1, SavedOverBase
<1>3. QED
  BY <1>2 DEF SaveAs

\* What the last step of a settlement writes.
LEMMA SettleEffect ==
  ASSUME EInv, NEW w \in Workers, SettleCommit(w)
  PROVE  \E t \in Txs, ent \in Row :
            /\ IsPending(t) /\ ent.status = "paid" /\ ent.amount = tx[t].amount
            /\ tx' = [tx EXCEPT ![t] = ent] /\ req'[w] = Idle
            /\ UNCHANGED <<used, taken, reopens>>
            /\ \/ given' = given /\ balance' = balance
               \/ \E u \in Units :
                     /\ taken[t] = NoCredit
                     /\ given' = [given EXCEPT ![t] = [NoCredit EXCEPT ![u] = tx[t].amount]]
                     /\ balance' = [balance EXCEPT ![u] = @ + tx[t].amount]
<1> USE DEF ledger
<1>0. PICK t \in Txs : t = req[w].t
  BY Loaded DEF SettleCommit
<1>1. /\ req[w].pc = "settle_commit" /\ req[w] \in Request /\ tx[t] \in Row
      /\ req[w].ent = tx[t] /\ req[w].base = tx[t] /\ req[w].seen = given[t]
      /\ tx[t].status = "pending" /\ tx[t] # None
  BY <1>0, Loaded DEF SettleCommit, Holds
<1>2. req[w].receipt \in Receipts \cup {None}
  BY <1>1 DEF EInv, TInv, WellFormed, Request
<1>3. PICK ent \in Row : ent = AsPaid(req[w].ent, req[w].receipt)
  BY <1>1, <1>2 DEF AsPaid, NewKey, Row
<1>4. ent.status = "paid" /\ ent.amount = tx[t].amount
  BY <1>1, <1>3 DEF AsPaid, Row
<1>5. tx' = [tx EXCEPT ![t] = ent]
  BY <1>0, <1>1, <1>3, SavesEntity DEF SettleCommit
<1>6. req'[w] = Idle /\ UNCHANGED <<used, taken, reopens>>
  BY DEF SettleCommit, Finish, EInv, TInv, TypeOK
<1>7. given[t] = taken[t] /\ given[t] \in [Units -> Nat] /\ tx[t].amount \in Nat
  <2>1. ~ IsPaid(t) /\ Booked(t)
    BY <1>1 DEF IsPaid, EInv
  <2>2. given[t] = taken[t]
    BY <2>1 DEF Booked
  <2>3. QED
    BY <1>1, <2>2, ConstantsAssumption DEF Row, EInv, TInv, TypeOK
<1>8. CASE req[w].unit = None
  <2>1. given' = given /\ balance' = balance
    BY <1>8 DEF SettleCommit
  <2>2. QED
    BY <1>1, <1>4, <1>5, <1>6, <2>1 DEF IsPending
<1>9. CASE req[w].unit # None
  <2>1. PICK u \in Units : u = req[w].unit
    BY <1>1, <1>9 DEF Request
  <2>2. given[t] = NoCredit /\ given' = [given EXCEPT ![t][u] = @ + tx[t].amount]
        /\ balance' = [balance EXCEPT ![u] = @ + tx[t].amount]
    BY <1>0, <1>1, <1>9, <2>1 DEF SettleCommit, Registrable
  <2>3. [given[t] EXCEPT ![u] = @ + tx[t].amount] = [NoCredit EXCEPT ![u] = tx[t].amount]
    <3>1. given[t][u] + tx[t].amount = tx[t].amount
      BY <1>7, <2>2 DEF NoCredit
    <3>2. QED
      BY <2>2, <3>1
  <2>4. given' = [given EXCEPT ![t] = [NoCredit EXCEPT ![u] = tx[t].amount]]
    BY <2>2, <2>3
  <2>5. QED
    BY <1>1, <1>4, <1>5, <1>6, <1>7, <2>2, <2>4 DEF IsPending
<1>10. QED
  BY <1>8, <1>9

LEMMA SettleBooks ==
  ASSUME OneAtATime, EInv, TInv', NEW w \in Workers, Settle(w)
  PROVE  EInv'
<1> USE DEF ledger
<1>1. ASSUME NEW t \in Txs, NEW u \in Units \cup {None}, NEW r \in Receipts \cup {None},
             SettleRead(w, t, u, r)
      PROVE  EInv'
  <2> DEFINE q == [Idle EXCEPT !.pc = "settle_begin", !.t = t, !.unit = u, !.receipt = r]
  <2>1. q.pc = "settle_begin" /\ q.t = t
    BY DEF Idle
  <2>2. req' = [req EXCEPT ![w] = q] /\ UNCHANGED <<tx, used, given, taken, reopens>>
    BY <1>1 DEF SettleRead, Start
  <2> HIDE DEF q
  <2>3. Holds(q)
    BY <1>1, <2>1 DEF Holds, SettleRead, IsPending
  <2>4. QED
    BY <2>2, <2>3, GoesOn
<1>2. CASE SettleBegin(w)
  <2> DEFINE t == req[w].t
             q(pc) == [req[w] EXCEPT !.pc = pc, !.ent = tx[t], !.base = tx[t], !.seen = given[t]]
  <2>1. req[w] \in Request
    BY <1>2, Loaded DEF SettleBegin
  <2>2. PICK pc \in {"settle_file", "settle_commit"} : req' = [req EXCEPT ![w] = q(pc)]
    BY <1>2 DEF SettleBegin
  <2>3. /\ q(pc).pc = pc /\ q(pc).t = t /\ q(pc).ent = tx[t] /\ q(pc).base = tx[t]
        /\ q(pc).seen = given[t]
    BY <2>1 DEF Request
  <2>4. tx[t] # None /\ tx[t].status = "pending" /\ UNCHANGED <<tx, used, given, taken, reopens>>
    BY <1>2 DEF SettleBegin, IsPending
  <2> HIDE DEF q
  <2>5. Holds(q(pc))
    BY <2>3, <2>4 DEF Holds
  <2>6. QED
    BY <2>2, <2>4, <2>5, GoesOn
<1>3. CASE SettleFile(w)
  <2> DEFINE q == [req[w] EXCEPT !.pc = "settle_commit"]
  <2>1. req[w] \in Request /\ Holds(req[w]) /\ req[w].pc = "settle_file"
    BY <1>3, Loaded DEF SettleFile
  <2>2. q.pc = "settle_commit" /\ q.t = req[w].t /\ q.ent = req[w].ent /\ q.base = req[w].base
        /\ q.seen = req[w].seen
    BY <2>1 DEF Request
  <2>3. req' = [req EXCEPT ![w] = q] /\ UNCHANGED <<tx, used, given, taken, reopens>>
    BY <1>3 DEF SettleFile
  <2> HIDE DEF q
  <2>4. Holds(q)
    BY <2>1, <2>2 DEF Holds
  <2>5. QED
    BY <2>3, <2>4, GoesOn
<1>4. CASE SettleCommit(w)
  <2>1. PICK t \in Txs, ent \in Row :
           /\ IsPending(t) /\ ent.status = "paid" /\ ent.amount = tx[t].amount
           /\ tx' = [tx EXCEPT ![t] = ent] /\ req'[w] = Idle
           /\ UNCHANGED <<used, taken, reopens>>
           /\ \/ given' = given
              \/ \E u \in Units : /\ taken[t] = NoCredit
                                  /\ given' = [given EXCEPT ![t] = [NoCredit EXCEPT ![u] = tx[t].amount]]
    BY <1>4, SettleEffect
  <2>2. tx'[t] = ent /\ ent # None
    BY <2>1, ConstantsAssumption DEF EInv, TInv, TypeOK
  <2>3. Booked(t) /\ ~ IsPaid(t) /\ tx[t] # None
    BY <2>1 DEF EInv, IsPending, IsPaid
  <2>4. given'[t] = given[t] \/ \E u \in Units : /\ taken[t] = NoCredit
                                               /\ given'[t] = [NoCredit EXCEPT ![u] = tx[t].amount]
    BY <2>1 DEF EInv, TInv, TypeOK
  <2>5. Booked(t)'
    BY <2>1, <2>2, <2>3, <2>4 DEF Booked, IsPaid
  <2>6. \A d \in Txs \ {t} : tx'[d] = tx[d] /\ given'[d] = given[d]
    BY <2>1 DEF EInv, TInv, TypeOK
  <2>7. QED
    BY <2>1, <2>5, <2>6, Ends
<1>5. QED
  BY <1>1, <1>2, <1>3, <1>4 DEF Settle

\* What the last step of a cancellation writes.
LEMMA CancelEffect ==
  ASSUME EInv, NEW w \in Workers, CancelWrite(w)
  PROVE  \E t \in Txs, ent \in Row :
            /\ IsPending(t) /\ ent.status = "cancelled" /\ ent.amount = tx[t].amount
            /\ tx' = [tx EXCEPT ![t] = ent] /\ req'[w] = Idle
            /\ UNCHANGED <<used, given, taken, balance, reopens>>
<1>0. PICK t \in Txs : t = req[w].t
  BY Loaded DEF CancelWrite
<1>1. /\ req[w].pc = "cancel_write" /\ tx[t] \in Row /\ tx[t] # None
      /\ req[w].ent = tx[t] /\ req[w].base = tx[t] /\ tx[t].status = "pending"
  BY <1>0, Loaded DEF CancelWrite, Holds
<1>2. PICK ent \in Row : ent = [req[w].ent EXCEPT !.status = "cancelled"]
  BY <1>1 DEF Row
<1>3. ent.status = "cancelled" /\ ent.amount = tx[t].amount
  BY <1>1, <1>2 DEF Row
<1>4. SaveAs(w, ent) /\ Finish(w) /\ UNCHANGED <<used, given, taken, balance, reopens>>
  BY <1>2 DEF CancelWrite, ledger
<1>5. tx' = [tx EXCEPT ![t] = ent]
  BY <1>0, <1>1, <1>4, SavesEntity
<1>6. req'[w] = Idle
  BY <1>4 DEF Finish, EInv, TInv, TypeOK
<1>7. QED
  BY <1>1, <1>3, <1>4, <1>5, <1>6 DEF IsPending

LEMMA CancelBooks ==
  ASSUME OneAtATime, EInv, TInv', NEW w \in Workers, Cancel(w)
  PROVE  EInv'
<1> USE DEF ledger
<1>1. ASSUME NEW t \in Txs, CancelRead(w, t)
      PROVE  EInv'
  <2> DEFINE q == [Idle EXCEPT !.pc = "cancel_load", !.t = t, !.ent = tx[t]]
  <2>1. q.pc = "cancel_load" /\ q.t = t /\ q.ent = tx[t]
    BY DEF Idle
  <2>2. req' = [req EXCEPT ![w] = q] /\ UNCHANGED <<tx, used, given, taken, reopens>>
    BY <1>1 DEF CancelRead, Start
  <2> HIDE DEF q
  <2>3. Holds(q)
    BY <1>1, <2>1 DEF Holds, CancelRead, Cancellable, IsPending
  <2>4. QED
    BY <2>2, <2>3, GoesOn
<1>2. CASE CancelLoad(w)
  <2> DEFINE q == [req[w] EXCEPT !.pc = "cancel_write", !.base = tx[req[w].t]]
  <2>1. req[w] \in Request /\ Holds(req[w]) /\ req[w].pc = "cancel_load"
    BY <1>2, Loaded DEF CancelLoad
  <2>2. q.pc = "cancel_write" /\ q.t = req[w].t /\ q.ent = req[w].ent /\ q.base = tx[req[w].t]
    BY <2>1 DEF Request
  <2>3. req' = [req EXCEPT ![w] = q] /\ UNCHANGED <<tx, used, given, taken, reopens>>
    BY <1>2 DEF CancelLoad
  <2> HIDE DEF q
  <2>4. Holds(q)
    BY <2>1, <2>2 DEF Holds
  <2>5. QED
    BY <2>3, <2>4, GoesOn
<1>3. CASE CancelWrite(w)
  <2>1. PICK t \in Txs, ent \in Row :
           /\ IsPending(t) /\ ent.status = "cancelled" /\ ent.amount = tx[t].amount
           /\ tx' = [tx EXCEPT ![t] = ent] /\ req'[w] = Idle
           /\ UNCHANGED <<used, given, taken, reopens>>
    BY <1>3, CancelEffect
  <2>2. tx[t] # None /\ Booked(t) /\ ~ IsPaid(t)
    BY <2>1 DEF IsPending, IsPaid, EInv
  <2>3. Booked(t)'
    BY <2>1, <2>2 DEF Booked
  <2>4. QED
    BY <2>1, <2>3, Ends DEF EInv, TInv, TypeOK
<1>4. QED
  BY <1>1, <1>2, <1>3 DEF Cancel

\* What the last step of the first reopening writes.
LEMMA ReopenEffect ==
  ASSUME MaxReopens <= 1, EInv, NEW w \in Workers, ReopenCommit(w)
  PROVE  \E t \in Txs, ent \in Row :
            /\ IsPaid(t) /\ ent.status = "pending" /\ ent.amount = tx[t].amount
            /\ tx' = [tx EXCEPT ![t] = ent] /\ req'[w] = Idle /\ used' = used
            /\ taken[t] = NoCredit /\ reopens' = [reopens EXCEPT ![t] = @ + 1]
            /\ taken' = [taken EXCEPT ![t] = given[t]] /\ given' = given
            /\ balance' = [u \in Units |-> balance[u] - given[t][u]]
<1>0. PICK t \in Txs : t = req[w].t
  BY Loaded DEF ReopenCommit
<1>1. /\ req[w].pc = "reopen_commit" /\ tx[t] \in Row /\ tx[t] # None
      /\ req[w].ent = tx[t] /\ req[w].base = tx[t] /\ req[w].seen = given[t]
      /\ tx[t].status = "paid" /\ reopens[t] \in Nat /\ reopens[t] < MaxReopens
      /\ given[t] \in [Units -> Nat] /\ Booked(t)
  BY <1>0, Loaded DEF ReopenCommit, Holds
<1>2. PICK ent \in Row : ent = [req[w].ent EXCEPT !.status = "pending"]
  BY <1>1 DEF Row
<1>3. ent.status = "pending" /\ ent.amount = tx[t].amount
  BY <1>1, <1>2 DEF Row
<1>4. /\ SaveAs(w, ent) /\ Finish(w) /\ used' = used /\ given' = given
      /\ taken' = [taken EXCEPT ![t] = [u \in Units |-> @[u] + given[t][u]]]
      /\ balance' = [u \in Units |-> balance[u] - given[t][u]]
      /\ reopens' = [reopens EXCEPT ![t] = @ + 1]
  BY <1>0, <1>1, <1>2 DEF ReopenCommit, TakenBack
<1>5. tx' = [tx EXCEPT ![t] = ent]
  BY <1>0, <1>1, <1>4, SavesEntity
<1>6. req'[w] = Idle
  BY <1>4 DEF Finish, EInv, TInv, TypeOK
<1>7. taken[t] = NoCredit
  BY <1>1, ConstantsAssumption DEF Booked
<1>8. [u \in Units |-> taken[t][u] + given[t][u]] = given[t]
  BY <1>1, <1>7 DEF NoCredit
<1>9. taken' = [taken EXCEPT ![t] = given[t]]
  BY <1>4, <1>8
<1>10. QED
  BY <1>1, <1>3, <1>4, <1>5, <1>6, <1>7, <1>9 DEF IsPaid

LEMMA ReopenBooks ==
  ASSUME OneAtATime, MaxReopens <= 1, EInv, TInv', NEW w \in Workers, Reopen(w)
  PROVE  EInv'
<1> USE DEF ledger
<1>1. ASSUME NEW t \in Txs, ReopenRead(w, t)
      PROVE  EInv'
  <2> DEFINE q == [Idle EXCEPT !.pc = "reopen_begin", !.t = t]
  <2>1. q.pc = "reopen_begin" /\ q.t = t
    BY DEF Idle
  <2>2. req' = [req EXCEPT ![w] = q] /\ UNCHANGED <<tx, used, given, taken, reopens>>
    BY <1>1 DEF ReopenRead, Start
  <2> HIDE DEF q
  <2>3. Holds(q)
    BY <1>1, <2>1 DEF Holds, ReopenRead, IsPaid
  <2>4. QED
    BY <2>2, <2>3, GoesOn
<1>2. CASE ReopenBegin(w)
  <2> DEFINE t == req[w].t
             q == [req[w] EXCEPT !.pc = "reopen_commit", !.ent = tx[t], !.base = tx[t],
                                 !.seen = given[t]]
  <2>1. req[w] \in Request /\ Holds(req[w]) /\ req[w].pc = "reopen_begin"
    BY <1>2, Loaded DEF ReopenBegin
  <2>2. q.pc = "reopen_commit" /\ q.t = t /\ q.ent = tx[t] /\ q.base = tx[t] /\ q.seen = given[t]
    BY <2>1 DEF Request
  <2>3. req' = [req EXCEPT ![w] = q] /\ UNCHANGED <<tx, used, given, taken, reopens>>
    BY <1>2 DEF ReopenBegin
  <2> HIDE DEF q
  <2>4. Holds(q)
    BY <2>1, <2>2 DEF Holds
  <2>5. QED
    BY <2>3, <2>4, GoesOn
<1>3. CASE ReopenCommit(w)
  <2>1. PICK t \in Txs, ent \in Row :
           /\ IsPaid(t) /\ ent.status = "pending" /\ ent.amount = tx[t].amount
           /\ tx' = [tx EXCEPT ![t] = ent] /\ req'[w] = Idle /\ used' = used
           /\ taken[t] = NoCredit /\ reopens' = [reopens EXCEPT ![t] = @ + 1]
           /\ taken' = [taken EXCEPT ![t] = given[t]] /\ given' = given
    BY <1>3, ReopenEffect
  <2>2. tx[t] # None /\ Booked(t)
    BY <2>1 DEF IsPaid, EInv
  <2>3. taken'[t] = given[t] /\ reopens'[t] # 0
    BY <2>1 DEF EInv, TInv, TypeOK
  <2>4. Booked(t)'
    BY <2>1, <2>2, <2>3 DEF Booked
  <2>5. QED
    BY <2>1, <2>4, Ends DEF EInv, TInv, TypeOK
<1>4. QED
  BY <1>1, <1>2, <1>3 DEF Reopen

\* What the last step of an update writes.
LEMMA UpdateEffect ==
  ASSUME EInv, NEW w \in Workers, UpdateCommit(w)
  PROVE  \E t \in Txs, ent \in Row :
            /\ tx[t] # None /\ ent.status = tx[t].status
            /\ ent.status # "pending" => ent.amount = tx[t].amount
            /\ tx' = [tx EXCEPT ![t] = ent] /\ req'[w] = Idle
            /\ UNCHANGED <<used, given, taken, balance, reopens>>
<1>0. PICK t \in Txs : t = req[w].t
  BY Loaded DEF UpdateCommit
<1>1. PICK ent \in Row : ent = req[w].ent
  BY DEF UpdateCommit, EInv, TInv, TypeOK, WellFormed, Request, RowOrNone
<1>2. /\ req[w].pc = "update_commit" /\ req[w].base = tx[t] /\ tx[t] # None
      /\ ent.status = tx[t].status /\ (ent.status # "pending" => ent.amount = tx[t].amount)
  BY <1>0, <1>1, Loaded DEF UpdateCommit, Holds
<1>3. tx' = [tx EXCEPT ![t] = ent]
  BY <1>0, <1>1, <1>2, SavesEntity DEF UpdateCommit
<1>4. req'[w] = Idle /\ UNCHANGED <<used, given, taken, balance, reopens>>
  BY DEF UpdateCommit, ledger
<1>5. QED
  BY <1>2, <1>3, <1>4

LEMMA UpdateBooks ==
  ASSUME OneAtATime, EInv, TInv', NEW w \in Workers, Update(w)
  PROVE  EInv'
<1> USE DEF ledger
<1>1. ASSUME NEW t \in Txs, NEW kind \in Kinds, NEW amount \in Amounts,
             NEW r \in Receipts \cup {None, Keep}, UpdateRead(w, t, kind, amount, r)
      PROVE  EInv'
  <2> DEFINE old == tx[t].receipt
             key == IF r = Keep THEN old ELSE r
             ent == [tx[t] EXCEPT !.kind = kind, !.amount = amount, !.receipt = key]
             q(pc) == [Idle EXCEPT !.pc = pc, !.t = t, !.ent = ent, !.receipt = old]
  <2>1. tx[t] \in Row /\ tx[t] # None
    BY <1>1 DEF UpdateRead, EInv, TInv, TypeOK, RowOrNone
  <2>2. ent.status = tx[t].status /\ ent.amount = amount
    BY <2>1 DEF Row
  <2>3. tx[t].status # "pending" => amount = tx[t].amount
    BY <1>1 DEF UpdateRead, Editable, IsPending
  <2>4. PICK pc \in {"update_file", "update_begin"} : req' = [req EXCEPT ![w] = q(pc)]
    <3> DEFINE has == old # None /\ ent.receipt # old
    <3>1. tx[t].receipt = old /\ ent = [tx[t] EXCEPT !.kind = kind, !.amount = amount,
                                                     !.receipt = IF r = Keep THEN @ ELSE r]
      BY <2>1 DEF Row
    <3>2. req' = [req EXCEPT ![w] = q(IF has THEN "update_file" ELSE "update_begin")]
      BY <1>1, <3>1 DEF UpdateRead, Start
    <3>3. QED
      BY <3>2
  <2>5. q(pc).pc = pc /\ q(pc).t = t /\ q(pc).ent = ent
    BY DEF Idle
  <2>6. UNCHANGED <<tx, used, given, taken, reopens>>
    BY <1>1 DEF UpdateRead
  <2> HIDE DEF q, ent
  <2>7. Holds(q(pc))
    BY <2>1, <2>2, <2>3, <2>5 DEF Holds
  <2>8. QED
    BY <2>4, <2>6, <2>7, GoesOn
<1>2. CASE UpdateFile(w)
  <2> DEFINE q == [req[w] EXCEPT !.pc = "update_begin"]
  <2>1. req[w] \in Request /\ Holds(req[w]) /\ req[w].pc = "update_file"
    BY <1>2, Loaded DEF UpdateFile
  <2>2. q.pc = "update_begin" /\ q.t = req[w].t /\ q.ent = req[w].ent
    BY <2>1 DEF Request
  <2>3. req' = [req EXCEPT ![w] = q] /\ UNCHANGED <<tx, used, given, taken, reopens>>
    BY <1>2 DEF UpdateFile
  <2> HIDE DEF q
  <2>4. Holds(q)
    BY <2>1, <2>2 DEF Holds
  <2>5. QED
    BY <2>3, <2>4, GoesOn
<1>3. CASE UpdateBegin(w)
  <2> DEFINE q == [req[w] EXCEPT !.pc = "update_commit", !.base = tx[req[w].t]]
  <2>1. req[w] \in Request /\ Holds(req[w]) /\ req[w].pc = "update_begin"
    BY <1>3, Loaded DEF UpdateBegin
  <2>2. q.pc = "update_commit" /\ q.t = req[w].t /\ q.ent = req[w].ent /\ q.base = tx[req[w].t]
    BY <2>1 DEF Request
  <2>3. req' = [req EXCEPT ![w] = q] /\ UNCHANGED <<tx, used, given, taken, reopens>>
    BY <1>3 DEF UpdateBegin
  <2> HIDE DEF q
  <2>4. Holds(q)
    BY <2>1, <2>2 DEF Holds
  <2>5. QED
    BY <2>3, <2>4, GoesOn
<1>4. CASE UpdateCommit(w)
  <2>1. PICK t \in Txs, ent \in Row :
           /\ tx[t] # None /\ ent.status = tx[t].status
           /\ ent.status # "pending" => ent.amount = tx[t].amount
           /\ tx' = [tx EXCEPT ![t] = ent] /\ req'[w] = Idle
           /\ UNCHANGED <<used, given, taken, reopens>>
    BY <1>4, UpdateEffect
  <2>2. tx'[t] = ent /\ ent # None
    BY <2>1, ConstantsAssumption DEF EInv, TInv, TypeOK
  <2>3. Booked(t)
    BY DEF EInv
  <2>4. Booked(t)'
    BY <2>1, <2>2, <2>3 DEF Booked, IsPaid
  <2>5. QED
    BY <2>1, <2>4, Ends DEF EInv, TInv, TypeOK
<1>5. QED
  BY <1>1, <1>2, <1>3, <1>4 DEF Update

LEMMA RemoveBooks ==
  ASSUME OneAtATime, EInv, TInv', NEW w \in Workers, Remove(w)
  PROVE  EInv'
<1> USE DEF ledger
<1>1. ASSUME NEW t \in Txs, RemoveRead(w, t)
      PROVE  EInv'
  <2> DEFINE q == [Idle EXCEPT !.pc = "remove_file", !.t = t, !.ent = tx[t]]
  <2>1. q.pc = "remove_file" /\ q.t = t
    BY DEF Idle
  <2>2. req' = [req EXCEPT ![w] = q] /\ UNCHANGED <<tx, used, given, taken, reopens>>
    BY <1>1 DEF RemoveRead, Start
  <2> HIDE DEF q
  <2>3. Holds(q)
    BY <1>1, <2>1 DEF Holds, RemoveRead, Removable
  <2>4. QED
    BY <2>2, <2>3, GoesOn
<1>2. CASE RemoveFile(w)
  <2> DEFINE q == [req[w] EXCEPT !.pc = "remove_row"]
  <2>1. req[w] \in Request /\ Holds(req[w]) /\ req[w].pc = "remove_file"
    BY <1>2, Loaded DEF RemoveFile
  <2>2. q.pc = "remove_row" /\ q.t = req[w].t
    BY <2>1 DEF Request
  <2>3. req' = [req EXCEPT ![w] = q] /\ UNCHANGED <<tx, used, given, taken, reopens>>
    BY <1>2 DEF RemoveFile
  <2> HIDE DEF q
  <2>4. Holds(q)
    BY <2>1, <2>2 DEF Holds
  <2>5. QED
    BY <2>3, <2>4, GoesOn
<1>3. CASE RemoveRow(w)
  <2>0. PICK t \in Txs : t = req[w].t
    BY <1>3, Loaded DEF RemoveRow
  <2>1. /\ tx' = [tx EXCEPT ![t] = None] /\ req'[w] = Idle /\ used' = used /\ reopens' = reopens
        /\ given' = [given EXCEPT ![t] = NoCredit] /\ taken' = [taken EXCEPT ![t] = NoCredit]
    BY <1>3, <2>0 DEF RemoveRow, Finish, EInv, TInv, TypeOK
  <2>2. tx'[t] = None /\ given'[t] = NoCredit /\ taken'[t] = NoCredit
    BY <2>1 DEF EInv, TInv, TypeOK
  <2>3. Booked(t)'
    BY <2>2 DEF Booked
  <2>4. QED
    BY <2>1, <2>3, Ends DEF EInv, TInv, TypeOK
<1>4. QED
  BY <1>1, <1>2, <1>3 DEF Remove

LEMMA CreateBooks ==
  ASSUME EInv, TInv', NEW t \in Txs, NEW kind \in Kinds, NEW amount \in Amounts,
         NEW r \in Receipts \cup {None}, Create(t, kind, amount, r)
  PROVE  EInv'
<1>1. PICK row \in Row : tx' = [tx EXCEPT ![t] = row]
  BY DEF Create, Row
<1>2. /\ tx[t] = None /\ tx'[t] = row /\ row # None /\ used' = used \cup {t}
      /\ UNCHANGED <<given, taken, reopens, req>>
  BY <1>1, ConstantsAssumption DEF Create, ledger, EInv, TInv, TypeOK, Booked
<1>3. \A d \in Txs \ {t} : tx'[d] = tx[d]
  BY <1>1 DEF EInv, TInv, TypeOK
<1>4. Booked(t)'
  BY <1>2 DEF EInv, Booked, IsPaid
<1>5. ASSUME NEW d \in Txs \ {t} PROVE Booked(d)'
  BY <1>2, <1>3 DEF EInv, Booked, IsPaid
<1>6. ASSUME NEW w \in Workers PROVE Holds(req[w])'
  <2>1. Holds(req[w]) /\ req'[w] = req[w] /\ (req[w].pc # "idle" => req[w].t \in Txs)
    BY <1>2 DEF EInv, TInv, WellFormed
  <2>2. req[w].pc # "idle" => tx'[req[w].t] = tx[req[w].t]
    BY <1>2, <1>3, <2>1 DEF Holds
  <2>3. req[w].pc = "idle" => Holds(req[w])'
    BY <2>1 DEF Holds
  <2>4. req[w].pc # "idle" => Holds(req[w])'
    BY <1>2, <2>1, <2>2 DEF Holds
  <2>5. QED
    BY <2>3, <2>4
<1>7. QED
  BY <1>4, <1>5, <1>6 DEF EInv

LEMMA InitBooks == Init => EInv
<1>1. Init => TInv
  BY InitType
<1>2. Init => (\A t \in Txs : Booked(t)) /\ \A w \in Workers : Holds(req[w])
  BY IdleHolds DEF Init, Booked, Holds, Idle
<1>3. QED
  BY <1>1, <1>2 DEF EInv

LEMMA NextBooks ==
  ASSUME OneAtATime, MaxReopens <= 1, EInv, [Next]_vars
  PROVE  EInv'
<1>t. TInv'
  BY NextType DEF EInv
<1>1. ASSUME NEW w \in Workers, Settle(w) \/ Cancel(w) \/ Reopen(w) \/ Update(w) \/ Remove(w)
      PROVE  EInv'
  BY <1>t, <1>1, SettleBooks, CancelBooks, ReopenBooks, UpdateBooks, RemoveBooks
<1>2. ASSUME NEW w \in Workers, Fail(w)
      PROVE  EInv'
  <2>1. req' = [req EXCEPT ![w] = Idle] /\ UNCHANGED <<tx, used, given, taken, reopens>>
    BY <1>2 DEF Fail, Finish, ledger
  <2>2. QED
    BY <1>t, <2>1, GoesOn, IdleHolds
<1>3. ASSUME NEW r \in Receipts, Upload(r)
      PROVE  EInv'
  <2>1. UNCHANGED <<tx, used, given, taken, reopens, req>>
    BY <1>3 DEF Upload, ledger
  <2>2. \A t \in Txs : Booked(t)'
    BY <2>1 DEF EInv, Booked, IsPaid
  <2>3. \A w \in Workers : Holds(req[w])'
    BY <2>1 DEF EInv, Holds
  <2>4. QED
    BY <1>t, <2>2, <2>3 DEF EInv
<1>4. ASSUME NEW t \in Txs, NEW kind \in Kinds, NEW amount \in Amounts,
             NEW r \in Receipts \cup {None}, Create(t, kind, amount, r)
      PROVE  EInv'
  BY <1>t, <1>4, CreateBooks
<1>5. CASE UNCHANGED vars
  <2>1. UNCHANGED <<tx, used, given, taken, reopens, req>>
    BY <1>5 DEF vars, ledger
  <2>2. \A t \in Txs : Booked(t)'
    BY <2>1 DEF EInv, Booked, IsPaid
  <2>3. \A w \in Workers : Holds(req[w])'
    BY <2>1 DEF EInv, Holds
  <2>4. QED
    BY <1>t, <2>2, <2>3 DEF EInv
<1>6. QED
  BY <1>1, <1>2, <1>3, <1>4, <1>5 DEF Next

\* Saving an entity over a row leaves a row.
LEMMA SavedIsRow ==
  ASSUME NEW row \in Row, NEW was \in RowOrNone, NEW ent \in Row
  PROVE  Saved(row, was, ent) \in Row
<1>1. CASE was = None
  BY <1>1 DEF Saved
<1>2. CASE was # None
  <2>1. was \in Row /\ row # None
    BY <1>2, ConstantsAssumption DEF RowOrNone
  <2>2. Merge(row, was, ent) \in Row
    BY <2>1 DEF Merge, Row
  <2>3. QED
    BY <1>2, <2>1, <2>2 DEF Saved
<1>3. QED
  BY <1>1, <1>2

\* The steps that write the row of a transaction save an entity.
LEMMA Saves ==
  ASSUME TInv, NEW w \in Workers,
         SettleCommit(w) \/ CancelWrite(w) \/ ReopenCommit(w) \/ UpdateCommit(w)
  PROVE  req[w].pc # "idle" /\ \E ent \in Row : SaveAs(w, ent)
<1>1. req[w] \in Request /\ req[w].ent \in Row
  BY DEF SettleCommit, CancelWrite, ReopenCommit, UpdateCommit, TInv, TypeOK, WellFormed,
         Request, RowOrNone
<1>2. CASE SettleCommit(w)
  <2>1. req[w].receipt \in Receipts \cup {None}
    BY <1>1, <1>2 DEF SettleCommit, TInv, WellFormed, Request
  <2>2. AsPaid(req[w].ent, req[w].receipt) \in Row
    BY <1>1, <2>1 DEF AsPaid, NewKey, Row
  <2>3. QED
    BY <1>2, <2>2 DEF SettleCommit
<1>3. CASE CancelWrite(w)
  <2>1. [req[w].ent EXCEPT !.status = "cancelled"] \in Row
    BY <1>1 DEF Row
  <2>2. QED
    BY <1>3, <2>1 DEF CancelWrite
<1>4. CASE ReopenCommit(w)
  <2>1. [req[w].ent EXCEPT !.status = "pending"] \in Row
    BY <1>1 DEF Row
  <2>2. QED
    BY <1>4, <2>1 DEF ReopenCommit
<1>5. CASE UpdateCommit(w)
  BY <1>1, <1>5 DEF UpdateCommit
<1>6. QED
  BY <1>2, <1>3, <1>4, <1>5

\* Every other step keeps the rows.
LEMMA OthersKeepRows ==
  ASSUME [Next]_vars,
         \A w \in Workers : ~ SettleCommit(w) /\ ~ CancelWrite(w) /\ ~ ReopenCommit(w)
                            /\ ~ UpdateCommit(w) /\ ~ RemoveRow(w),
         ~ \E t \in Txs, kind \in Kinds, amount \in Amounts, r \in Receipts \cup {None} :
              Create(t, kind, amount, r)
  PROVE  tx' = tx
<1>1. ASSUME NEW w \in Workers, Settle(w) PROVE tx' = tx
  BY <1>1 DEF Settle, SettleRead, SettleBegin, SettleFile
<1>2. ASSUME NEW w \in Workers, Cancel(w) \/ Reopen(w) PROVE tx' = tx
  BY <1>2 DEF Cancel, CancelRead, CancelLoad, Reopen, ReopenRead, ReopenBegin
<1>3. ASSUME NEW w \in Workers, Update(w) PROVE tx' = tx
  <2>1. UpdateFile(w) \/ UpdateBegin(w) => tx' = tx
    BY DEF UpdateFile, UpdateBegin
  <2>2. ASSUME NEW t, NEW kind, NEW amount, NEW r, UpdateRead(w, t, kind, amount, r)
        PROVE  tx' = tx
    BY <2>2 DEF UpdateRead
  <2>3. QED
    BY <1>3, <2>1, <2>2 DEF Update
<1>4. ASSUME NEW w \in Workers, Remove(w) \/ Fail(w) PROVE tx' = tx
  BY <1>4 DEF Remove, RemoveRead, RemoveFile, Fail
<1>5. ASSUME NEW r \in Receipts, Upload(r) PROVE tx' = tx
  BY <1>5 DEF Upload
<1>6. QED
  BY <1>1, <1>2, <1>3, <1>4, <1>5 DEF Next, vars

\* What the ledger holds of a transaction is what CreditExact says.
LEMMA BookedIsExact == ASSUME EInv PROVE CreditExact
<1> SUFFICES ASSUME NEW t \in Txs
             PROVE  /\ \A u \in Units : Net(t, u) \in {0, IF IsPaid(t) THEN tx[t].amount ELSE 0}
                    /\ \A u, v \in Units : Net(t, u) # 0 /\ Net(t, v) # 0 => u = v
  BY DEF CreditExact
<1>1. given[t] \in [Units -> Nat] /\ taken[t] \in [Units -> Nat] /\ Booked(t)
  BY DEF EInv, TInv, TypeOK
<1>2. CASE given[t] = taken[t]
  <2>1. \A u \in Units : Net(t, u) = 0
    BY <1>1, <1>2 DEF Net
  <2>2. QED
    BY <2>1
<1>3. CASE IsPaid(t) /\ taken[t] = NoCredit
           /\ \E u \in Units : given[t] = [NoCredit EXCEPT ![u] = tx[t].amount]
  <2>1. PICK u \in Units : given[t] = [NoCredit EXCEPT ![u] = tx[t].amount]
    BY <1>3
  <2>2. given[t][u] = tx[t].amount /\ taken[t][u] = 0 /\ given[t][u] \in Nat
    BY <1>1, <1>3, <2>1 DEF NoCredit
  <2>3. Net(t, u) = tx[t].amount
    BY <2>2 DEF Net
  <2>4. ASSUME NEW v \in Units, v # u PROVE Net(t, v) = 0
    BY <1>3, <2>1, <2>4 DEF Net, NoCredit
  <2>5. QED
    BY <1>3, <2>3, <2>4
<1>4. QED
  BY <1>1, <1>2, <1>3 DEF Booked

\* For any number of transactions, units, amounts and requests that do not
\* overlap, failures between any two steps included: a settled expense gives one
\* unit exactly its amount, and a transaction that is not paid gives nothing.
THEOREM SerialCredit ==
  ASSUME OneAtATime, MaxReopens <= 1
  PROVE  Spec => []CreditExact
<1>1. Init => EInv
  BY InitBooks
<1>2. EInv /\ [Next]_vars => EInv'
  BY NextBooks
<1>3. EInv => CreditExact
  BY BookedIsExact
<1>4. QED
  BY <1>1, <1>2, <1>3, PTL DEF Spec

\* A removal that no other request overlaps removes no paid transaction.
THEOREM SerialRemoval ==
  ASSUME OneAtATime, MaxReopens <= 1
  PROVE  Spec => PaidNotRemoved
<1> DEFINE A == \A t \in Txs : IsPaid(t) => tx'[t] # None
<1>1. EInv /\ [Next]_vars => [A]_vars
  <2> SUFFICES ASSUME EInv, [Next]_vars
               PROVE  A
    OBVIOUS
  <2>t. TInv /\ TInv'
    BY NextType DEF EInv
  <2>1. ASSUME NEW w \in Workers, RemoveRow(w)
        PROVE  A
    <3>1. req[w].pc = "remove_row" /\ req[w].t \in Txs /\ tx[req[w].t].status # "paid"
      BY <2>1, Loaded DEF RemoveRow, Holds
    <3>2. \A t \in Txs \ {req[w].t} : tx'[t] = tx[t]
      BY <2>1, <2>t DEF RemoveRow, TInv, TypeOK
    <3>3. QED
      BY <3>1, <3>2 DEF IsPaid
  <2>2. ASSUME NEW w \in Workers, NEW ent \in Row, req[w].pc # "idle", SaveAs(w, ent)
        PROVE  A
    <3>1. req[w].t \in Txs /\ tx[req[w].t] \in Row /\ tx[req[w].t] # None
          /\ req[w].base \in RowOrNone
      BY <2>2, Loaded DEF Holds, Request
    <3>2. Saved(tx[req[w].t], req[w].base, ent) # None
      BY <3>1, ConstantsAssumption, SavedIsRow
    <3>3. tx' = [tx EXCEPT ![req[w].t] = Saved(tx[req[w].t], req[w].base, ent)]
      BY <2>2 DEF SaveAs
    <3>4. QED
      BY <3>1, <3>2, <3>3, <2>t DEF IsPaid, TInv, TypeOK
  <2>3. ASSUME NEW w \in Workers, SettleCommit(w) \/ CancelWrite(w) \/ ReopenCommit(w) \/ UpdateCommit(w)
        PROVE  A
    <3>1. req[w].pc # "idle" /\ \E ent \in Row : SaveAs(w, ent)
      BY <2>t, <2>3, Saves
    <3>2. QED
      BY <2>2, <3>1
  <2>4. ASSUME NEW t \in Txs, NEW kind \in Kinds, NEW amount \in Amounts,
               NEW r \in Receipts \cup {None}, Create(t, kind, amount, r)
        PROVE  A
    <3>1. PICK row \in Row : tx' = [tx EXCEPT ![t] = row]
      BY <2>4 DEF Create, Row
    <3>2. QED
      BY <3>1, <2>t, ConstantsAssumption DEF IsPaid, TInv, TypeOK
  <2>5. QED
    BY <2>1, <2>3, <2>4, OthersKeepRows DEF IsPaid
<1>2. QED
  BY <1>1, InitBooks, NextBooks, PTL DEF Spec, PaidNotRemoved

\* The status of a transaction moves as the handlers say when no two overlap.
THEOREM SerialStatus ==
  ASSUME OneAtATime, MaxReopens <= 1
  PROVE  Spec => StatusMoves
<1> DEFINE M(t) == tx[t] # None /\ tx'[t] # None /\ tx'[t].status # tx[t].status =>
                      CASE tx[t].status = "pending"   -> TRUE
                        [] tx[t].status = "paid"      -> tx'[t].status = "pending"
                                                         /\ reopens'[t] = reopens[t] + 1
                        [] tx[t].status = "cancelled" -> FALSE
           A == \A t \in Txs : M(t)
<1>1. EInv /\ [Next]_vars => [A]_vars
  <2> SUFFICES ASSUME EInv, [Next]_vars
               PROVE  A
    OBVIOUS
  <2>t. TInv /\ TInv'
    BY NextType DEF EInv
  <2>1. ASSUME NEW t \in Txs, tx[t] # None, tx[t].status = "pending" PROVE M(t)
    BY <2>1
  <2>2. ASSUME NEW t \in Txs, tx'[t] = tx[t] \/ tx[t] = None \/ tx'[t] = None PROVE M(t)
    BY <2>2
  <2>3. ASSUME NEW w \in Workers, SettleCommit(w) \/ CancelWrite(w)
        PROVE  A
    <3>1. PICK t \in Txs, ent \in Row : IsPending(t) /\ tx' = [tx EXCEPT ![t] = ent]
      BY <2>3, SettleEffect, CancelEffect
    <3>2. \A d \in Txs \ {t} : tx'[d] = tx[d]
      BY <3>1, <2>t DEF TInv, TypeOK
    <3>3. QED
      BY <2>1, <2>2, <3>1, <3>2 DEF IsPending
  <2>4. ASSUME NEW w \in Workers, ReopenCommit(w)
        PROVE  A
    <3>1. PICK t \in Txs, ent \in Row :
             /\ IsPaid(t) /\ ent.status = "pending" /\ tx' = [tx EXCEPT ![t] = ent]
             /\ reopens' = [reopens EXCEPT ![t] = @ + 1]
      BY <2>4, ReopenEffect
    <3>2. tx'[t] = ent /\ reopens'[t] = reopens[t] + 1 /\ \A d \in Txs \ {t} : tx'[d] = tx[d]
      BY <3>1, <2>t DEF TInv, TypeOK
    <3>3. M(t)
      BY <3>1, <3>2 DEF IsPaid
    <3>4. QED
      BY <2>2, <3>2, <3>3
  <2>5. ASSUME NEW w \in Workers, UpdateCommit(w)
        PROVE  A
    <3>1. PICK t \in Txs, ent \in Row :
             ent.status = tx[t].status /\ tx' = [tx EXCEPT ![t] = ent]
      BY <2>5, UpdateEffect
    <3>2. tx'[t].status = tx[t].status /\ \A d \in Txs \ {t} : tx'[d] = tx[d]
      BY <3>1, <2>t DEF TInv, TypeOK
    <3>3. M(t)
      BY <3>2
    <3>4. QED
      BY <2>2, <3>2, <3>3
  <2>6. ASSUME NEW w \in Workers, RemoveRow(w)
        PROVE  A
    <3>1. \A t \in Txs : tx'[t] = tx[t] \/ tx'[t] = None
      BY <2>6, <2>t DEF RemoveRow, TInv, TypeOK
    <3>2. QED
      BY <2>2, <3>1
  <2>7. ASSUME NEW t \in Txs, NEW kind \in Kinds, NEW amount \in Amounts,
               NEW r \in Receipts \cup {None}, Create(t, kind, amount, r)
        PROVE  A
    <3>1. tx[t] = None /\ \A d \in Txs \ {t} : tx'[d] = tx[d]
      BY <2>7, <2>t DEF Create, EInv, Booked, TInv, TypeOK
    <3>2. QED
      BY <2>2, <3>1
  <2>8. tx' = tx => A
    BY <2>2
  <2> HIDE DEF A
  <2>9. QED
    BY <2>3, <2>4, <2>5, <2>6, <2>7, <2>8, OthersKeepRows
<1>2. QED
  BY <1>1, InitBooks, NextBooks, PTL DEF Spec, StatusMoves

-----------------------------------------------------------------------------
(***************************************************************************)
(* The transactions implement ExpenseBook.                                 *)
(***************************************************************************)
\* The unit the ledger rows of a transaction still credit, and what its row says it cost.
Crediting(g, k) == IF \E u \in Units : g[u] - k[u] # 0
                   THEN CHOOSE u \in Units : g[u] - k[u] # 0 ELSE None

AmountOf(t) == IF tx[t] = None THEN 0 ELSE tx[t].amount

LEMMA PayerCredited ==
  ASSUME NEW t \in Txs
  PROVE  PayerOf(t) = Crediting(given[t], taken[t]) /\ PayerOf(t)' = Crediting(given'[t], taken'[t])
<1>1. PayerOf(t) = Crediting(given[t], taken[t])
  BY DEF PayerOf, Net, Crediting
<1>2. PayerOf(t)' = Crediting(given'[t], taken'[t])
  BY DEF PayerOf, Net, Crediting
<1>3. QED
  BY <1>1, <1>2

LEMMA NobodyCredited == ASSUME NEW g \in [Units -> Nat] PROVE Crediting(g, g) = None
<1>1. \A u \in Units : g[u] - g[u] = 0
  OBVIOUS
<1>2. QED
  BY <1>1 DEF Crediting

LEMMA OneCredited ==
  ASSUME NEW u \in Units, NEW cents \in Nat \ {0}
  PROVE  Crediting([NoCredit EXCEPT ![u] = cents], NoCredit) = u
<1>1. \A v \in Units : [NoCredit EXCEPT ![u] = cents][v] - NoCredit[v] # 0 <=> v = u
  BY DEF NoCredit
<1>2. QED
  BY <1>1 DEF Crediting

\* A transaction that is not paid, and every one without credit, has no payer.
LEMMA Unpaid ==
  ASSUME EInv, NEW t \in Txs, given[t] = taken[t]
  PROVE  PayerOf(t) = None
  BY PayerCredited, NobodyCredited DEF EInv, TInv, TypeOK

\* The step is about one transaction: the others look the same in the book.
LEMMA OthersInBook ==
  ASSUME NEW t \in Txs,
         \A d \in Txs \ {t} : /\ tx'[d] = tx[d] /\ given'[d] = given[d] /\ taken'[d] = taken[d]
                              /\ d \in used' <=> d \in used
  PROVE  /\ [e \in Txs |-> StatusOf(e)]' = [[e \in Txs |-> StatusOf(e)] EXCEPT ![t] = StatusOf(t)']
         /\ [e \in Txs |-> AmountOf(e)]' = [[e \in Txs |-> AmountOf(e)] EXCEPT ![t] = AmountOf(t)']
         /\ [e \in Txs |-> PayerOf(e)]' = [[e \in Txs |-> PayerOf(e)] EXCEPT ![t] = PayerOf(t)']
<1>1. ASSUME NEW d \in Txs \ {t} PROVE StatusOf(d)' = StatusOf(d)
  BY DEF StatusOf
<1>2. ASSUME NEW d \in Txs \ {t} PROVE AmountOf(d)' = AmountOf(d)
  BY DEF AmountOf
<1>3. ASSUME NEW d \in Txs \ {t} PROVE PayerOf(d)' = PayerOf(d)
  BY PayerCredited
<1>4. QED
  BY <1>1, <1>2, <1>3

LEMMA InitBook == Init => Book!BInit
<1> SUFFICES ASSUME Init PROVE Book!BInit
  OBVIOUS
<1>1. ASSUME NEW t \in Txs
      PROVE  /\ StatusOf(t) = "new" /\ (IF tx[t] = None THEN 0 ELSE tx[t].amount) = 0
             /\ PayerOf(t) = None
  <2>1. given[t] = NoCredit /\ taken[t] = NoCredit /\ NoCredit \in [Units -> Nat]
    BY DEF Init, NoCredit
  <2>2. PayerOf(t) = None
    BY <2>1, PayerCredited, NobodyCredited
  <2>3. QED
    BY <2>2 DEF Init, StatusOf
<1>2. QED
  BY <1>1 DEF Init, Book!BInit, NoCredit

\* A settlement pays the expense.
LEMMA SettlePays ==
  ASSUME EInv, EInv', NEW w \in Workers, SettleCommit(w)
  PROVE  Book!BNext
<1>1. PICK t \in Txs, ent \in Row :
         /\ IsPending(t) /\ ent.status = "paid" /\ ent.amount = tx[t].amount
         /\ tx' = [tx EXCEPT ![t] = ent]
         /\ UNCHANGED <<used, taken>>
         /\ \/ given' = given /\ balance' = balance
            \/ \E u \in Units :
                  /\ taken[t] = NoCredit
                  /\ given' = [given EXCEPT ![t] = [NoCredit EXCEPT ![u] = tx[t].amount]]
                  /\ balance' = [balance EXCEPT ![u] = @ + tx[t].amount]
  BY SettleEffect
<1>2. tx[t] # None /\ given[t] = taken[t] /\ tx[t].amount \in Nat \ {0}
      /\ balance \in [Units -> Int] /\ tx'[t] = ent /\ ent # None
  <2>1. tx[t] # None /\ ~ IsPaid(t) /\ Booked(t)
    BY <1>1 DEF IsPending, IsPaid, EInv
  <2>2. given[t] = taken[t]
    BY <2>1 DEF Booked
  <2>3. tx[t] \in Row
    BY <2>1 DEF EInv, TInv, TypeOK, RowOrNone
  <2>4. tx[t].amount \in Nat \ {0}
    BY <2>3, ConstantsAssumption DEF Row
  <2>5. balance \in [Units -> Int] /\ tx'[t] = ent /\ ent # None
    BY <1>1, ConstantsAssumption DEF EInv, TInv, TypeOK
  <2>6. QED
    BY <2>1, <2>2, <2>4, <2>5
<1>3. \A d \in Txs \ {t} : /\ tx'[d] = tx[d] /\ given'[d] = given[d] /\ taken'[d] = taken[d]
                           /\ d \in used' <=> d \in used
  BY <1>1 DEF EInv, TInv, TypeOK
<1>4. StatusOf(t) = "pending" /\ StatusOf(t)' = "paid" /\ AmountOf(t) = tx[t].amount
      /\ AmountOf(t)' = AmountOf(t) /\ PayerOf(t) = None
  BY <1>1, <1>2, Unpaid DEF StatusOf, AmountOf, IsPending
<1>5. CASE given' = given /\ balance' = balance
  <2>1. PayerOf(t)' = None
    BY <1>1, <1>4, <1>5, PayerCredited
  <2>2. balance' = [u \in Units |-> balance[u] + IF u = None THEN AmountOf(t) ELSE 0]
    BY <1>2, <1>5, ConstantsAssumption
  <2>3. Book!Pay(t, None)
    BY <1>3, <1>4, <2>1, <2>2, OthersInBook DEF Book!Pay, AmountOf
  <2>4. QED
    BY <2>3 DEF Book!BNext
<1>6. ASSUME NEW u \in Units, taken[t] = NoCredit,
             given' = [given EXCEPT ![t] = [NoCredit EXCEPT ![u] = tx[t].amount]],
             balance' = [balance EXCEPT ![u] = @ + tx[t].amount]
      PROVE  Book!BNext
  <2>1. given'[t] = [NoCredit EXCEPT ![u] = tx[t].amount] /\ taken'[t] = NoCredit
    BY <1>1, <1>6 DEF EInv, TInv, TypeOK
  <2>2. PayerOf(t)' = u
    BY <1>2, <2>1, PayerCredited, OneCredited
  <2>3. balance' = [v \in Units |-> balance[v] + IF v = u THEN AmountOf(t) ELSE 0]
    <3>1. \A v \in Units : balance'[v] = balance[v] + IF v = u THEN AmountOf(t) ELSE 0
      BY <1>2, <1>4, <1>6
    <3>2. balance' \in [Units -> Int]
      BY DEF EInv, TInv, TypeOK
    <3>3. QED
      BY <3>1, <3>2
  <2>4. Book!Pay(t, u)
    BY <1>3, <1>4, <2>2, <2>3, OthersInBook DEF Book!Pay, AmountOf
  <2>5. QED
    BY <2>4 DEF Book!BNext
<1>7. QED
  BY <1>1, <1>5, <1>6

LEMMA CancelAnnuls ==
  ASSUME EInv, EInv', NEW w \in Workers, CancelWrite(w)
  PROVE  Book!BNext
<1>1. PICK t \in Txs, ent \in Row :
         /\ IsPending(t) /\ ent.status = "cancelled" /\ ent.amount = tx[t].amount
         /\ tx' = [tx EXCEPT ![t] = ent]
         /\ UNCHANGED <<used, given, taken, balance>>
  BY CancelEffect
<1>2. tx[t] # None /\ given[t] = taken[t] /\ tx'[t] = ent /\ ent # None
  <2>1. tx[t] # None /\ ~ IsPaid(t) /\ Booked(t)
    BY <1>1 DEF IsPending, IsPaid, EInv
  <2>2. QED
    BY <1>1, <2>1, ConstantsAssumption DEF Booked, EInv, TInv, TypeOK
<1>3. \A d \in Txs \ {t} : /\ tx'[d] = tx[d] /\ given'[d] = given[d] /\ taken'[d] = taken[d]
                           /\ d \in used' <=> d \in used
  BY <1>1 DEF EInv, TInv, TypeOK
<1>4. StatusOf(t) = "pending" /\ StatusOf(t)' = "cancelled" /\ AmountOf(t)' = AmountOf(t)
  BY <1>1, <1>2 DEF StatusOf, AmountOf, IsPending
<1>5. PayerOf(t)' = PayerOf(t)
  BY <1>1, PayerCredited
<1>6. Book!Annul(t)
  <2>1. [e \in Txs |-> StatusOf(e)]' = [[e \in Txs |-> StatusOf(e)] EXCEPT ![t] = "cancelled"]
    BY <1>3, <1>4, OthersInBook
  <2>2. [e \in Txs |-> AmountOf(e)]' = [e \in Txs |-> AmountOf(e)]
    BY <1>3, <1>4, OthersInBook
  <2>3. [e \in Txs |-> PayerOf(e)]' = [e \in Txs |-> PayerOf(e)]
    BY <1>3, <1>5, OthersInBook
  <2>4. QED
    BY <1>1, <1>4, <2>1, <2>2, <2>3 DEF Book!Annul, AmountOf
<1>7. QED
  BY <1>6 DEF Book!BNext

\* A reopening takes back what the payer got, and nothing when nobody got anything.
LEMMA ReopenUnpays ==
  ASSUME MaxReopens <= 1, EInv, EInv', NEW w \in Workers, ReopenCommit(w)
  PROVE  Book!BNext
<1>1. PICK t \in Txs, ent \in Row :
         /\ IsPaid(t) /\ ent.status = "pending" /\ ent.amount = tx[t].amount
         /\ tx' = [tx EXCEPT ![t] = ent] /\ used' = used
         /\ taken[t] = NoCredit
         /\ taken' = [taken EXCEPT ![t] = given[t]] /\ given' = given
         /\ balance' = [u \in Units |-> balance[u] - given[t][u]]
  BY ReopenEffect
<1>2. /\ tx[t] # None /\ tx'[t] = ent /\ ent # None /\ taken'[t] = given[t]
      /\ given[t] \in [Units -> Nat] /\ balance \in [Units -> Int]
  BY <1>1, ConstantsAssumption DEF IsPaid, EInv, TInv, TypeOK
<1>3. \A d \in Txs \ {t} : /\ tx'[d] = tx[d] /\ given'[d] = given[d] /\ taken'[d] = taken[d]
                           /\ d \in used' <=> d \in used
  BY <1>1 DEF EInv, TInv, TypeOK
<1>4. StatusOf(t) = "paid" /\ StatusOf(t)' = "pending" /\ AmountOf(t)' = AmountOf(t)
      /\ AmountOf(t) = tx[t].amount
  BY <1>1, <1>2 DEF StatusOf, AmountOf, IsPaid
<1>5. PayerOf(t)' = None
  BY <1>1, <1>2, PayerCredited, NobodyCredited
<1>6. \A v \in Units : given[t][v] = IF v = PayerOf(t) THEN AmountOf(t) ELSE 0
  <2>1. CASE given[t] = taken[t]
    <3>1. PayerOf(t) = None
      BY <2>1, Unpaid
    <3>2. QED
      BY <1>1, <2>1, <3>1, ConstantsAssumption DEF NoCredit
  <2>2. CASE \E u \in Units : given[t] = [NoCredit EXCEPT ![u] = tx[t].amount]
    <3>1. PICK u \in Units : given[t] = [NoCredit EXCEPT ![u] = tx[t].amount]
      BY <2>2
    <3>2. tx[t] \in Row
      BY <1>2 DEF EInv, TInv, TypeOK, RowOrNone
    <3>3. tx[t].amount \in Nat \ {0}
      BY <3>2, ConstantsAssumption DEF Row
    <3>4. PayerOf(t) = u
      <4>1. PICK cents \in Nat \ {0} : cents = tx[t].amount
        BY <3>3
      <4>2. Crediting([NoCredit EXCEPT ![u] = cents], NoCredit) = u
        BY OneCredited
      <4>3. PayerOf(t) = Crediting(given[t], taken[t])
        BY PayerCredited
      <4>4. QED
        BY <1>1, <3>1, <4>1, <4>2, <4>3
    <3>5. QED
      BY <1>4, <3>1, <3>4 DEF NoCredit
  <2>3. Booked(t)
    BY DEF EInv
  <2>4. QED
    BY <2>1, <2>2, <2>3 DEF Booked
<1>7. balance' = [u \in Units |-> balance[u] - IF u = PayerOf(t) THEN AmountOf(t) ELSE 0]
  BY <1>1, <1>6
<1>8. Book!Unpay(t)
  BY <1>3, <1>4, <1>5, <1>7, OthersInBook DEF Book!Unpay, AmountOf
<1>9. QED
  BY <1>8 DEF Book!BNext

\* An update changes what a pending expense costs, and nothing the book says of another.
LEMMA UpdateChanges ==
  ASSUME EInv, EInv', NEW w \in Workers, UpdateCommit(w)
  PROVE  Book!BNext \/ UNCHANGED Book!bvars
<1>1. PICK t \in Txs, ent \in Row :
         /\ tx[t] # None /\ ent.status = tx[t].status
         /\ ent.status # "pending" => ent.amount = tx[t].amount
         /\ tx' = [tx EXCEPT ![t] = ent]
         /\ UNCHANGED <<used, given, taken, balance>>
  BY UpdateEffect
<1>2. tx'[t] = ent /\ ent # None
  BY <1>1, ConstantsAssumption DEF EInv, TInv, TypeOK
<1>3. \A d \in Txs \ {t} : /\ tx'[d] = tx[d] /\ given'[d] = given[d] /\ taken'[d] = taken[d]
                           /\ d \in used' <=> d \in used
  BY <1>1 DEF EInv, TInv, TypeOK
<1>4. StatusOf(t) = tx[t].status /\ StatusOf(t)' = StatusOf(t) /\ AmountOf(t)' = ent.amount
      /\ AmountOf(t) = tx[t].amount
  BY <1>1, <1>2 DEF StatusOf, AmountOf
<1>5. PayerOf(t)' = PayerOf(t)
  BY <1>1, PayerCredited
<1>6. CASE ent.status = "pending"
  <2>1. ent.amount \in Amounts
    BY DEF Row
  <2>2. Book!Change(t, ent.amount)
    BY <1>1, <1>3, <1>4, <1>5, <1>6, OthersInBook DEF Book!Change, AmountOf
  <2>3. QED
    BY <2>1, <2>2 DEF Book!BNext
<1>7. CASE ent.status # "pending"
  <2>1. [e \in Txs |-> StatusOf(e)]' = [e \in Txs |-> StatusOf(e)]
    BY <1>3, <1>4, OthersInBook
  <2>2. [e \in Txs |-> AmountOf(e)]' = [e \in Txs |-> AmountOf(e)]
    <3>1. AmountOf(t)' = AmountOf(t)
      BY <1>1, <1>4, <1>7
    <3>2. QED
      BY <1>3, <3>1, OthersInBook
  <2>3. [e \in Txs |-> PayerOf(e)]' = [e \in Txs |-> PayerOf(e)]
    BY <1>3, <1>5, OthersInBook
  <2>4. QED
    BY <1>1, <2>1, <2>2, <2>3 DEF Book!bvars, AmountOf
<1>8. QED
  BY <1>6, <1>7

LEMMA RemoveDrops ==
  ASSUME EInv, EInv', NEW w \in Workers, RemoveRow(w)
  PROVE  Book!BNext
<1>1. PICK t \in Txs : t = req[w].t
  BY Loaded DEF RemoveRow
<1>2. tx[t] # None /\ tx[t] \in Row /\ tx[t].status # "paid" /\ Booked(t)
  BY <1>1, Loaded DEF RemoveRow, Holds
<1>3. /\ tx' = [tx EXCEPT ![t] = None] /\ UNCHANGED <<used, balance>>
      /\ given' = [given EXCEPT ![t] = NoCredit] /\ taken' = [taken EXCEPT ![t] = NoCredit]
  BY <1>1 DEF RemoveRow
<1>4. tx'[t] = None /\ given'[t] = NoCredit /\ taken'[t] = NoCredit
  BY <1>3 DEF EInv, TInv, TypeOK
<1>5. \A d \in Txs \ {t} : /\ tx'[d] = tx[d] /\ given'[d] = given[d] /\ taken'[d] = taken[d]
                           /\ d \in used' <=> d \in used
  BY <1>3 DEF EInv, TInv, TypeOK
<1>6. StatusOf(t) \in {"pending", "cancelled"} /\ StatusOf(t)' = "gone" /\ AmountOf(t)' = 0
  BY <1>2, <1>3, <1>4 DEF StatusOf, AmountOf, Booked, Row
<1>7. PayerOf(t)' = PayerOf(t)
  <2>1. given[t] = taken[t]
    BY <1>2 DEF Booked, IsPaid
  <2>2. PayerOf(t) = None
    BY <2>1, Unpaid
  <2>3. PayerOf(t)' = None
    BY <1>4, PayerCredited, NobodyCredited DEF NoCredit
  <2>4. QED
    BY <2>2, <2>3
<1>8. Book!Drop(t)
  BY <1>3, <1>5, <1>6, <1>7, OthersInBook DEF Book!Drop, AmountOf
<1>9. QED
  BY <1>8 DEF Book!BNext

LEMMA CreateRecords ==
  ASSUME EInv, EInv', NEW t \in Txs, NEW kind \in Kinds, NEW amount \in Amounts,
         NEW r \in Receipts \cup {None}, Create(t, kind, amount, r)
  PROVE  Book!BNext
<1>1. PICK row \in Row : /\ row.status = "pending" /\ row.amount = amount
                         /\ tx' = [tx EXCEPT ![t] = row]
  BY DEF Create, Row
<1>2. /\ t \notin used /\ used' = used \cup {t}
      /\ UNCHANGED <<given, taken, balance>>
  BY DEF Create, ledger
<1>3. tx[t] = None /\ tx'[t] = row /\ row # None
  BY <1>1, <1>2, ConstantsAssumption DEF EInv, TInv, TypeOK, Booked
<1>4. \A d \in Txs \ {t} : /\ tx'[d] = tx[d] /\ given'[d] = given[d] /\ taken'[d] = taken[d]
                           /\ d \in used' <=> d \in used
  BY <1>1, <1>2 DEF EInv, TInv, TypeOK
<1>5. StatusOf(t) = "new" /\ StatusOf(t)' = "pending" /\ AmountOf(t)' = amount
  BY <1>1, <1>2, <1>3 DEF StatusOf, AmountOf
<1>6. PayerOf(t)' = PayerOf(t)
  BY <1>2, PayerCredited
<1>7. Book!Record(t, amount)
  <2>1. [e \in Txs |-> StatusOf(e)]' = [[e \in Txs |-> StatusOf(e)] EXCEPT ![t] = "pending"]
    BY <1>4, <1>5, OthersInBook
  <2>2. [e \in Txs |-> AmountOf(e)]' = [[e \in Txs |-> AmountOf(e)] EXCEPT ![t] = amount]
    BY <1>4, <1>5, OthersInBook
  <2>3. [e \in Txs |-> PayerOf(e)]' = [e \in Txs |-> PayerOf(e)]
    BY <1>4, <1>6, OthersInBook
  <2>4. QED
    BY <1>2, <1>5, <2>1, <2>2, <2>3 DEF Book!Record, AmountOf
<1>8. QED
  BY <1>7 DEF Book!BNext

\* Every other step writes requests and files only.
LEMMA OthersOffBook ==
  ASSUME [Next]_vars,
         \A w \in Workers : ~ SettleCommit(w) /\ ~ CancelWrite(w) /\ ~ ReopenCommit(w)
                            /\ ~ UpdateCommit(w) /\ ~ RemoveRow(w),
         ~ \E t \in Txs, kind \in Kinds, amount \in Amounts, r \in Receipts \cup {None} :
              Create(t, kind, amount, r)
  PROVE  UNCHANGED <<tx, used, given, taken, balance>>
<1> USE DEF ledger
<1>1. ASSUME NEW w \in Workers, Settle(w) PROVE UNCHANGED <<tx, used, given, taken, balance>>
  BY <1>1 DEF Settle, SettleRead, SettleBegin, SettleFile
<1>2. ASSUME NEW w \in Workers, Cancel(w) \/ Reopen(w)
      PROVE  UNCHANGED <<tx, used, given, taken, balance>>
  BY <1>2 DEF Cancel, CancelRead, CancelLoad, Reopen, ReopenRead, ReopenBegin
<1>3. ASSUME NEW w \in Workers, Update(w) PROVE UNCHANGED <<tx, used, given, taken, balance>>
  <2>1. UpdateFile(w) \/ UpdateBegin(w) => UNCHANGED <<tx, used, given, taken, balance>>
    BY DEF UpdateFile, UpdateBegin
  <2>2. ASSUME NEW t, NEW kind, NEW amount, NEW r, UpdateRead(w, t, kind, amount, r)
        PROVE  UNCHANGED <<tx, used, given, taken, balance>>
    BY <2>2 DEF UpdateRead
  <2>3. QED
    BY <1>3, <2>1, <2>2 DEF Update
<1>4. ASSUME NEW w \in Workers, Remove(w) \/ Fail(w)
      PROVE  UNCHANGED <<tx, used, given, taken, balance>>
  BY <1>4 DEF Remove, RemoveRead, RemoveFile, Fail
<1>5. ASSUME NEW r \in Receipts, Upload(r) PROVE UNCHANGED <<tx, used, given, taken, balance>>
  BY <1>5 DEF Upload
<1>6. QED
  BY <1>1, <1>2, <1>3, <1>4, <1>5 DEF Next, vars

\* For requests one at a time the handlers implement the book of expenses: the
\* steps that are not the last of a request, and failures, are invisible in it.
THEOREM SerialBook ==
  ASSUME OneAtATime, MaxReopens <= 1
  PROVE  Spec => ImplementsBook
<1>1. EInv /\ EInv' /\ [Next]_vars => [Book!BNext]_(Book!bvars)
  <2> SUFFICES ASSUME EInv, EInv', [Next]_vars
               PROVE  Book!BNext \/ UNCHANGED Book!bvars
    OBVIOUS
  <2>1. UNCHANGED <<tx, used, given, taken, balance>> => UNCHANGED Book!bvars
    <3> SUFFICES ASSUME UNCHANGED <<tx, used, given, taken, balance>>
                 PROVE  UNCHANGED Book!bvars
      OBVIOUS
    <3>1. ASSUME NEW t \in Txs PROVE StatusOf(t)' = StatusOf(t) /\ PayerOf(t)' = PayerOf(t)
      BY PayerCredited DEF StatusOf
    <3>2. QED
      BY <3>1 DEF Book!bvars
  <2>2. QED
    BY <2>1, SettlePays, CancelAnnuls, ReopenUnpays, UpdateChanges, RemoveDrops, CreateRecords,
       OthersOffBook
<1>2. QED
  BY <1>1, InitBooks, NextBooks, InitBook, PTL DEF Spec, ImplementsBook, Book!BSpec

-----------------------------------------------------------------------------
(***************************************************************************)
(* The balance of a unit is the sum of what the transactions gave it.      *)
(***************************************************************************)

\* A step that pays a unit what one transaction gives it keeps the sum.
LEMMA SumFollows ==
  ASSUME IsFiniteSet(Txs), TypeOK, TypeOK', BalanceIsNet, NEW t \in Txs,
         \A d \in Txs \ {t} : given'[d] = given[d] /\ taken'[d] = taken[d],
         \A u \in Units : balance'[u] = balance[u] + Net(t, u)' - Net(t, u)
  PROVE  BalanceIsNet'
<1> SUFFICES ASSUME NEW u \in Units
             PROVE  balance'[u] = Sum(NetOf(u), Txs)'
  BY DEF BalanceIsNet
<1> DEFINE f == NetOf(u)
           g == NetOf(u)'
<1>1. \A d \in Txs : f[d] = Net(d, u) /\ f[d] \in Int
  BY DEF TypeOK, NetOf, Net
<1>2. \A d \in Txs : g[d] = Net(d, u)' /\ g[d] \in Int
  BY DEF TypeOK, NetOf, Net
<1>3. \A d \in Txs \ {t} : f[d] = g[d]
  BY <1>1, <1>2 DEF Net
<1>4. Sum(NetOf(u), Txs)' = Sum(g, Txs) /\ balance[u] = Sum(f, Txs)
  BY DEF BalanceIsNet
<1>5. balance'[u] = balance[u] + g[t] - f[t]
  BY <1>1, <1>2
<1> HIDE DEF f, g
<1>6. \A d \in Txs : f[d] \in Int /\ g[d] \in Int
  BY <1>1, <1>2
<1>7. Sum(g, Txs) = Sum(f, Txs) + g[t] - f[t]
  BY <1>3, <1>6, SumChange
<1>8. QED
  BY <1>4, <1>5, <1>7

LEMMA NextIsNet ==
  ASSUME IsFiniteSet(Txs), EInv, TInv', BalanceIsNet, [Next]_vars
  PROVE  BalanceIsNet'
<1> USE DEF TInv
<1>0. TypeOK /\ TypeOK' /\ given \in [Txs -> [Units -> Nat]] /\ taken \in [Txs -> [Units -> Nat]]
      /\ balance \in [Units -> Int]
  BY DEF EInv, TypeOK
<1>1. ASSUME UNCHANGED <<given, taken, balance>> PROVE BalanceIsNet'
  <2>1. \A u \in Units : NetOf(u)' = NetOf(u)
    BY <1>1 DEF NetOf, Net
  <2>2. QED
    BY <1>1, <2>1 DEF BalanceIsNet
<1>2. ASSUME NEW w \in Workers, SettleCommit(w) PROVE BalanceIsNet'
  <2>1. PICK t \in Txs : t = req[w].t
    BY <1>2, Loaded DEF SettleCommit
  <2>2. req[w].ent.amount \in Nat /\ req[w].unit \in Units \cup {None}
    BY <1>2, <2>1, Loaded, ConstantsAssumption DEF SettleCommit, Holds, Row, Request
  <2>3. CASE req[w].unit = None
    BY <1>1, <1>2, <2>3 DEF SettleCommit, ledger
  <2>4. CASE req[w].unit # None
    <3>1. PICK u \in Units : u = req[w].unit
      BY <2>2, <2>4
    <3>2. PICK amount \in Nat : amount = req[w].ent.amount
      BY <2>2
    <3>3. /\ given' = [given EXCEPT ![t][u] = @ + amount] /\ taken' = taken
          /\ balance' = [balance EXCEPT ![u] = @ + amount]
      BY <1>2, <2>1, <2>4, <3>1, <3>2 DEF SettleCommit
    <3>4. \A v \in Units : balance'[v] = balance[v] + Net(t, v)' - Net(t, v)
      BY <1>0, <3>3 DEF Net
    <3>5. \A d \in Txs \ {t} : given'[d] = given[d] /\ taken'[d] = taken[d]
      BY <1>0, <3>3
    <3>6. QED
      BY <1>0, <3>4, <3>5, SumFollows
  <2>5. QED
    BY <2>3, <2>4
<1>3. ASSUME NEW w \in Workers, ReopenCommit(w) PROVE BalanceIsNet'
  <2>1. PICK t \in Txs : t = req[w].t
    BY <1>3, Loaded DEF ReopenCommit
  <2>2. PICK back \in [Units -> Nat] : back = req[w].seen
    BY <1>3, Loaded DEF ReopenCommit, Request
  <2>3. /\ taken' = [taken EXCEPT ![t] = [u \in Units |-> @[u] + back[u]]] /\ given' = given
        /\ balance' = [u \in Units |-> balance[u] - back[u]]
    BY <1>3, <2>1, <2>2 DEF ReopenCommit, TakenBack
  <2>4. \A v \in Units : balance'[v] = balance[v] + Net(t, v)' - Net(t, v)
    BY <1>0, <2>3 DEF Net
  <2>5. \A d \in Txs \ {t} : given'[d] = given[d] /\ taken'[d] = taken[d]
    BY <1>0, <2>3
  <2>6. QED
    BY <1>0, <2>4, <2>5, SumFollows
<1>4. ASSUME NEW w \in Workers, RemoveRow(w) PROVE BalanceIsNet'
  <2>1. PICK t \in Txs : t = req[w].t
    BY <1>4, Loaded DEF RemoveRow
  <2>2. Booked(t) /\ ~ IsPaid(t)
    BY <1>4, <2>1, Loaded DEF RemoveRow, Holds, IsPaid
  <2>3. /\ given' = [given EXCEPT ![t] = NoCredit] /\ taken' = [taken EXCEPT ![t] = NoCredit]
        /\ balance' = balance
    BY <1>4, <2>1 DEF RemoveRow
  <2>4. \A v \in Units : Net(t, v)' = 0 /\ Net(t, v) = 0
    BY <1>0, <2>2, <2>3 DEF Net, Booked, NoCredit
  <2>5. \A v \in Units : balance'[v] = balance[v] + Net(t, v)' - Net(t, v)
    BY <1>0, <2>3, <2>4
  <2>6. \A d \in Txs \ {t} : given'[d] = given[d] /\ taken'[d] = taken[d]
    BY <1>0, <2>3
  <2>7. QED
    BY <1>0, <2>5, <2>6, SumFollows
<1>5. ASSUME NEW w \in Workers, CancelWrite(w) \/ UpdateCommit(w) PROVE BalanceIsNet'
  BY <1>1, <1>5 DEF CancelWrite, UpdateCommit, ledger
<1>6. ASSUME NEW t \in Txs, NEW kind \in Kinds, NEW amount \in Amounts,
             NEW r \in Receipts \cup {None}, Create(t, kind, amount, r)
      PROVE  BalanceIsNet'
  BY <1>1, <1>6 DEF Create, ledger
<1>7. QED
  BY <1>1, <1>2, <1>3, <1>4, <1>5, <1>6, OthersOffBook

\* With requests one at a time the credit of a unit is what the transactions that
\* are still there gave it and did not take back, however many there are: removing
\* a transaction leaves no credit without an expense, and takes none away.
THEOREM SerialBalance ==
  ASSUME IsFiniteSet(Txs), OneAtATime, MaxReopens <= 1
  PROVE  Spec => []BalanceIsNet
<1>1. Init => BalanceIsNet
  <2> SUFFICES ASSUME Init, NEW u \in Units
               PROVE  balance[u] = Sum(NetOf(u), Txs)
    BY DEF BalanceIsNet
  <2>1. \A t \in Txs : NetOf(u)[t] = 0
    BY DEF Init, NetOf, Net, NoCredit
  <2>2. Sum(NetOf(u), Txs) = 0
    BY <2>1, SumZero
  <2>3. QED
    BY <2>2 DEF Init, NoCredit
<1>2. EInv /\ BalanceIsNet /\ [Next]_vars => EInv' /\ BalanceIsNet'
  <2> SUFFICES ASSUME EInv, BalanceIsNet, [Next]_vars
               PROVE  EInv' /\ BalanceIsNet'
    OBVIOUS
  <2>1. EInv' /\ TInv'
    BY NextBooks DEF EInv
  <2>2. QED
    BY <2>1, NextIsNet
<1>3. QED
  BY <1>1, <1>2, InitBooks, PTL DEF Spec

(***************************************************************************)
(* Works and maintenances.                                                 *)
(***************************************************************************)

Timelines == INSTANCE WorkTimelines

ShownRows == [of : Works \cup Maintenances, status : Timelines!Status]

\* There is an entry and a file to start with, and the absent value is no row.
TimelineParameters ==
    /\ IsFiniteSet(Works) /\ Works \cap Maintenances = {} /\ Budgets \subseteq Timelines!Budget
    /\ MaxEntries \in Nat /\ MaxFiles \in Nat /\ 1 \in Timelines!Entries /\ 1 \in Timelines!Files
    /\ None \notin Works \cup Maintenances \cup Txs \cup Timelines!Entries \cup Timelines!Files
    /\ None \notin Timelines!Work \cup Timelines!Transaction \cup Timelines!Entry \cup Timelines!Budget
    /\ None \notin ShownRows

\* Requests do not overlap.
OneForm == \A r, s \in Slots : r = s

TimelineTables ==
    /\ Timelines!TimelineTypeOK
    /\ shown \in [Timelines!Sides -> [Txs -> ShownRows \cup {None}]]
    /\ DOMAIN tasks = Slots

\* The statements that touch neither the queue of works nor the links of transactions.
Writing == {"save_maintenance", "delete_record", "insert_entry", "upload", "insert_row",
            "unlink", "delete_row", "store", "save_row", "save_budget", "save_entry", "delete_budget", "delete_entry"}
Writes(x) ==
    /\ x.do \in Writing /\ x.files \subseteq Timelines!Files
    /\ x.do = "save_maintenance" => x.id \in Maintenances
    /\ x.do \in {"insert_entry", "save_entry"} => x.id \in Timelines!Entries /\ x.row \in Timelines!Entry
    /\ x.do = "save_budget" => x.id \in Timelines!Entries /\ x.row \in Timelines!Budget
    /\ x.do \in {"upload", "insert_row", "save_row"} => x.id \in Timelines!Entries

\* ... and those that do.
Syncing == {"find", "hide", "show", "show_again"}
Linking == Syncing \cup {"assign", "commit", "load", "delete_txs"}

\* The row of a transaction is linked on a side as the table says, and shown alike.
Agrees(t, row, side) ==
    /\ txs[t] # None /\ row[side] = txs[t][side]
    /\ row[side] = None \/ row.status = txs[t].status

\* The side is synchronised after statement i.
SyncedAfter(p, i, t, row, side) ==
    \E j \in (i + 1)..Len(p) :
        /\ p[j].id = t
        /\ \/ p[j].do = "load" /\ (side \in p[j].row \/ row[side] # None)
           \/ p[j].do \in Syncing /\ p[j].side = side

\* A transaction is saved once, and whatever that changes of its links is synchronised.
Commits(p) ==
    \A i \in 1..Len(p) : p[i].do = "commit" =>
        /\ p[i].id \in Txs /\ p[i].row \in Timelines!Transaction
        /\ \A j \in 1..Len(p) : j < i => p[j].id # p[i].id
        /\ \A j \in 1..Len(p) : p[j].do = "commit" /\ j # i => p[j].id # p[i].id
        /\ \A side \in Timelines!Sides : Agrees(p[i].id, p[i].row, side) \/ SyncedAfter(p, i, p[i].id, p[i].row, side)

\* What is synchronised is what the table says, or will say, or is about to be deleted.
Syncs(p) ==
    \A i \in 1..Len(p) : p[i].do \in Syncing =>
        /\ p[i].id \in Txs /\ p[i].side \in Timelines!Sides /\ p[i].row \in Timelines!Transaction
        /\ p[i].do # "find" => i = 1
        /\ p[i].do = "hide" => p[i].row[p[i].side] = None
        /\ p[i].do \in {"show", "show_again"} => p[i].row[p[i].side] # None
        /\ \/ \E j \in (i + 1)..Len(p) : p[j].do = "delete_txs" /\ p[j].id = p[i].id
           \/ \E j \in 1..(i - 1) : p[j].do = "commit" /\ p[j].id = p[i].id /\ p[j].row = p[i].row
           \/ txs[p[i].id] = p[i].row /\ \A j \in 1..Len(p) : p[j].do = "commit" => p[j].id # p[i].id

\* A transaction that is loaded exists by then.
Loads(p) ==
    \A i \in 1..Len(p) : p[i].do = "load" =>
        /\ i = Len(p) /\ p[i].id \in Txs
        /\ txs[p[i].id] # None \/ \E j \in 1..(i - 1) : p[j].do = "commit" /\ p[j].id = p[i].id

Deletes(p) ==
    \A i \in 1..Len(p) : p[i].do = "delete_txs" => i = Len(p) /\ (p[i].id \in Txs => p[i].id \in p[i].row)

\* The transactions that are still to be assigned are as they were loaded, but for one side.
Assigns(p) ==
    \A i \in 1..Len(p) : p[i].do = "assign" =>
        /\ i = Len(p) /\ p[i].id = None /\ p[i].side \in Timelines!Sides
        /\ \A t \in DOMAIN p[i].row :
              /\ t \in Txs /\ p[i].row[t] \in Timelines!Transaction /\ \A j \in 1..Len(p) : p[j].id # t
              /\ \A side \in Timelines!Sides : side # p[i].side => Agrees(t, p[i].row[t], side)

Columns == {"do", "id", "row", "side", "files"}
LinkProgram(p) ==
    /\ \A i \in 1..Len(p) : p[i].do \in Linking /\ DOMAIN p[i] = Columns
    /\ Commits(p) /\ Syncs(p) /\ Loads(p) /\ Deletes(p) /\ Assigns(p)

WriteProgram(p) == \A i \in 1..Len(p) : Writes(p[i])

Program(p) == (\E T : p \in Seq(T)) /\ (WriteProgram(p) \/ LinkProgram(p))

\* What is to be written to the queue: a position nobody has, or all the active works.
QueueProgram(p) ==
    /\ \E T : p \in Seq(T)
    /\ Len(p) = 1
    /\ \/ /\ p[1].do = "save_work" /\ p[1].id \in Works /\ p[1].row \in Timelines!Work
          /\ p[1].row.active => \A v \in Timelines!Active : v # p[1].id => works[v].order # p[1].row.order
       \/ /\ p[1].do = "reorder" /\ p[1].row \in Seq(Works)
          /\ \A v \in Timelines!Active : \E k \in DOMAIN p[1].row : p[1].row[k] = v

\* The side of a transaction is yet to be synchronised, or the transaction to be deleted.
Due(p, side, t) ==
    \E i \in 1..Len(p) :
        /\ p[i].id = t
        /\ \/ p[i].do = "load" /\ (side \in p[i].row \/ txs[t][side] # None)
           \/ p[i].do \in Syncing /\ p[i].side = side
           \/ p[i].do = "delete_txs"

LinkShown(side, t) ==
    \/ txs[t][side] = None /\ shown[side][t] = None
    \/ txs[t][side] # None /\ shown[side][t] = [of |-> txs[t][side], status |-> txs[t].status]

Tracked ==
    \A side \in Timelines!Sides, t \in Txs :
        (txs[t] # None /\ <<side, t>> \notin interrupted) =>
            LinkShown(side, t) \/ \E s \in Slots : Due(tasks[s], side, t)

LinkInv == TimelineTables /\ (\A s \in Slots : Program(tasks[s]) \/ QueueProgram(tasks[s])) /\ Tracked

(***************************************************************************)
(* Programs.                                                               *)
(***************************************************************************)

\* The list q is what is left of p after its first statement became those of first.
Spliced(first, p, q) ==
    /\ \E T : q \in Seq(T)
    /\ Len(q) = Len(first) + Len(p) - 1
    /\ \A i \in 1..Len(first) : q[i] = first[i]
    /\ \A i \in (Len(first) + 1)..Len(q) : q[i] = p[i - Len(first) + 1]

LEMMA Splice ==
  ASSUME NEW T, NEW p \in Seq(T), p # << >>, NEW U, NEW first \in Seq(U), NEW q, q = first \o Tail(p)
  PROVE  Spliced(first, p, q) /\ Len(p) \in Nat \ {0} /\ Len(first) \in Nat /\ Head(p) = p[1]
<1>1. PICK r : r = Tail(p)
  OBVIOUS
<1>2. /\ r \in Seq(T) /\ Len(p) \in Nat \ {0} /\ Len(r) = Len(p) - 1 /\ Head(p) = p[1]
      /\ \A i \in 1..(Len(p) - 1) : r[i] = p[i + 1]
  BY <1>1, HeadTailProperties, EmptySeq, LenProperties
<1>3. r \in Seq(T \cup U) /\ first \in Seq(T \cup U) /\ Len(first) \in Nat
  BY <1>2, SeqMonotonic, LenProperties
<1>4. /\ q \in Seq(T \cup U) /\ Len(q) = Len(first) + Len(r)
      /\ \A i \in 1..(Len(first) + Len(r)) : q[i] = IF i <= Len(first) THEN first[i] ELSE r[i - Len(first)]
  BY <1>1, <1>3, ConcatProperties
<1>5. \A i \in 1..Len(first) : q[i] = first[i]
  BY <1>2, <1>3, <1>4
<1>6. ASSUME NEW i \in (Len(first) + 1)..Len(q) PROVE q[i] = p[i - Len(first) + 1]
  <2>1. PICK k : k = i - Len(first)
    OBVIOUS
  <2>2. k \in 1..(Len(p) - 1) /\ ~ (i <= Len(first)) /\ i \in 1..(Len(first) + Len(r))
    BY <2>1, <1>2, <1>3, <1>4
  <2>3. q[i] = r[k] /\ r[k] = p[k + 1] /\ k + 1 = i - Len(first) + 1
    BY <2>1, <2>2, <1>2, <1>3, <1>4
  <2>4. QED
    BY <2>3
<1>7. QED
  BY <1>2, <1>3, <1>4, <1>5, <1>6 DEF Spliced

\* Nothing in front.
FrontNone(p, q) ==
    /\ \E S : q \in Seq(S)
    /\ Len(p) \in Nat \ {0} /\ Head(p) = p[1] /\ Len(q) = Len(p) - 1
    /\ \A i \in 1..Len(q) : q[i] = p[i + 1]

LEMMA SpliceNone ==
  ASSUME NEW T, NEW p \in Seq(T), p # << >>, NEW q, q = << >> \o Tail(p) PROVE FrontNone(p, q)
<1>1. << >> \in Seq({}) /\ Len(<< >>) = 0
  BY EmptySeq
<1>2. PICK first : first = << >>
  OBVIOUS
<1>3. Spliced(first, p, q) /\ Len(p) \in Nat \ {0} /\ Head(p) = p[1] /\ Len(first) = 0
  BY <1>1, <1>2, Splice
<1>4. QED
  BY <1>3 DEF Spliced, FrontNone

\* One statement in front.
FrontOne(x, p, q) ==
    /\ \E S : q \in Seq(S)
    /\ Len(p) \in Nat \ {0} /\ Head(p) = p[1] /\ Len(q) = Len(p)
    /\ q[1] = x /\ \A i \in 2..Len(q) : q[i] = p[i]

LEMMA SpliceOne ==
  ASSUME NEW T, NEW p \in Seq(T), p # << >>, NEW x, NEW q, q = <<x>> \o Tail(p) PROVE FrontOne(x, p, q)
<1>1. PICK first : first = <<x>>
  OBVIOUS
<1>2. first \in Seq({x}) /\ Len(first) = 1 /\ first[1] = x
  BY <1>1
<1>3. Spliced(first, p, q) /\ Len(p) \in Nat \ {0} /\ Head(p) = p[1]
  BY <1>1, <1>2, Splice
<1>4. Len(q) = Len(p) /\ q[1] = x
  BY <1>2, <1>3 DEF Spliced
<1>5. ASSUME NEW i \in 2..Len(q) PROVE q[i] = p[i]
  <2>1. i \in (Len(first) + 1)..Len(q) /\ i - Len(first) + 1 = i
    BY <1>2, <1>3, <1>4
  <2>2. q[i] = p[i - Len(first) + 1]
    BY <2>1, <1>3 DEF Spliced
  <2>3. QED
    BY <2>1, <2>2
<1>6. QED
  BY <1>3, <1>4, <1>5 DEF Spliced, FrontOne

\* Two statements in front.
FrontTwo(x, y, p, q) ==
    /\ \E S : q \in Seq(S)
    /\ Len(p) \in Nat \ {0} /\ Head(p) = p[1] /\ Len(q) = Len(p) + 1
    /\ q[1] = x /\ q[2] = y /\ \A i \in 3..Len(q) : q[i] = p[i - 1]

LEMMA SpliceTwo ==
  ASSUME NEW T, NEW p \in Seq(T), p # << >>, NEW x, NEW y, NEW q, q = <<x, y>> \o Tail(p)
  PROVE  FrontTwo(x, y, p, q)
<1>1. PICK first : first = <<x, y>>
  OBVIOUS
<1>2. first \in Seq({x, y}) /\ Len(first) = 2 /\ first[1] = x /\ first[2] = y
  BY <1>1
<1>3. Spliced(first, p, q) /\ Len(p) \in Nat \ {0} /\ Head(p) = p[1]
  BY <1>1, <1>2, Splice
<1>4. Len(q) = Len(p) + 1 /\ q[1] = x /\ q[2] = y
  BY <1>2, <1>3 DEF Spliced
<1>5. ASSUME NEW i \in 3..Len(q) PROVE q[i] = p[i - 1]
  <2>1. i \in (Len(first) + 1)..Len(q) /\ i - Len(first) + 1 = i - 1
    BY <1>2, <1>3, <1>4
  <2>2. q[i] = p[i - Len(first) + 1]
    BY <2>1, <1>3 DEF Spliced
  <2>3. QED
    BY <2>1, <2>2
<1>6. QED
  BY <1>3, <1>4, <1>5 DEF Spliced, FrontTwo

\* Three statements in place of the only one.
FrontThree(x, y, z, p, q) ==
    /\ \E S : q \in Seq(S)
    /\ Head(p) = p[1] /\ Len(q) = 3 /\ q[1] = x /\ q[2] = y /\ q[3] = z

LEMMA SpliceThree ==
  ASSUME NEW T, NEW p \in Seq(T), p # << >>, Len(p) = 1, NEW x, NEW y, NEW z, NEW q, q = <<x, y, z>> \o Tail(p)
  PROVE  FrontThree(x, y, z, p, q)
<1>1. PICK first : first = <<x, y, z>>
  OBVIOUS
<1>2. first \in Seq({x, y, z}) /\ Len(first) = 3 /\ first[1] = x /\ first[2] = y /\ first[3] = z
  BY <1>1
<1>3. Spliced(first, p, q) /\ Head(p) = p[1]
  BY <1>1, <1>2, Splice
<1>4. QED
  BY <1>2, <1>3 DEF Spliced, FrontThree

LEMMA ProgramSame == ASSUME NEW p, Program(p), txs' = txs PROVE Program(p)'
<1>1. ASSUME NEW t, NEW row, NEW side, Agrees(t, row, side) PROVE Agrees(t, row, side)'
  BY <1>1 DEF Agrees
<1>2. Commits(p) => Commits(p)'
  <2> HIDE DEF Agrees
  <2>1. QED
    BY <1>1 DEF Commits
<1>3. Syncs(p) => Syncs(p)'
  BY DEF Syncs
<1>4. Loads(p) => Loads(p)'
  BY DEF Loads
<1>5. Assigns(p) => Assigns(p)'
  <2> HIDE DEF Agrees
  <2>1. QED
    BY <1>1 DEF Assigns
<1>6. QED
  BY <1>2, <1>3, <1>4, <1>5 DEF Program, LinkProgram

LEMMA QueueSame == ASSUME NEW p, QueueProgram(p), works' = works PROVE QueueProgram(p)'
<1>1. Timelines!Active' = Timelines!Active
  BY DEF Timelines!Active
<1>2. QED
  BY <1>1 DEF QueueProgram

LEMMA DueSame == ASSUME NEW p, NEW side, NEW t, Due(p, side, t), txs' = txs PROVE Due(p, side, t)'
BY DEF Due

LEMMA TablesSame ==
  ASSUME TimelineTables, UNCHANGED Timelines!tables, DOMAIN tasks' = Slots
  PROVE  TimelineTables'
BY DEF TimelineTables, Timelines!tables, Timelines!TimelineTypeOK

\* What a step of the only request has to show.
LEMMA LinkMove ==
  ASSUME OneForm, LinkInv, NEW s \in Slots, NEW p, tasks' = [tasks EXCEPT ![s] = p],
         TimelineTables', (Program(p) \/ QueueProgram(p))',
         \A side \in Timelines!Sides, t \in Txs :
            (txs'[t] # None /\ <<side, t>> \notin interrupted') => LinkShown(side, t)' \/ Due(p, side, t)'
  PROVE  LinkInv'
<1>1. tasks'[s] = p /\ \A r \in Slots : r = s
  BY DEF LinkInv, TimelineTables, OneForm
<1>2. \A r \in Slots : (Program(tasks[r]) \/ QueueProgram(tasks[r]))'
  BY <1>1
<1>3. \A side \in Timelines!Sides, t \in Txs : Due(p, side, t)' => \E r \in Slots : Due(tasks[r], side, t)'
  BY <1>1
<1>4. Tracked'
  BY <1>3 DEF Tracked
<1>5. QED
  BY <1>2, <1>4 DEF LinkInv

\* A request that is under way is the only one.
LEMMA OnlyDue ==
  ASSUME OneForm, LinkInv, NEW s \in Slots, NEW side \in Timelines!Sides, NEW t \in Txs,
         txs[t] # None, <<side, t>> \notin interrupted, ~ LinkShown(side, t)
  PROVE  Due(tasks[s], side, t)
BY DEF LinkInv, Tracked, OneForm

LEMMA NothingDue ==
  ASSUME NEW p, p = << >> \/ WriteProgram(p) \/ QueueProgram(p), NEW side, NEW t PROVE ~ Due(p, side, t)
<1>1. CASE p = << >>
  BY <1>1 DEF Due
<1>2. CASE WriteProgram(p)
  BY <1>2 DEF Due, WriteProgram, Writes, Writing, Syncing
<1>3. CASE QueueProgram(p)
  <2>1. p[1].do \notin {"load", "delete_txs"} \cup Syncing /\ 1..Len(p) = {1}
    BY <1>3 DEF QueueProgram, Syncing
  <2>2. QED
    BY <2>1 DEF Due
<1>4. QED
  BY <1>1, <1>2, <1>3

LEMMA ShownSame ==
  ASSUME NEW side, NEW t, LinkShown(side, t), txs' = txs, shown' = shown PROVE LinkShown(side, t)'
BY DEF LinkShown

LEMMA LinkAsk ==
  ASSUME OneForm, LinkInv, NEW s \in Slots, NEW p, Program(p) \/ QueueProgram(p), Timelines!Asks(s, p)
  PROVE  LinkInv'
<1>1. /\ tasks[s] = << >> /\ tasks' = [tasks EXCEPT ![s] = p]
      /\ UNCHANGED Timelines!tables /\ interrupted' = interrupted
  BY DEF Timelines!Asks, Timelines!Idle
<1>2. txs' = txs /\ shown' = shown /\ works' = works
  BY <1>1 DEF Timelines!tables
<1>3. TimelineTables'
  <2>1. DOMAIN tasks' = Slots
    BY <1>1 DEF LinkInv, TimelineTables
  <2>2. QED
    BY <1>1, <2>1, TablesSame DEF LinkInv
<1>4. (Program(p) \/ QueueProgram(p))'
  BY <1>2, ProgramSame, QueueSame
<1>5. ASSUME NEW side \in Timelines!Sides, NEW t \in Txs, txs'[t] # None, <<side, t>> \notin interrupted'
      PROVE  LinkShown(side, t)'
  <2>1. LinkShown(side, t)
    BY <1>1, <1>2, <1>5, OnlyDue, NothingDue
  <2>2. QED
    BY <1>2, <2>1, ShownSame
<1>6. QED
  BY <1>1, <1>3, <1>4, <1>5, LinkMove

LEMMA NoProgram == Program(<< >>) /\ WriteProgram(<< >>)
<1>1. PICK p : p = << >>
  OBVIOUS
<1>2. p \in Seq({}) /\ Len(p) = 0
  BY <1>1, EmptySeq
<1>3. WriteProgram(p)
  BY <1>2 DEF WriteProgram
<1>4. QED
  BY <1>1, <1>2, <1>3 DEF Program

\* Whether it comes to its end or is cut short.
LEMMA LinkEnds ==
  ASSUME OneForm, LinkInv, NEW s \in Slots, Timelines!Ends(s), UNCHANGED Timelines!tables
  PROVE  LinkInv'
<1>1. /\ tasks' = [tasks EXCEPT ![s] = << >>]
      /\ interrupted' = interrupted \cup Timelines!CutLinks(s) /\ txs' = txs /\ shown' = shown
  BY DEF Timelines!Ends, Timelines!tables
<1>2. TimelineTables'
  <2>1. DOMAIN tasks' = Slots
    BY <1>1 DEF LinkInv, TimelineTables
  <2>2. QED
    BY <2>1, TablesSame DEF LinkInv
<1>3. PICK p : p = << >>
  OBVIOUS
<1>4. Program(p)'
  BY <1>1, <1>3, NoProgram, ProgramSame
<1>5. ASSUME NEW side \in Timelines!Sides, NEW t \in Txs, txs'[t] # None, <<side, t>> \notin interrupted'
      PROVE  LinkShown(side, t)'
  <2>1. CASE LinkShown(side, t)
    BY <1>1, <2>1, ShownSame
  <2>2. CASE ~ LinkShown(side, t)
    <3>1. Due(tasks[s], side, t)
      BY <1>1, <1>5, <2>2, OnlyDue
    <3>2. \E i \in 1..Len(tasks[s]) : tasks[s][i].id = t
      BY <3>1 DEF Due
    <3>3. \E T : tasks[s] \in Seq(T)
      BY DEF LinkInv, Program, QueueProgram
    <3>4. \E i \in DOMAIN tasks[s] : tasks[s][i].id = t
      BY <3>2, <3>3
    <3>5. <<side, t>> \in Timelines!CutLinks(s)
      BY <3>4 DEF Timelines!CutLinks
    <3>6. QED
      BY <3>5, <1>1, <1>5
  <2>3. QED
    BY <2>1, <2>2
<1>6. QED
  BY <1>1, <1>2, <1>3, <1>4, <1>5, LinkMove

\* A statement that writes neither transactions nor what is shown of them.
LEMMA LinkWrite ==
  ASSUME OneForm, LinkInv, NEW s \in Slots, WriteProgram(tasks[s]),
         NEW q, tasks' = [tasks EXCEPT ![s] = q], Program(q),
         TimelineTables', txs' = txs, shown' = shown, interrupted' = interrupted
  PROVE  LinkInv'
<1>1. Program(q)'
  BY ProgramSame
<1>2. ASSUME NEW side \in Timelines!Sides, NEW t \in Txs, txs'[t] # None, <<side, t>> \notin interrupted'
      PROVE  LinkShown(side, t)'
  BY <1>2, OnlyDue, NothingDue, ShownSame
<1>3. QED
  BY <1>1, <1>2, LinkMove

\* The head of a program of writes, and what follows it.
LEMMA WriteHead ==
  ASSUME LinkInv, NEW s \in Slots, ~ Timelines!Idle(s), Timelines!Now(s).do \in Writing
  PROVE  /\ \E T : tasks[s] \in Seq(T)
         /\ tasks[s] # << >> /\ WriteProgram(tasks[s]) /\ Timelines!Now(s) = tasks[s][1] /\ Writes(Timelines!Now(s))
         /\ Len(tasks[s]) \in Nat \ {0}
<1>1. PICK p : p = tasks[s]
  OBVIOUS
<1>2. PICK T : p \in Seq(T)
  BY <1>1 DEF LinkInv, Program, QueueProgram
<1>3. p # << >> /\ Len(p) \in Nat \ {0} /\ Head(p) = p[1]
  <2>1. p # << >>
    BY <1>1 DEF Timelines!Idle
  <2>2. QED
    BY <2>1, <1>2, SpliceNone DEF FrontNone
<1>4. WriteProgram(p) \/ LinkProgram(p)
  <2>1. ~ QueueProgram(p)
    BY <1>1, <1>3 DEF Timelines!Now, Writing, Linking, Syncing, QueueProgram
  <2>2. QED
    BY <1>1, <2>1 DEF LinkInv, Program
<1>5. ~ LinkProgram(p)
  <2>1. p[1].do \notin Linking
    BY <1>1, <1>3 DEF Timelines!Now, Writing, Linking, Syncing
  <2>2. 1 \in 1..Len(p)
    BY <1>3
  <2>3. QED
    BY <2>1, <2>2 DEF LinkProgram
<1>6. 1 \in 1..Len(p)
  BY <1>3
<1>7. Writes(p[1])
  BY <1>4, <1>5, <1>6 DEF WriteProgram
<1>8. QED
  BY <1>1, <1>2, <1>3, <1>4, <1>5, <1>7 DEF Timelines!Now

LEMMA WriteDone ==
  ASSUME NEW T, NEW p \in Seq(T), p # << >>, WriteProgram(p), NEW q, q = << >> \o Tail(p)
  PROVE  Program(q) /\ WriteProgram(q)
<1>1. (\E S : q \in Seq(S)) /\ Len(p) \in Nat \ {0} /\ Len(q) = Len(p) - 1 /\ \A i \in 1..Len(q) : q[i] = p[i + 1]
  BY SpliceNone DEF FrontNone
<1>2. \A i \in 1..Len(q) : i + 1 \in 1..Len(p)
  BY <1>1
<1>3. WriteProgram(q)
  BY <1>1, <1>2 DEF WriteProgram
<1>4. QED
  BY <1>1, <1>3 DEF Program

LEMMA WriteOne ==
  ASSUME NEW T, NEW p \in Seq(T), p # << >>, WriteProgram(p), NEW x, Writes(x), NEW q, q = <<x>> \o Tail(p)
  PROVE  Program(q) /\ WriteProgram(q)
<1>1. /\ \E S : q \in Seq(S)
      /\ Len(p) \in Nat \ {0} /\ Len(q) = Len(p) /\ q[1] = x /\ \A i \in 2..Len(q) : q[i] = p[i]
  <2>1. FrontOne(x, p, q)
    BY SpliceOne
  <2>2. QED
    BY <2>1 DEF FrontOne
<1>2. \A i \in 1..Len(q) : i = 1 \/ (i \in 2..Len(q) /\ i \in 1..Len(p))
  BY <1>1
<1>3. WriteProgram(q)
  BY <1>1, <1>2 DEF WriteProgram
<1>4. QED
  BY <1>1, <1>3 DEF Program

LEMMA WriteTwo ==
  ASSUME NEW T, NEW p \in Seq(T), p # << >>, WriteProgram(p), NEW x, Writes(x), NEW y, Writes(y),
         NEW q, q = <<x, y>> \o Tail(p)
  PROVE  Program(q) /\ WriteProgram(q)
<1>1. /\ \E S : q \in Seq(S)
      /\ Len(p) \in Nat \ {0} /\ Len(q) = Len(p) + 1 /\ q[1] = x /\ q[2] = y /\ \A i \in 3..Len(q) : q[i] = p[i - 1]
  <2>1. FrontTwo(x, y, p, q)
    BY SpliceTwo
  <2>2. QED
    BY <2>1 DEF FrontTwo
<1>2. \A i \in 1..Len(q) : i = 1 \/ i = 2 \/ (i \in 3..Len(q) /\ i - 1 \in 1..Len(p))
  BY <1>1
<1>3. WriteProgram(q)
  BY <1>1, <1>2 DEF WriteProgram
<1>4. QED
  BY <1>1, <1>3 DEF Program

LEMMA LinkDone ==
  ASSUME OneForm, LinkInv, NEW s \in Slots, ~ Timelines!Idle(s), Timelines!Now(s).do \in Writing, Timelines!Done(s),
         Timelines!TimelineTypeOK', txs' = txs, shown' = shown
  PROVE  LinkInv'
<1>1. PICK p : p = tasks[s]
  OBVIOUS
<1>2. PICK q : q = << >> \o Tail(p)
  OBVIOUS
<1>3. (\E T : p \in Seq(T)) /\ p # << >> /\ WriteProgram(p)
  BY <1>1, WriteHead
<1>4. tasks' = [tasks EXCEPT ![s] = q] /\ interrupted' = interrupted
  BY <1>1, <1>2 DEF Timelines!Done, Timelines!Goes, Timelines!control
<1>5. Program(q)
  BY <1>2, <1>3, WriteDone
<1>6. TimelineTables'
  BY <1>4 DEF LinkInv, TimelineTables
<1>7. QED
  BY <1>1, <1>3, <1>4, <1>5, <1>6, LinkWrite

\* A statement that writes the queue is the only one of its request.
LEMMA QueueHead ==
  ASSUME LinkInv, NEW s \in Slots, ~ Timelines!Idle(s), Timelines!Now(s).do \in {"save_work", "reorder"}
  PROVE  QueueProgram(tasks[s]) /\ tasks[s] # << >> /\ Timelines!Now(s) = tasks[s][1]
<1>1. PICK p : p = tasks[s]
  OBVIOUS
<1>2. PICK T : p \in Seq(T)
  BY <1>1 DEF LinkInv, Program, QueueProgram
<1>3. p # << >> /\ Len(p) \in Nat \ {0} /\ Head(p) = p[1]
  <2>1. p # << >>
    BY <1>1 DEF Timelines!Idle
  <2>2. QED
    BY <2>1, <1>2, SpliceNone DEF FrontNone
<1>4. ~ Program(p)
  <2>1. p[1].do \notin Writing \cup Linking /\ 1 \in 1..Len(p)
    BY <1>1, <1>3 DEF Timelines!Now, Writing, Linking, Syncing
  <2>2. QED
    BY <2>1 DEF Program, WriteProgram, LinkProgram, Writes
<1>5. QED
  BY <1>1, <1>3, <1>4 DEF LinkInv, Timelines!Now

LEMMA LinkQueued ==
  ASSUME OneForm, LinkInv, NEW s \in Slots, ~ Timelines!Idle(s), Timelines!Now(s).do \in {"save_work", "reorder"},
         Timelines!Done(s), Timelines!TimelineTypeOK', txs' = txs, shown' = shown
  PROVE  LinkInv'
<1>1. PICK p : p = tasks[s]
  OBVIOUS
<1>2. PICK q : q = << >> \o Tail(p)
  OBVIOUS
<1>3. QueueProgram(p) /\ p # << >>
  BY <1>1, QueueHead
<1>4. tasks' = [tasks EXCEPT ![s] = q] /\ interrupted' = interrupted
  BY <1>1, <1>2 DEF Timelines!Done, Timelines!Goes, Timelines!control
<1>5. Program(q)'
  <2>1. (\E T : q \in Seq(T)) /\ Len(q) = 0
    BY <1>2, <1>3, SpliceNone DEF QueueProgram, FrontNone
  <2>2. WriteProgram(q)
    BY <2>1 DEF WriteProgram
  <2>3. QED
    BY <2>1, <2>2 DEF Program
<1>6. TimelineTables'
  BY <1>4 DEF LinkInv, TimelineTables
<1>7. ASSUME NEW side \in Timelines!Sides, NEW t \in Txs, txs'[t] # None, <<side, t>> \notin interrupted'
      PROVE  LinkShown(side, t)'
  BY <1>1, <1>3, <1>4, <1>7, OnlyDue, NothingDue, ShownSame
<1>8. QED
  BY <1>4, <1>5, <1>6, <1>7, LinkMove

\* The statements of works and maintenances.
LEMMA LinkSaveWork ==
  ASSUME OneForm, LinkInv, NEW s \in Slots, Timelines!SaveWork(s) PROVE LinkInv'
<1>1. ~ Timelines!Idle(s) /\ Timelines!Now(s).do = "save_work" /\ Timelines!Done(s)
      /\ works' = [works EXCEPT ![Timelines!Now(s).id] = Timelines!Now(s).row]
      /\ UNCHANGED <<maintenances, txs, shown, entries, budgets, rows, stored>>
  BY DEF Timelines!SaveWork, Timelines!Doing
<1>2. Timelines!Now(s).id \in Works /\ Timelines!Now(s).row \in Timelines!Work
  BY <1>1, QueueHead DEF QueueProgram
<1>3. works' \in [Works -> Timelines!Work \cup {None}]
  BY <1>1, <1>2 DEF LinkInv, TimelineTables, Timelines!TimelineTypeOK
<1>4. Timelines!TimelineTypeOK'
  BY <1>1, <1>3 DEF LinkInv, TimelineTables, Timelines!TimelineTypeOK
<1>5. QED
  BY <1>1, <1>4, LinkQueued

LEMMA LinkSaveQueue ==
  ASSUME TimelineParameters, OneForm, LinkInv, NEW s \in Slots, Timelines!SaveQueue(s) PROVE LinkInv'
<1>1. PICK queue : queue = Timelines!Now(s).row
  OBVIOUS
<1>2. /\ ~ Timelines!Idle(s) /\ Timelines!Now(s).do = "reorder" /\ Timelines!Done(s)
      /\ works' = [w \in Works |->
                    IF works[w] = None \/ \A i \in DOMAIN queue : queue[i] # w THEN works[w]
                    ELSE [works[w] EXCEPT !.order = (CHOOSE i \in DOMAIN queue : queue[i] = w) - 1]]
      /\ UNCHANGED <<maintenances, txs, shown, entries, budgets, rows, stored>>
  BY <1>1 DEF Timelines!SaveQueue, Timelines!Doing
<1>3. queue \in Seq(Works)
  BY <1>1, <1>2, QueueHead DEF QueueProgram
<1>4. ASSUME NEW w \in Works PROVE works'[w] \in Timelines!Work \cup {None}
  <2>1. works[w] \in Timelines!Work \cup {None}
    BY DEF LinkInv, TimelineTables, Timelines!TimelineTypeOK
  <2>2. CASE works[w] = None \/ \A i \in DOMAIN queue : queue[i] # w
    BY <1>2, <2>1, <2>2
  <2>3. CASE works[w] # None /\ \E i \in DOMAIN queue : queue[i] = w
    <3>1. PICK n : n = (CHOOSE i \in DOMAIN queue : queue[i] = w) - 1
      OBVIOUS
    <3>2. n \in Nat
      <4>1. PICK k : k = CHOOSE i \in DOMAIN queue : queue[i] = w
        OBVIOUS
      <4>2. k \in DOMAIN queue
        BY <4>1, <2>3
      <4>3. k \in Nat \ {0}
        BY <4>2, <1>3
      <4>4. QED
        BY <3>1, <4>1, <4>3
    <3>3. works'[w] = [works[w] EXCEPT !.order = n]
      BY <1>2, <2>3, <3>1
    <3>4. QED
      BY <3>2, <3>3, <2>1, <2>3 DEF Timelines!Work
  <2>4. QED
    BY <2>2, <2>3
<1>5. works' \in [Works -> Timelines!Work \cup {None}]
  BY <1>2, <1>4
<1>6. Timelines!TimelineTypeOK'
  BY <1>2, <1>5 DEF LinkInv, TimelineTables, Timelines!TimelineTypeOK
<1>7. QED
  BY <1>2, <1>6, LinkQueued

LEMMA LinkSaveMaintenance ==
  ASSUME OneForm, LinkInv, NEW s \in Slots, Timelines!SaveMaintenance(s) PROVE LinkInv'
<1>1. ~ Timelines!Idle(s) /\ Timelines!Now(s).do = "save_maintenance" /\ Timelines!Done(s)
      /\ maintenances' = maintenances \cup {Timelines!Now(s).id}
      /\ UNCHANGED <<works, txs, shown, entries, budgets, rows, stored>>
  BY DEF Timelines!SaveMaintenance, Timelines!Doing
<1>2. Timelines!Now(s).id \in Maintenances
  BY <1>1, WriteHead DEF Writing, Writes
<1>3. Timelines!TimelineTypeOK'
  BY <1>1, <1>2 DEF LinkInv, TimelineTables, Timelines!TimelineTypeOK
<1>4. QED
  BY <1>1, <1>3, LinkDone DEF Writing

\* The statements of entries and files.
LEMMA LinkSaveEntry ==
  ASSUME OneForm, LinkInv, NEW s \in Slots, Timelines!SaveEntry(s) PROVE LinkInv'
<1>1. ~ Timelines!Idle(s) /\ Timelines!Now(s).do = "save_entry" /\ Timelines!Done(s)
      /\ entries' = [entries EXCEPT ![Timelines!Now(s).id] = Timelines!Now(s).row]
      /\ UNCHANGED <<works, maintenances, txs, shown, budgets, rows, stored>>
  BY DEF Timelines!SaveEntry, Timelines!Doing
<1>2. Timelines!Now(s).id \in Timelines!Entries /\ Timelines!Now(s).row \in Timelines!Entry
  BY <1>1, WriteHead DEF Writing, Writes
<1>3. Timelines!TimelineTypeOK'
  BY <1>1, <1>2 DEF LinkInv, TimelineTables, Timelines!TimelineTypeOK
<1>4. QED
  BY <1>1, <1>3, LinkDone DEF Writing

LEMMA LinkSaveBudget ==
  ASSUME OneForm, LinkInv, NEW s \in Slots, Timelines!SaveBudget(s) PROVE LinkInv'
<1>1. ~ Timelines!Idle(s) /\ Timelines!Now(s).do = "save_budget" /\ Timelines!Done(s)
      /\ budgets' = [budgets EXCEPT ![Timelines!Now(s).id] = Timelines!Now(s).row]
      /\ UNCHANGED <<works, maintenances, txs, shown, entries, rows, stored>>
  BY DEF Timelines!SaveBudget, Timelines!Doing
<1>2. Timelines!Now(s).id \in Timelines!Entries /\ Timelines!Now(s).row \in Timelines!Budget
  BY <1>1, WriteHead DEF Writing, Writes
<1>3. Timelines!TimelineTypeOK'
  BY <1>1, <1>2 DEF LinkInv, TimelineTables, Timelines!TimelineTypeOK
<1>4. QED
  BY <1>1, <1>3, LinkDone DEF Writing

LEMMA LinkInsertEntry ==
  ASSUME OneForm, LinkInv, NEW s \in Slots, Timelines!InsertEntry(s) PROVE LinkInv'
<1>1. CASE Timelines!Refused(s)
  BY <1>1, LinkEnds DEF Timelines!Refused
<1>2. CASE ~ Timelines!Refused(s)
  <2>1. ~ Timelines!Idle(s) /\ Timelines!Now(s).do = "insert_entry" /\ Timelines!Done(s)
        /\ entries' = [entries EXCEPT ![Timelines!Now(s).id] = Timelines!Now(s).row]
        /\ UNCHANGED <<works, maintenances, txs, shown, budgets, rows, stored>>
    BY <1>2 DEF Timelines!InsertEntry, Timelines!Doing
  <2>2. Timelines!Now(s).id \in Timelines!Entries /\ Timelines!Now(s).row \in Timelines!Entry
    BY <2>1, WriteHead DEF Writing, Writes
  <2>3. Timelines!TimelineTypeOK'
    BY <2>1, <2>2 DEF LinkInv, TimelineTables, Timelines!TimelineTypeOK
  <2>4. QED
    BY <2>1, <2>3, LinkDone DEF Writing
<1>3. QED
  BY <1>1, <1>2

LEMMA LinkDeleteEntry ==
  ASSUME OneForm, LinkInv, NEW s \in Slots, Timelines!DeleteEntry(s) PROVE LinkInv'
<1>1. PICK e : e = Timelines!Now(s).id
  OBVIOUS
<1>2. /\ ~ Timelines!Idle(s) /\ Timelines!Now(s).do \in {"delete_budget", "delete_entry"} /\ Timelines!Done(s)
      /\ entries' = Timelines!Without({e}, entries)
      /\ budgets' = budgets \/ budgets' = Timelines!Without({e}, budgets)
      /\ rows' = rows \/ rows' = Timelines!RowsWithout({e})
      /\ UNCHANGED <<works, maintenances, txs, shown, stored>>
  BY <1>1 DEF Timelines!DeleteEntry, Timelines!Doing
<1>3. entries' \in [Timelines!Entries -> Timelines!Entry \cup {None}]
  BY <1>2 DEF LinkInv, TimelineTables, Timelines!TimelineTypeOK, Timelines!Without
<1>4. budgets' \in [Timelines!Entries -> Timelines!Budget \cup {None}]
  BY <1>2 DEF LinkInv, TimelineTables, Timelines!TimelineTypeOK, Timelines!Without
<1>5. rows' \in [Timelines!Files -> Timelines!Entries \cup {None}]
  BY <1>2 DEF LinkInv, TimelineTables, Timelines!TimelineTypeOK, Timelines!RowsWithout
<1>6. Timelines!TimelineTypeOK'
  BY <1>2, <1>3, <1>4, <1>5 DEF LinkInv, TimelineTables, Timelines!TimelineTypeOK
<1>7. QED
  BY <1>2, <1>6, LinkDone DEF Writing

LEMMA LinkRows ==
  ASSUME OneForm, LinkInv, NEW s \in Slots,
         Timelines!InsertRow(s) \/ Timelines!DeleteRow(s) \/ Timelines!SaveRow(s)
  PROVE  LinkInv'
<1>1. /\ ~ Timelines!Idle(s) /\ Timelines!Now(s).do \in {"insert_row", "delete_row", "save_row"} /\ Timelines!Done(s)
      /\ UNCHANGED <<works, maintenances, txs, shown, entries, budgets, stored>>
  BY DEF Timelines!InsertRow, Timelines!DeleteRow, Timelines!SaveRow, Timelines!Doing
<1>2. Timelines!Now(s).do \in {"insert_row", "save_row"} => Timelines!Now(s).id \in Timelines!Entries
  BY <1>1, WriteHead DEF Writing, Writes
<1>3. rows' \in [Timelines!Files -> Timelines!Entries \cup {None}]
  <2>1. rows \in [Timelines!Files -> Timelines!Entries \cup {None}]
    BY DEF LinkInv, TimelineTables, Timelines!TimelineTypeOK
  <2>2. CASE Timelines!InsertRow(s)
    BY <2>1, <2>2, <1>2 DEF Timelines!InsertRow, Timelines!Doing
  <2>3. CASE Timelines!DeleteRow(s)
    BY <2>1, <2>3 DEF Timelines!DeleteRow
  <2>4. CASE Timelines!SaveRow(s)
    BY <2>1, <2>4, <1>2 DEF Timelines!SaveRow, Timelines!Doing
  <2>5. QED
    BY <2>2, <2>3, <2>4
<1>4. Timelines!TimelineTypeOK'
  BY <1>1, <1>3 DEF LinkInv, TimelineTables, Timelines!TimelineTypeOK
<1>5. QED
  BY <1>1, <1>4, LinkDone DEF Writing

LEMMA LinkStore ==
  ASSUME OneForm, LinkInv, NEW s \in Slots, Timelines!Store(s) PROVE LinkInv'
<1>1. /\ ~ Timelines!Idle(s) /\ Timelines!Now(s).do = "store" /\ Timelines!Done(s)
      /\ stored' = stored \cup Timelines!Now(s).files
      /\ UNCHANGED <<works, maintenances, txs, shown, entries, budgets, rows>>
  BY DEF Timelines!Store, Timelines!Doing
<1>2. Timelines!Now(s).files \subseteq Timelines!Files
  BY <1>1, WriteHead DEF Writing, Writes
<1>3. Timelines!TimelineTypeOK'
  BY <1>1, <1>2 DEF LinkInv, TimelineTables, Timelines!TimelineTypeOK
<1>4. QED
  BY <1>1, <1>3, LinkDone DEF Writing

\* What remains of a transfer of files.
LEMMA FilesStatement ==
  ASSUME NEW what \in {"upload", "unlink", "insert_row"}, NEW e, NEW F \in SUBSET Timelines!Files,
         what # "unlink" => e \in Timelines!Entries
  PROVE  Writes(Timelines!DoFiles(what, e, F))
<1>1. PICK x : x = Timelines!DoFiles(what, e, F)
  OBVIOUS
<1>2. x.do = what /\ x.id = e /\ x.files = F
  BY <1>1 DEF Timelines!DoFiles, Timelines!Do
<1>3. Writes(x)
  BY <1>2 DEF Writes, Writing
<1>4. QED
  BY <1>1, <1>3

LEMMA LinkUpload ==
  ASSUME OneForm, LinkInv, NEW s \in Slots, Timelines!Upload(s) PROVE LinkInv'
<1>1. PICK p : p = tasks[s]
  OBVIOUS
<1>2. PICK e, F : e = Timelines!Now(s).id /\ F = Timelines!Now(s).files
  OBVIOUS
<1>3. PICK f \in F : /\ stored' = stored \cup {f}
                     /\ Timelines!Goes(s, << Timelines!DoFiles("insert_row", e, {f}),
                                             Timelines!DoFiles("upload", e, F \ {f}) >>)
  BY <1>2 DEF Timelines!Upload
<1>4. /\ ~ Timelines!Idle(s) /\ Timelines!Now(s).do = "upload"
      /\ UNCHANGED <<works, maintenances, txs, shown, entries, budgets, rows>>
  BY DEF Timelines!Upload, Timelines!Doing
<1>5. (\E T : p \in Seq(T)) /\ p # << >> /\ WriteProgram(p) /\ Writes(Timelines!Now(s))
  BY <1>1, <1>4, WriteHead DEF Writing
<1>6. F \subseteq Timelines!Files /\ e \in Timelines!Entries
  BY <1>2, <1>4, <1>5 DEF Writes
<1>7. PICK x, y : x = Timelines!DoFiles("insert_row", e, {f}) /\ y = Timelines!DoFiles("upload", e, F \ {f})
  OBVIOUS
<1>8. Writes(x) /\ Writes(y)
  BY <1>6, <1>7, FilesStatement
<1>9. PICK q : q = <<x, y>> \o Tail(p)
  OBVIOUS
<1>10. Program(q)
  BY <1>5, <1>8, <1>9, WriteTwo
<1>11. tasks' = [tasks EXCEPT ![s] = q] /\ interrupted' = interrupted
  BY <1>1, <1>3, <1>7, <1>9 DEF Timelines!Goes, Timelines!control
<1>12. Timelines!TimelineTypeOK'
  BY <1>3, <1>4, <1>6 DEF LinkInv, TimelineTables, Timelines!TimelineTypeOK
<1>13. TimelineTables'
  BY <1>4, <1>11, <1>12 DEF LinkInv, TimelineTables
<1>14. QED
  BY <1>1, <1>4, <1>5, <1>10, <1>11, <1>13, LinkWrite

LEMMA LinkUnlink ==
  ASSUME OneForm, LinkInv, NEW s \in Slots, Timelines!Unlink(s) PROVE LinkInv'
<1>1. PICK p : p = tasks[s]
  OBVIOUS
<1>2. PICK e, F : e = Timelines!Now(s).id /\ F = Timelines!Now(s).files
  OBVIOUS
<1>3. PICK f \in F : /\ stored' = stored \ {f}
                     /\ Timelines!Goes(s, << Timelines!DoFiles("unlink", e, F \ {f}) >>)
  BY <1>2 DEF Timelines!Unlink
<1>4. /\ ~ Timelines!Idle(s) /\ Timelines!Now(s).do = "unlink"
      /\ UNCHANGED <<works, maintenances, txs, shown, entries, budgets, rows>>
  BY DEF Timelines!Unlink, Timelines!Doing
<1>5. (\E T : p \in Seq(T)) /\ p # << >> /\ WriteProgram(p) /\ Writes(Timelines!Now(s))
  BY <1>1, <1>4, WriteHead DEF Writing
<1>6. F \subseteq Timelines!Files
  BY <1>2, <1>5 DEF Writes
<1>7. PICK x : x = Timelines!DoFiles("unlink", e, F \ {f})
  OBVIOUS
<1>8. Writes(x)
  BY <1>6, <1>7, FilesStatement
<1>9. PICK q : q = <<x>> \o Tail(p)
  OBVIOUS
<1>10. Program(q)
  BY <1>5, <1>8, <1>9, WriteOne
<1>11. tasks' = [tasks EXCEPT ![s] = q] /\ interrupted' = interrupted
  BY <1>1, <1>3, <1>7, <1>9 DEF Timelines!Goes, Timelines!control
<1>12. Timelines!TimelineTypeOK'
  BY <1>3, <1>4, <1>6 DEF LinkInv, TimelineTables, Timelines!TimelineTypeOK
<1>13. TimelineTables'
  BY <1>4, <1>11, <1>12 DEF LinkInv, TimelineTables
<1>14. QED
  BY <1>1, <1>4, <1>5, <1>10, <1>11, <1>13, LinkWrite

\* A record goes, and where the database enforces the keys the links to it.
LEMMA LinkDeleteRecord ==
  ASSUME TimelineParameters, OneForm, LinkInv, NEW s \in Slots, Timelines!DeleteRecord(s) PROVE LinkInv'
<1>1. PICK p : p = tasks[s]
  OBVIOUS
<1>2. PICK r, gone, deep : /\ r = Timelines!Now(s).id
                           /\ gone = {e \in Timelines!Entries : entries[e] # None /\ entries[e].of = r}
                           /\ deep = IF r \in Works THEN "work" ELSE "maintenance"
  OBVIOUS
<1>3. /\ ~ Timelines!Idle(s) /\ Timelines!Now(s).do = "delete_record" /\ Timelines!Done(s)
      /\ works' = IF r \in Works THEN [works EXCEPT ![r] = None] ELSE works
      /\ maintenances' = maintenances \ {r} /\ stored' = stored
      /\ IF Timelines!Keyed(deep)
         THEN /\ entries' = Timelines!Without(gone, entries) /\ budgets' = Timelines!Without(gone, budgets)
              /\ rows' = Timelines!RowsWithout(gone)
              /\ shown' = [shown EXCEPT ![deep] = [t \in Txs |->
                              IF @[t] # None /\ @[t].of = r THEN None ELSE @[t]]]
              /\ txs' = [t \in Txs |-> IF txs[t] # None /\ txs[t][deep] = r
                                       THEN [txs[t] EXCEPT ![deep] = None] ELSE txs[t]]
         ELSE UNCHANGED <<entries, budgets, rows, shown, txs>>
  BY <1>2 DEF Timelines!DeleteRecord, Timelines!Doing
<1>4. /\ works' \in [Works -> Timelines!Work \cup {None}] /\ maintenances' \subseteq Maintenances
      /\ stored' \subseteq Timelines!Files
  BY <1>3 DEF LinkInv, TimelineTables, Timelines!TimelineTypeOK
<1>5. CASE ~ Timelines!Keyed(deep)
  <2>1. Timelines!TimelineTypeOK' /\ txs' = txs /\ shown' = shown
    BY <1>3, <1>4, <1>5 DEF LinkInv, TimelineTables, Timelines!TimelineTypeOK
  <2>2. QED
    BY <1>3, <2>1, LinkDone DEF Writing
<1>6. CASE Timelines!Keyed(deep)
  <2>1. /\ entries' = [e \in Timelines!Entries |-> IF e \in gone THEN None ELSE entries[e]]
        /\ budgets' = [e \in Timelines!Entries |-> IF e \in gone THEN None ELSE budgets[e]]
        /\ rows' = [f \in Timelines!Files |-> IF rows[f] \in gone THEN None ELSE rows[f]]
    BY <1>3, <1>6 DEF Timelines!Without, Timelines!RowsWithout
  <2>2. /\ entries' \in [Timelines!Entries -> Timelines!Entry \cup {None}]
        /\ budgets' \in [Timelines!Entries -> Timelines!Budget \cup {None}]
        /\ rows' \in [Timelines!Files -> Timelines!Entries \cup {None}]
    BY <2>1 DEF LinkInv, TimelineTables, Timelines!TimelineTypeOK
  <2>3. deep \in Timelines!Sides
    BY <1>2 DEF Timelines!Sides
  <2>4. shown \in [Timelines!Sides -> [Txs -> ShownRows \cup {None}]] /\ txs \in [Txs -> Timelines!Transaction \cup {None}]
    BY DEF LinkInv, TimelineTables, Timelines!TimelineTypeOK
  <2>5. PICK old : old = shown[deep]
    OBVIOUS
  <2>6. old \in [Txs -> ShownRows \cup {None}]
    BY <2>3, <2>4, <2>5
  <2>7. PICK new : new = [t \in Txs |-> IF old[t] # None /\ old[t].of = r THEN None ELSE old[t]]
    OBVIOUS
  <2>8. new \in [Txs -> ShownRows \cup {None}]
    BY <2>6, <2>7
  <2>9. shown' = [shown EXCEPT ![deep] = new]
    BY <1>3, <1>6, <2>5, <2>7
  <2>10. shown' \in [Timelines!Sides -> [Txs -> ShownRows \cup {None}]]
    BY <2>3, <2>4, <2>8, <2>9
  <2>11. txs' = [t \in Txs |-> IF txs[t] # None /\ txs[t][deep] = r
                               THEN [txs[t] EXCEPT ![deep] = None] ELSE txs[t]]
    BY <1>3, <1>6
  <2>12. ASSUME NEW t \in Txs, txs[t] # None
         PROVE  /\ [txs[t] EXCEPT !["work"] = None] \in Timelines!Transaction
                /\ [txs[t] EXCEPT !["maintenance"] = None] \in Timelines!Transaction
    <3>1. txs[t] \in Timelines!Transaction
      BY <2>4, <2>12
    <3>2. QED
      BY <3>1 DEF Timelines!Transaction
  <2>13. txs' \in [Txs -> Timelines!Transaction \cup {None}]
    BY <2>4, <2>11, <2>12, <1>2
  <2>14. Timelines!TimelineTypeOK'
    BY <1>4, <2>2, <2>13 DEF LinkInv, TimelineTables, Timelines!TimelineTypeOK
  <2>15. (\E T : p \in Seq(T)) /\ p # << >> /\ WriteProgram(p)
    BY <1>1, <1>3, WriteHead DEF Writing
  <2>16. PICK q : q = << >> \o Tail(p)
    OBVIOUS
  <2>17. tasks' = [tasks EXCEPT ![s] = q] /\ interrupted' = interrupted
    BY <1>1, <1>3, <2>16 DEF Timelines!Done, Timelines!Goes, Timelines!control
  <2>18. Program(q) /\ WriteProgram(q)
    BY <2>15, <2>16, WriteDone
  <2>19. Program(q)'
    BY <2>18 DEF Program, WriteProgram
  <2>20. TimelineTables'
    BY <2>10, <2>14, <2>17 DEF LinkInv, TimelineTables
  <2>21. ASSUME NEW side \in Timelines!Sides, NEW t \in Txs, txs'[t] # None, <<side, t>> \notin interrupted'
         PROVE  LinkShown(side, t)'
    <3>1. txs[t] # None /\ <<side, t>> \notin interrupted
      BY <2>11, <2>17, <2>21
    <3>2. LinkShown(side, t)
      BY <1>1, <2>15, <3>1, OnlyDue, NothingDue
    <3>3. txs[t] \in Timelines!Transaction /\ shown[side][t] \in ShownRows \cup {None}
      BY <2>4, <3>1
    <3>4. PICK row : row = txs[t]
      OBVIOUS
    <3>5. PICK after : after = txs'[t]
      OBVIOUS
    <3>6. after = IF row[deep] = r THEN [row EXCEPT ![deep] = None] ELSE row
      BY <2>11, <3>1, <3>4, <3>5
    <3>7. row = [status |-> row.status, work |-> row.work, maintenance |-> row.maintenance]
      BY <3>3, <3>4 DEF Timelines!Transaction
    <3>8. after.status = row.status
      <4>1. CASE deep = "work"
        BY <4>1, <3>6, <3>7
      <4>2. CASE deep = "maintenance"
        BY <4>2, <3>6, <3>7
      <4>3. QED
        BY <4>1, <4>2, <1>2
    <3>9. CASE side = deep
      <4>1. shown'[side][t] = IF shown[side][t] # None /\ shown[side][t].of = r THEN None ELSE shown[side][t]
        BY <2>3, <2>4, <2>5, <2>7, <2>9, <3>9
      <4>2. after[side] = IF row[side] = r THEN None ELSE row[side]
        BY <3>6, <3>7, <3>9, <1>2
      <4>3. CASE row[side] = r /\ row[side] # None
        <5>1. shown[side][t] = [of |-> row[side], status |-> row.status]
          BY <3>2, <3>4, <4>3 DEF LinkShown
        <5>2. shown'[side][t] = None
          BY <4>1, <4>3, <5>1, <3>3 DEF TimelineParameters
        <5>3. QED
          BY <4>2, <4>3, <5>2, <3>5 DEF LinkShown
      <4>4. CASE row[side] # r /\ row[side] # None
        <5>1. shown[side][t] = [of |-> row[side], status |-> row.status]
          BY <3>2, <3>4, <4>4 DEF LinkShown
        <5>2. shown'[side][t] = [of |-> row[side], status |-> row.status]
          BY <4>1, <4>4, <5>1
        <5>3. QED
          BY <4>2, <4>4, <5>2, <3>5, <3>8 DEF LinkShown
      <4>5. CASE row[side] = None
        <5>1. shown[side][t] = None
          BY <3>2, <3>4, <4>5 DEF LinkShown
        <5>2. shown'[side][t] = None /\ after[side] = None
          BY <4>1, <4>2, <4>5, <5>1
        <5>3. QED
          BY <5>2, <3>5 DEF LinkShown
      <4>6. QED
        BY <4>3, <4>4, <4>5
    <3>10. CASE side # deep
      <4>1. shown'[side] = shown[side]
        BY <2>4, <2>9, <3>10
      <4>2. after[side] = row[side]
        <5>1. CASE deep = "work" /\ side = "maintenance"
          BY <5>1, <3>6, <3>7
        <5>2. CASE deep = "maintenance" /\ side = "work"
          BY <5>2, <3>6, <3>7
        <5>3. QED
          BY <5>1, <5>2, <3>10, <1>2 DEF Timelines!Sides
      <4>3. QED
        BY <3>2, <3>4, <3>5, <3>8, <4>1, <4>2 DEF LinkShown
    <3>11. QED
      BY <3>9, <3>10
  <2>22. QED
    BY <2>17, <2>19, <2>20, <2>21, LinkMove
<1>7. QED
  BY <1>5, <1>6

(***************************************************************************)
(* The links of transactions.                                              *)
(***************************************************************************)

LEMMA LinkHead ==
  ASSUME LinkInv, NEW s \in Slots, ~ Timelines!Idle(s), Timelines!Now(s).do \in Linking
  PROVE  /\ \E T : tasks[s] \in Seq(T)
         /\ tasks[s] # << >> /\ LinkProgram(tasks[s]) /\ Timelines!Now(s) = tasks[s][1]
         /\ Len(tasks[s]) \in Nat \ {0} /\ 1 \in 1..Len(tasks[s])
<1>1. PICK p : p = tasks[s]
  OBVIOUS
<1>2. PICK T : p \in Seq(T)
  BY <1>1 DEF LinkInv, Program, QueueProgram
<1>3. p # << >> /\ Len(p) \in Nat \ {0} /\ Head(p) = p[1]
  <2>1. p # << >>
    BY <1>1 DEF Timelines!Idle
  <2>2. QED
    BY <2>1, <1>2, SpliceNone DEF FrontNone
<1>4. WriteProgram(p) \/ LinkProgram(p)
  <2>1. ~ QueueProgram(p)
    BY <1>1, <1>3 DEF Timelines!Now, Writing, Linking, Syncing, QueueProgram
  <2>2. QED
    BY <1>1, <2>1 DEF LinkInv, Program
<1>5. ~ WriteProgram(p)
  <2>1. p[1].do \notin Writing
    BY <1>1, <1>3 DEF Timelines!Now, Writing, Linking, Syncing
  <2>2. 1 \in 1..Len(p)
    BY <1>3
  <2>3. QED
    BY <2>1, <2>2 DEF WriteProgram, Writes
<1>6. QED
  BY <1>1, <1>2, <1>3, <1>4, <1>5 DEF Timelines!Now

\* What is left of a program after its head.
LEMMA RestOf ==
  ASSUME NEW p, NEW q, FrontNone(p, q)
  PROVE  /\ Len(p) \in Nat \ {0} /\ Len(q) = Len(p) - 1 /\ Len(q) \in Nat
         /\ \A i \in 1..Len(q) : i + 1 \in 2..Len(p) /\ i + 1 \in 1..Len(p) /\ q[i] = p[i + 1]
         /\ \A i \in 2..Len(p) : i - 1 \in 1..Len(q) /\ q[i - 1] = p[i]
<1>1. Len(p) \in Nat \ {0} /\ Len(q) = Len(p) - 1 /\ \A i \in 1..Len(q) : q[i] = p[i + 1]
  BY DEF FrontNone
<1>2. \A i \in 1..Len(q) : i + 1 \in 2..Len(p) /\ i + 1 \in 1..Len(p)
  BY <1>1
<1>3. ASSUME NEW i \in 2..Len(p) PROVE i - 1 \in 1..Len(q) /\ q[i - 1] = p[i]
  <2>1. PICK k : k = i - 1
    OBVIOUS
  <2>2. k \in 1..Len(q) /\ k + 1 = i
    BY <2>1, <1>1
  <2>3. QED
    BY <2>1, <2>2, <1>1
<1>4. QED
  BY <1>1, <1>2, <1>3

LEMMA SyncedRest ==
  ASSUME NEW p, NEW q, FrontNone(p, q), NEW i \in 1..Len(q), NEW t, NEW row, NEW side,
         SyncedAfter(p, i + 1, t, row, side)
  PROVE  SyncedAfter(q, i, t, row, side)
<1>1. PICK j \in (i + 2)..Len(p) :
        /\ p[j].id = t
        /\ \/ p[j].do = "load" /\ (side \in p[j].row \/ row[side] # None)
           \/ p[j].do \in Syncing /\ p[j].side = side
  BY DEF SyncedAfter
<1>2. PICK k : k = j - 1
  OBVIOUS
<1>3. j \in 2..Len(p) /\ k \in (i + 1)..Len(q)
  BY <1>1, <1>2, RestOf
<1>4. q[k] = p[j]
  BY <1>2, <1>3, RestOf
<1>5. QED
  BY <1>1, <1>3, <1>4 DEF SyncedAfter

\* A program that goes on without its head, when what the head did was to save a transaction.
LEMMA CommitRest ==
  ASSUME TimelineParameters, NEW p, LinkProgram(p), NEW q, FrontNone(p, q), p[1].do = "commit",
         txs \in [Txs -> Timelines!Transaction \cup {None}],
         txs' = [txs EXCEPT ![p[1].id] = p[1].row]
  PROVE  LinkProgram(q)' /\ p[1].id \in Txs /\ p[1].row \in Timelines!Transaction
<1>1. /\ Len(p) \in Nat \ {0} /\ Len(q) = Len(p) - 1 /\ Len(q) \in Nat
      /\ \A i \in 1..Len(q) : i + 1 \in 2..Len(p) /\ i + 1 \in 1..Len(p) /\ q[i] = p[i + 1]
      /\ \A i \in 2..Len(p) : i - 1 \in 1..Len(q) /\ q[i - 1] = p[i]
  BY RestOf
<1>2. PICK u, new : u = p[1].id /\ new = p[1].row
  OBVIOUS
<1>3. 1 \in 1..Len(p)
  BY <1>1
<1>4. /\ u \in Txs /\ new \in Timelines!Transaction
      /\ \A j \in 2..Len(p) : p[j].do = "commit" => p[j].id # u
  <2>1. Commits(p)
    BY DEF LinkProgram
  <2>2. \A j \in 2..Len(p) : j \in 1..Len(p) /\ j # 1
    BY <1>1
  <2>3. QED
    BY <2>1, <2>2, <1>2, <1>3 DEF Commits
<1>5. txs'[u] = new /\ new # None /\ \A t \in Txs : t # u => txs'[t] = txs[t]
  BY <1>2, <1>4 DEF TimelineParameters
<1>6. ASSUME NEW t \in Txs, t # u, NEW row, NEW side, Agrees(t, row, side) PROVE Agrees(t, row, side)'
  BY <1>5, <1>6 DEF Agrees
<1>7. Commits(q)'
  <2>1. SUFFICES ASSUME NEW i \in 1..Len(q), q[i].do = "commit"
                 PROVE  /\ q[i].id \in Txs /\ q[i].row \in Timelines!Transaction
                        /\ \A j \in 1..Len(q) : j < i => q[j].id # q[i].id
                        /\ \A j \in 1..Len(q) : q[j].do = "commit" /\ j # i => q[j].id # q[i].id
                        /\ \A side \in Timelines!Sides :
                              Agrees(q[i].id, q[i].row, side)' \/ SyncedAfter(q, i, q[i].id, q[i].row, side)
    BY DEF Commits, SyncedAfter
  <2>2. PICK k : k = i + 1
    OBVIOUS
  <2>3. k \in 1..Len(p) /\ k \in 2..Len(p) /\ q[i] = p[k] /\ p[k].do = "commit"
    BY <2>1, <2>2, <1>1
  <2>4. /\ p[k].id \in Txs /\ p[k].row \in Timelines!Transaction
        /\ \A j \in 1..Len(p) : j < k => p[j].id # p[k].id
        /\ \A j \in 1..Len(p) : p[j].do = "commit" /\ j # k => p[j].id # p[k].id
        /\ \A side \in Timelines!Sides : Agrees(p[k].id, p[k].row, side) \/ SyncedAfter(p, k, p[k].id, p[k].row, side)
    BY <2>3 DEF LinkProgram, Commits
  <2>5. p[k].id # u
    BY <2>3, <1>4
  <2>6. ASSUME NEW j \in 1..Len(q), j < i PROVE q[j].id # q[i].id
    <3>1. j + 1 \in 1..Len(p) /\ j + 1 < k /\ q[j] = p[j + 1]
      BY <2>2, <2>6, <1>1
    <3>2. QED
      BY <3>1, <2>3, <2>4
  <2>7. ASSUME NEW j \in 1..Len(q), q[j].do = "commit", j # i PROVE q[j].id # q[i].id
    <3>1. j + 1 \in 1..Len(p) /\ j + 1 # k /\ q[j] = p[j + 1]
      BY <2>2, <2>7, <1>1
    <3>2. QED
      BY <3>1, <2>3, <2>4, <2>7
  <2>8. ASSUME NEW side \in Timelines!Sides
        PROVE  Agrees(q[i].id, q[i].row, side)' \/ SyncedAfter(q, i, q[i].id, q[i].row, side)
    <3>1. PICK t, row : t = p[k].id /\ row = p[k].row
      OBVIOUS
    <3>2. CASE Agrees(t, row, side)
      <4>1. Agrees(t, row, side)'
        BY <3>1, <3>2, <2>4, <2>5, <1>6
      <4>2. QED
        BY <4>1, <3>1, <2>3
    <3>3. CASE SyncedAfter(p, k, t, row, side)
      <4>1. SyncedAfter(q, i, t, row, side)
        BY <3>3, <2>2, SyncedRest
      <4>2. QED
        BY <4>1, <3>1, <2>3
    <3>4. QED
      BY <3>1, <3>2, <3>3, <2>4
  <2>9. QED
    BY <2>3, <2>4, <2>6, <2>7, <2>8
<1>8. Syncs(q)'
  <2>1. SUFFICES ASSUME NEW i \in 1..Len(q), q[i].do \in Syncing
                 PROVE  /\ q[i].id \in Txs /\ q[i].side \in Timelines!Sides /\ q[i].row \in Timelines!Transaction
                        /\ q[i].do = "find"
                        /\ \/ \E j \in (i + 1)..Len(q) : q[j].do = "delete_txs" /\ q[j].id = q[i].id
                           \/ \E j \in 1..(i - 1) : q[j].do = "commit" /\ q[j].id = q[i].id /\ q[j].row = q[i].row
                           \/ txs'[q[i].id] = q[i].row /\ \A j \in 1..Len(q) : q[j].do = "commit" => q[j].id # q[i].id
    BY DEF Syncs
  <2>2. PICK k : k = i + 1
    OBVIOUS
  <2>3. k \in 1..Len(p) /\ k \in 2..Len(p) /\ q[i] = p[k] /\ p[k].do \in Syncing /\ k # 1
    BY <2>1, <2>2, <1>1
  <2>4. /\ p[k].id \in Txs /\ p[k].side \in Timelines!Sides /\ p[k].row \in Timelines!Transaction
        /\ p[k].do = "find"
        /\ \/ \E j \in (k + 1)..Len(p) : p[j].do = "delete_txs" /\ p[j].id = p[k].id
           \/ \E j \in 1..(k - 1) : p[j].do = "commit" /\ p[j].id = p[k].id /\ p[j].row = p[k].row
           \/ txs[p[k].id] = p[k].row /\ \A j \in 1..Len(p) : p[j].do = "commit" => p[j].id # p[k].id
    BY <2>3 DEF LinkProgram, Syncs
  <2>5. CASE \E j \in (k + 1)..Len(p) : p[j].do = "delete_txs" /\ p[j].id = p[k].id
    <3>1. PICK j \in (k + 1)..Len(p) : p[j].do = "delete_txs" /\ p[j].id = p[k].id
      BY <2>5
    <3>2. j \in 2..Len(p) /\ j - 1 \in (i + 1)..Len(q)
      BY <3>1, <2>2, <1>1
    <3>3. q[j - 1] = p[j]
      BY <3>2, <1>1
    <3>4. QED
      BY <3>1, <3>2, <3>3, <2>3, <2>4
  <2>6. CASE \E j \in 1..(k - 1) : p[j].do = "commit" /\ p[j].id = p[k].id /\ p[j].row = p[k].row
    <3>1. PICK j \in 1..(k - 1) : p[j].do = "commit" /\ p[j].id = p[k].id /\ p[j].row = p[k].row
      BY <2>6
    <3>2. CASE j = 1
      <4>1. p[k].id = u /\ p[k].row = new
        BY <3>1, <3>2, <1>2
      <4>2. \A l \in 1..Len(q) : q[l].do = "commit" => q[l].id # u
        BY <1>1, <1>4
      <4>3. QED
        BY <4>1, <4>2, <2>3, <2>4, <1>5
    <3>3. CASE j # 1
      <4>1. j \in 2..Len(p) /\ j - 1 \in 1..(i - 1)
        BY <3>1, <3>3, <2>2, <1>1
      <4>2. q[j - 1] = p[j]
        BY <4>1, <1>1
      <4>3. QED
        BY <4>1, <4>2, <3>1, <2>3, <2>4
    <3>4. QED
      BY <3>2, <3>3
  <2>7. CASE txs[p[k].id] = p[k].row /\ \A j \in 1..Len(p) : p[j].do = "commit" => p[j].id # p[k].id
    <3>1. p[k].id # u
      BY <2>7, <1>2, <1>3
    <3>2. txs'[p[k].id] = p[k].row
      BY <3>1, <2>4, <2>7, <1>5
    <3>3. \A j \in 1..Len(q) : q[j].do = "commit" => q[j].id # p[k].id
      BY <2>7, <1>1
    <3>4. QED
      BY <3>2, <3>3, <2>3, <2>4
  <2>8. QED
    BY <2>4, <2>5, <2>6, <2>7
<1>9. Loads(q)'
  <2>1. SUFFICES ASSUME NEW i \in 1..Len(q), q[i].do = "load"
                 PROVE  /\ i = Len(q) /\ q[i].id \in Txs
                        /\ txs'[q[i].id] # None \/ \E j \in 1..(i - 1) : q[j].do = "commit" /\ q[j].id = q[i].id
    BY DEF Loads
  <2>2. PICK k : k = i + 1
    OBVIOUS
  <2>3. k \in 1..Len(p) /\ q[i] = p[k] /\ p[k].do = "load"
    BY <2>1, <2>2, <1>1
  <2>4. /\ k = Len(p) /\ p[k].id \in Txs
        /\ txs[p[k].id] # None \/ \E j \in 1..(k - 1) : p[j].do = "commit" /\ p[j].id = p[k].id
    BY <2>3 DEF LinkProgram, Loads
  <2>5. CASE txs[p[k].id] # None \/ p[k].id = u
    <3>1. txs'[p[k].id] # None
      BY <2>4, <2>5, <1>5
    <3>2. QED
      BY <3>1, <2>2, <2>3, <2>4, <1>1
  <2>6. CASE p[k].id # u /\ \E j \in 1..(k - 1) : p[j].do = "commit" /\ p[j].id = p[k].id
    <3>1. PICK j \in 1..(k - 1) : p[j].do = "commit" /\ p[j].id = p[k].id
      BY <2>6
    <3>2. j # 1
      BY <3>1, <2>6, <1>2
    <3>3. j \in 2..Len(p) /\ j - 1 \in 1..(i - 1)
      BY <3>1, <3>2, <2>2, <1>1
    <3>4. q[j - 1] = p[j]
      BY <3>3, <1>1
    <3>5. i = Len(q)
      BY <2>2, <2>4, <1>1
    <3>6. QED
      BY <3>1, <3>3, <3>4, <3>5, <2>3, <2>4
  <2>7. QED
    BY <2>4, <2>5, <2>6
<1>10. Deletes(q)'
  <2>1. \A i \in 1..Len(q) : i + 1 = Len(p) => i = Len(q)
    BY <1>1
  <2>2. \A i \in 1..Len(p) : p[i].do = "delete_txs" => i = Len(p) /\ (p[i].id \in Txs => p[i].id \in p[i].row)
    BY DEF LinkProgram, Deletes
  <2>3. QED
    BY <2>1, <2>2, <1>1 DEF Deletes
<1>11. Assigns(q)'
  <2>1. SUFFICES ASSUME NEW i \in 1..Len(q), q[i].do = "assign"
                 PROVE  /\ i = Len(q) /\ q[i].id = None /\ q[i].side \in Timelines!Sides
                        /\ \A t \in DOMAIN q[i].row :
                              /\ t \in Txs /\ q[i].row[t] \in Timelines!Transaction /\ \A j \in 1..Len(q) : q[j].id # t
                              /\ \A side \in Timelines!Sides : side # q[i].side => Agrees(t, q[i].row[t], side)'
    BY DEF Assigns
  <2>2. PICK k : k = i + 1
    OBVIOUS
  <2>3. k \in 1..Len(p) /\ q[i] = p[k] /\ p[k].do = "assign"
    BY <2>1, <2>2, <1>1
  <2>4. /\ k = Len(p) /\ p[k].id = None /\ p[k].side \in Timelines!Sides
        /\ \A t \in DOMAIN p[k].row :
              /\ t \in Txs /\ p[k].row[t] \in Timelines!Transaction /\ \A j \in 1..Len(p) : p[j].id # t
              /\ \A side \in Timelines!Sides : side # p[k].side => Agrees(t, p[k].row[t], side)
    BY <2>3 DEF LinkProgram, Assigns
  <2>5. i = Len(q)
    BY <2>2, <2>4, <1>1
  <2>6. ASSUME NEW t \in DOMAIN p[k].row
        PROVE  /\ t \in Txs /\ p[k].row[t] \in Timelines!Transaction /\ \A j \in 1..Len(q) : q[j].id # t
               /\ \A side \in Timelines!Sides : side # p[k].side => Agrees(t, p[k].row[t], side)'
    <3>1. t \in Txs /\ t # u
      BY <2>4, <1>2, <1>3
    <3>2. \A j \in 1..Len(q) : q[j].id # t
      BY <2>4, <1>1
    <3>3. QED
      BY <3>1, <3>2, <2>4, <1>6
  <2>7. QED
    BY <2>3, <2>4, <2>5, <2>6
<1>12. \A i \in 1..Len(q) : q[i].do \in Linking /\ DOMAIN q[i] = Columns
  BY <1>1 DEF LinkProgram
<1>13. QED
  BY <1>2, <1>4, <1>7, <1>8, <1>9, <1>10, <1>11, <1>12 DEF LinkProgram

\* What was due after the head of a program is due still.
LEMMA DueRest ==
  ASSUME NEW p, NEW q, FrontNone(p, q), NEW side, NEW t, Due(p, side, t),
         txs'[t][side] = txs[t][side],
         p[1].id = t => p[1].do \notin Syncing \cup {"load", "delete_txs"}
  PROVE  Due(q, side, t)'
<1>1. PICK i \in 1..Len(p) :
        /\ p[i].id = t
        /\ \/ p[i].do = "load" /\ (side \in p[i].row \/ txs[t][side] # None)
           \/ p[i].do \in Syncing /\ p[i].side = side
           \/ p[i].do = "delete_txs"
  BY DEF Due
<1>2. PICK k : k = i - 1
  OBVIOUS
<1>3. i # 1
  BY <1>1
<1>4. i \in 2..Len(p) /\ k \in 1..Len(q)
  BY <1>1, <1>2, <1>3, RestOf
<1>5. q[k] = p[i]
  BY <1>2, <1>4, RestOf
<1>6. QED
  BY <1>1, <1>4, <1>5 DEF Due

LEMMA LinkCommit ==
  ASSUME TimelineParameters, OneForm, LinkInv, NEW s \in Slots, Timelines!Commit(s)
  PROVE  LinkInv'
<1>1. PICK p : p = tasks[s]
  OBVIOUS
<1>2. PICK q : q = << >> \o Tail(p)
  OBVIOUS
<1>3. /\ ~ Timelines!Idle(s) /\ Timelines!Now(s).do = "commit" /\ Timelines!Done(s)
      /\ txs' = [txs EXCEPT ![Timelines!Now(s).id] = Timelines!Now(s).row]
      /\ UNCHANGED <<works, maintenances, shown, entries, budgets, rows, stored>>
  BY DEF Timelines!Commit, Timelines!Doing
<1>4. (\E T : p \in Seq(T)) /\ p # << >> /\ LinkProgram(p) /\ Timelines!Now(s) = p[1] /\ 1 \in 1..Len(p)
  BY <1>1, <1>3, LinkHead DEF Linking
<1>5. FrontNone(p, q)
  BY <1>2, <1>4, SpliceNone
<1>6. PICK u, new : u = p[1].id /\ new = p[1].row
  OBVIOUS
<1>7. txs \in [Txs -> Timelines!Transaction \cup {None}]
  BY DEF LinkInv, TimelineTables, Timelines!TimelineTypeOK
<1>8. LinkProgram(q)' /\ u \in Txs /\ new \in Timelines!Transaction
  BY <1>3, <1>4, <1>5, <1>6, <1>7, CommitRest
<1>9. txs'[u] = new /\ (\A t \in Txs : t # u => txs'[t] = txs[t]) /\ txs' \in [Txs -> Timelines!Transaction \cup {None}]
  BY <1>3, <1>4, <1>6, <1>7, <1>8
<1>10. tasks' = [tasks EXCEPT ![s] = q] /\ interrupted' = interrupted
  BY <1>1, <1>2, <1>3 DEF Timelines!Done, Timelines!Goes, Timelines!control
<1>11. Program(q)'
  BY <1>5, <1>8 DEF Program, FrontNone
<1>12. TimelineTables'
  BY <1>3, <1>9, <1>10 DEF LinkInv, TimelineTables, Timelines!TimelineTypeOK
<1>13. ASSUME NEW side \in Timelines!Sides, NEW t \in Txs, txs'[t] # None, <<side, t>> \notin interrupted'
       PROVE  LinkShown(side, t)' \/ Due(q, side, t)'
  <2>1. CASE t # u
    <3>1. txs'[t] = txs[t]
      BY <1>9, <2>1
    <3>2. CASE LinkShown(side, t)
      BY <3>1, <3>2, <1>3 DEF LinkShown
    <3>3. CASE Due(p, side, t)
      BY <3>1, <3>3, <2>1, <1>5, <1>6, DueRest
    <3>4. QED
      BY <3>1, <3>2, <3>3, <1>1, <1>10, <1>13, OnlyDue
  <2>2. CASE t = u /\ Agrees(u, new, side)
    <3>1. txs[t] # None /\ new[side] = txs[t][side] /\ (new[side] = None \/ new.status = txs[t].status)
      BY <2>2 DEF Agrees
    <3>2. CASE LinkShown(side, t)
      BY <3>1, <3>2, <2>2, <1>3, <1>9 DEF LinkShown
    <3>3. CASE Due(p, side, t)
      <4>1. txs'[t][side] = txs[t][side]
        BY <3>1, <2>2, <1>9
      <4>2. p[1].do \notin Syncing \cup {"load", "delete_txs"}
        BY <1>3, <1>4 DEF Syncing
      <4>3. QED
        BY <4>1, <4>2, <3>3, <1>5, DueRest
    <3>4. QED
      BY <3>1, <3>2, <3>3, <1>1, <1>10, <1>13, OnlyDue
  <2>3. CASE t = u /\ SyncedAfter(p, 1, u, new, side)
    <3>1. PICK j \in 2..Len(p) :
            /\ p[j].id = u
            /\ \/ p[j].do = "load" /\ (side \in p[j].row \/ new[side] # None)
               \/ p[j].do \in Syncing /\ p[j].side = side
      BY <2>3 DEF SyncedAfter
    <3>2. PICK k : k = j - 1
      OBVIOUS
    <3>3. k \in 1..Len(q) /\ q[k] = p[j]
      BY <3>1, <3>2, <1>5, RestOf
    <3>4. QED
      BY <3>1, <3>3, <2>3, <1>9 DEF Due
  <2>4. Agrees(u, new, side) \/ SyncedAfter(p, 1, u, new, side)
    BY <1>3, <1>4, <1>6 DEF LinkProgram, Commits
  <2>5. QED
    BY <2>1, <2>2, <2>3, <2>4
<1>14. QED
  BY <1>10, <1>11, <1>12, <1>13, LinkMove

LEMMA FindFields ==
  ASSUME NEW side, NEW t, NEW row, NEW x, x = Timelines!Find(side, t, row)
  PROVE  x.do = "find" /\ x.id = t /\ x.row = row /\ x.side = side /\ DOMAIN x = Columns
<1>1. PICK y : y = Timelines!Do("find", t, row)
  OBVIOUS
<1>2. y = [do |-> "find", id |-> t, row |-> row, side |-> None, files |-> {}]
  BY <1>1 DEF Timelines!Do
<1>3. x = [y EXCEPT !.side = side]
  BY <1>1 DEF Timelines!Find
<1>4. QED
  BY <1>2, <1>3 DEF Columns

\* A program that looks for the entries of one transaction as it is.
LEMMA FindsProgram ==
  ASSUME NEW T, NEW q \in Seq(T), NEW t \in Txs, txs[t] \in Timelines!Transaction,
         \A i \in 1..Len(q) : /\ q[i].do = "find" /\ q[i].id = t /\ q[i].row = txs[t]
                              /\ q[i].side \in Timelines!Sides /\ DOMAIN q[i] = Columns
  PROVE  Program(q)
<1>1. Commits(q) /\ Loads(q) /\ Deletes(q) /\ Assigns(q)
  BY DEF Commits, Loads, Deletes, Assigns
<1>2. Syncs(q)
  BY DEF Syncs
<1>3. \A i \in 1..Len(q) : q[i].do \in Linking /\ DOMAIN q[i] = Columns
  BY DEF Linking, Syncing
<1>4. QED
  BY <1>1, <1>2, <1>3 DEF Program, LinkProgram

\* None, one or two statements.
LEMMA Joined ==
  ASSUME NEW x, NEW y, NEW a, a = << >> \/ a = <<x>>, NEW b, b = << >> \/ b = <<y>>, NEW f, f = a \o b
  PROVE  /\ f \in Seq({x, y}) /\ \A i \in 1..Len(f) : f[i] \in {x, y}
         /\ a = <<x>> => \E i \in 1..Len(f) : f[i] = x
         /\ b = <<y>> => \E i \in 1..Len(f) : f[i] = y
<1>0. /\ << >> \in Seq({x, y}) /\ Len(<< >>) = 0
      /\ <<x>> \in Seq({x, y}) /\ Len(<<x>>) = 1 /\ <<x>>[1] = x
      /\ <<y>> \in Seq({x, y}) /\ Len(<<y>>) = 1 /\ <<y>>[1] = y
  BY EmptySeq
<1>1. a \in Seq({x, y}) /\ Len(a) \in Nat /\ (a = <<x>> => Len(a) = 1 /\ a[1] = x)
  <2>1. CASE a = << >>
    BY <2>1, <1>0
  <2>2. CASE a = <<x>>
    BY <2>2, <1>0
  <2>3. QED
    BY <2>1, <2>2
<1>2. b \in Seq({x, y}) /\ Len(b) \in Nat /\ (b = <<y>> => Len(b) = 1 /\ b[1] = y)
  <2>1. CASE b = << >>
    BY <2>1, <1>0
  <2>2. CASE b = <<y>>
    BY <2>2, <1>0
  <2>3. QED
    BY <2>1, <2>2
<1>3. /\ f \in Seq({x, y}) /\ Len(f) = Len(a) + Len(b)
      /\ \A i \in 1..(Len(a) + Len(b)) : f[i] = IF i <= Len(a) THEN a[i] ELSE b[i - Len(a)]
  BY <1>1, <1>2, ConcatProperties
<1>4. \A i \in 1..Len(f) : f[i] \in {x, y}
  BY <1>3, ElementOfSeq
<1>5. ASSUME a = <<x>> PROVE \E i \in 1..Len(f) : f[i] = x
  <2>1. 1 \in 1..Len(f) /\ f[1] = x
    BY <1>1, <1>2, <1>3, <1>5
  <2>2. QED
    BY <2>1
<1>6. ASSUME b = <<y>> PROVE \E i \in 1..Len(f) : f[i] = y
  <2>1. PICK k : k = Len(a) + 1
    OBVIOUS
  <2>2. Len(a) \in Nat /\ Len(b) = 1 /\ b[1] = y
    BY <1>1, <1>2, <1>6
  <2>3. k \in 1..Len(f) /\ ~ (k <= Len(a)) /\ k - Len(a) = 1
    BY <2>1, <2>2, <1>3
  <2>4. f[k] = b[k - Len(a)]
    BY <2>3, <1>3
  <2>5. QED
    BY <2>2, <2>3, <2>4
<1>7. QED
  BY <1>3, <1>4, <1>5, <1>6

LEMMA LinkLoad ==
  ASSUME TimelineParameters, OneForm, LinkInv, NEW s \in Slots, Timelines!Load(s)
  PROVE  LinkInv'
<1>1. PICK p : p = tasks[s]
  OBVIOUS
<1>2. PICK u, sides : u = Timelines!Now(s).id /\ sides = Timelines!Now(s).row
  OBVIOUS
<1>3. PICK x, y : x = Timelines!Find("work", u, txs[u]) /\ y = Timelines!Find("maintenance", u, txs[u])
  OBVIOUS
<1>4. PICK a, b : /\ a = IF "work" \in sides \/ txs[u]["work"] # None THEN <<x>> ELSE << >>
                  /\ b = IF "maintenance" \in sides \/ txs[u]["maintenance"] # None THEN <<y>> ELSE << >>
  OBVIOUS
<1>5. PICK first : first = a \o b
  OBVIOUS
<1>6. /\ ~ Timelines!Idle(s) /\ Timelines!Now(s).do = "load" /\ Timelines!Goes(s, first)
      /\ UNCHANGED Timelines!tables
  BY <1>2, <1>3, <1>4, <1>5 DEF Timelines!Load, Timelines!Doing
<1>7. /\ \E T : p \in Seq(T)
      /\ p # << >> /\ LinkProgram(p) /\ Timelines!Now(s) = p[1] /\ 1 \in 1..Len(p)
  BY <1>1, <1>6, LinkHead DEF Linking
<1>8. Len(p) = 1 /\ u \in Txs /\ txs[u] # None
  <2>1. p[1].do = "load" /\ p[1].id = u
    BY <1>2, <1>6, <1>7
  <2>2. /\ 1 = Len(p) /\ p[1].id \in Txs
        /\ txs[p[1].id] # None \/ \E j \in 1..(1 - 1) : p[j].do = "commit" /\ p[j].id = p[1].id
    BY <2>1, <1>7 DEF LinkProgram, Loads
  <2>3. QED
    BY <2>1, <2>2
<1>9. txs[u] \in Timelines!Transaction
  BY <1>8 DEF LinkInv, TimelineTables, Timelines!TimelineTypeOK
<1>10. /\ first \in Seq({x, y}) /\ \A i \in 1..Len(first) : first[i] \in {x, y}
       /\ a = <<x>> => \E i \in 1..Len(first) : first[i] = x
       /\ b = <<y>> => \E i \in 1..Len(first) : first[i] = y
  BY <1>4, <1>5, Joined
<1>11. PICK q : q = first \o Tail(p)
  OBVIOUS
<1>12. (\E T : q \in Seq(T)) /\ Len(q) = Len(first) /\ \A i \in 1..Len(first) : q[i] = first[i]
  <2>1. Spliced(first, p, q) /\ Len(first) \in Nat
    BY <1>7, <1>10, <1>11, Splice
  <2>2. QED
    BY <2>1, <1>8 DEF Spliced
<1>13. /\ x.do = "find" /\ x.id = u /\ x.row = txs[u] /\ x.side = "work" /\ DOMAIN x = Columns
       /\ y.do = "find" /\ y.id = u /\ y.row = txs[u] /\ y.side = "maintenance" /\ DOMAIN y = Columns
  BY <1>3, FindFields
<1>14. \A i \in 1..Len(q) : /\ q[i].do = "find" /\ q[i].id = u /\ q[i].row = txs[u]
                            /\ q[i].side \in Timelines!Sides /\ DOMAIN q[i] = Columns
  BY <1>10, <1>12, <1>13 DEF Timelines!Sides
<1>15. txs' = txs /\ shown' = shown
  BY <1>6 DEF Timelines!tables
<1>16. Program(q)'
  BY <1>8, <1>9, <1>12, <1>14, <1>15, FindsProgram, ProgramSame
<1>17. tasks' = [tasks EXCEPT ![s] = q] /\ interrupted' = interrupted
  BY <1>1, <1>6, <1>11 DEF Timelines!Goes, Timelines!control
<1>18. TimelineTables'
  <2>1. DOMAIN tasks' = Slots
    BY <1>17 DEF LinkInv, TimelineTables
  <2>2. QED
    BY <1>6, <2>1, TablesSame DEF LinkInv
<1>19. ASSUME NEW side \in Timelines!Sides, NEW t \in Txs, txs'[t] # None, <<side, t>> \notin interrupted'
       PROVE  LinkShown(side, t)' \/ Due(q, side, t)'
  <2>1. CASE LinkShown(side, t)
    BY <2>1, <1>15, ShownSame
  <2>2. CASE Due(p, side, t)
    <3>1. t = u /\ (side \in sides \/ txs[u][side] # None)
      <4>1. p[1].id = u /\ p[1].do = "load" /\ p[1].row = sides
        BY <1>2, <1>6, <1>7
      <4>2. QED
        BY <4>1, <2>2, <1>8 DEF Due, Syncing
    <3>2. \E i \in 1..Len(q) : q[i].do = "find" /\ q[i].id = t /\ q[i].side = side
      <4>1. CASE side = "work"
        <5>1. a = <<x>>
          BY <4>1, <3>1, <1>4
        <5>2. QED
          BY <5>1, <4>1, <3>1, <1>10, <1>12, <1>13
      <4>2. CASE side = "maintenance"
        <5>1. b = <<y>>
          BY <4>2, <3>1, <1>4
        <5>2. QED
          BY <5>1, <4>2, <3>1, <1>10, <1>12, <1>13
      <4>3. QED
        BY <4>1, <4>2 DEF Timelines!Sides
    <3>3. QED
      BY <3>2 DEF Due, Syncing
  <2>3. QED
    BY <2>1, <2>2, <1>1, <1>15, <1>17, <1>19, OnlyDue
<1>20. QED
  BY <1>16, <1>17, <1>18, <1>19, LinkMove

LEMMA DoFields ==
  ASSUME NEW what, NEW id, NEW row, NEW x, x = Timelines!Do(what, id, row)
  PROVE  x.do = what /\ x.id = id /\ x.row = row /\ x.side = None /\ x.files = {} /\ DOMAIN x = Columns
BY DEF Timelines!Do, Columns

\* One of the transactions is saved and synchronised, the others are left.
AssignProgram(q, t, row, side, rest) ==
    /\ \E T : q \in Seq(T)
    /\ Len(q) = 3 /\ \A i \in 1..3 : DOMAIN q[i] = Columns
    /\ q[1].do = "commit" /\ q[1].id = t /\ q[1].row = row
    /\ q[2].do = "find" /\ q[2].id = t /\ q[2].row = row /\ q[2].side = side
    /\ q[3].do = "assign" /\ q[3].id = None /\ q[3].side = side /\ q[3].row = rest

LEMMA AssignsOne ==
  ASSUME None \notin Txs, NEW t \in Txs, NEW row \in Timelines!Transaction, NEW side \in Timelines!Sides, NEW rest,
         \A other \in Timelines!Sides : other # side => Agrees(t, row, other),
         \A u \in DOMAIN rest :
            /\ u \in Txs /\ u # t /\ rest[u] \in Timelines!Transaction
            /\ \A other \in Timelines!Sides : other # side => Agrees(u, rest[u], other),
         NEW q, AssignProgram(q, t, row, side, rest)
  PROVE  Program(q)
<1>1. /\ Len(q) = 3 /\ 1..Len(q) = {1, 2, 3} /\ \A i \in 1..3 : DOMAIN q[i] = Columns
      /\ q[1].do = "commit" /\ q[1].id = t /\ q[1].row = row
      /\ q[2].do = "find" /\ q[2].id = t /\ q[2].row = row /\ q[2].side = side
      /\ q[3].do = "assign" /\ q[3].id = None /\ q[3].side = side /\ q[3].row = rest
  BY DEF AssignProgram
<1>2. \A i \in 1..Len(q) : q[i].do \in Linking /\ DOMAIN q[i] = Columns
  BY <1>1 DEF Linking, Syncing
<1>3. Loads(q)
  BY <1>1 DEF Loads
<1>4. Deletes(q)
  BY <1>1 DEF Deletes
<1>5. Commits(q)
  <2>1. SyncedAfter(q, 1, t, row, side)
    <3>1. 2 \in (1 + 1)..Len(q)
      BY <1>1
    <3>2. QED
      BY <3>1, <1>1 DEF SyncedAfter, Syncing
  <2>2. \A i \in 1..Len(q) : q[i].do = "commit" => i = 1
    BY <1>1
  <2>3. \A j \in 1..Len(q) : ~ (j < 1)
    BY <1>1
  <2>4. \A other \in Timelines!Sides : Agrees(t, row, other) \/ SyncedAfter(q, 1, t, row, other)
    BY <2>1
  <2>5. QED
    BY <2>2, <2>3, <2>4, <1>1 DEF Commits
<1>6. Syncs(q)
  <2>1. \A i \in 1..Len(q) : q[i].do \in Syncing => i = 2
    BY <1>1 DEF Syncing
  <2>2. 1 \in 1..(2 - 1)
    OBVIOUS
  <2>3. QED
    BY <2>1, <2>2, <1>1 DEF Syncs
<1>7. Assigns(q)
  <2>1. \A i \in 1..Len(q) : q[i].do = "assign" => i = 3
    BY <1>1
  <2>2. \A u \in DOMAIN rest, j \in 1..Len(q) : q[j].id # u
    BY <1>1
  <2>3. QED
    BY <2>1, <2>2, <1>1 DEF Assigns
<1>8. QED
  BY <1>2, <1>3, <1>4, <1>5, <1>6, <1>7 DEF Program, LinkProgram, AssignProgram

LEMMA LinkAssign ==
  ASSUME TimelineParameters, OneForm, LinkInv, NEW s \in Slots, Timelines!Assign(s)
  PROVE  LinkInv'
<1>1. PICK p : p = tasks[s]
  OBVIOUS
<1>2. PICK n : n = Timelines!Now(s)
  OBVIOUS
<1>3. ~ Timelines!Idle(s) /\ n.do = "assign" /\ UNCHANGED Timelines!tables
  BY <1>2 DEF Timelines!Assign, Timelines!Doing
<1>4. PICK t \in DOMAIN n.row :
        Timelines!Goes(s, << Timelines!Do("commit", t, n.row[t]), Timelines!Find(n.side, t, n.row[t]),
                             [n EXCEPT !.row = [x \in DOMAIN n.row \ {t} |-> n.row[x]]] >>)
  BY <1>2 DEF Timelines!Assign
<1>5. PICK rest : rest = [x \in DOMAIN n.row \ {t} |-> n.row[x]]
  OBVIOUS
<1>6. PICK x, y, z : /\ x = Timelines!Do("commit", t, n.row[t]) /\ y = Timelines!Find(n.side, t, n.row[t])
                     /\ z = [n EXCEPT !.row = rest]
  OBVIOUS
<1>7. /\ \E T : p \in Seq(T)
      /\ p # << >> /\ LinkProgram(p) /\ n = p[1] /\ 1 \in 1..Len(p)
  BY <1>1, <1>2, <1>3, LinkHead DEF Linking
<1>8. /\ Len(p) = 1 /\ n.id = None /\ n.side \in Timelines!Sides
      /\ \A u \in DOMAIN n.row :
            /\ u \in Txs /\ n.row[u] \in Timelines!Transaction
            /\ \A side \in Timelines!Sides : side # n.side => Agrees(u, n.row[u], side)
  <2>1. Assigns(p)
    BY <1>7 DEF LinkProgram
  <2>2. QED
    BY <2>1, <1>3, <1>7 DEF Assigns
<1>9. PICK q : q = <<x, y, z>> \o Tail(p)
  OBVIOUS
<1>10. FrontThree(x, y, z, p, q)
  BY <1>7, <1>8, <1>9, SpliceThree
<1>11. AssignProgram(q, t, n.row[t], n.side, rest)
  <2>1. x.do = "commit" /\ x.id = t /\ x.row = n.row[t] /\ DOMAIN x = Columns
    BY <1>6, DoFields
  <2>2. y.do = "find" /\ y.id = t /\ y.row = n.row[t] /\ y.side = n.side /\ DOMAIN y = Columns
    BY <1>6, FindFields
  <2>3. DOMAIN n = Columns
    BY <1>7 DEF LinkProgram
  <2>4. z.do = "assign" /\ z.id = None /\ z.side = n.side /\ z.row = rest /\ DOMAIN z = Columns
    BY <1>3, <1>6, <1>8, <2>3 DEF Columns
  <2>5. Len(q) = 3 /\ q[1] = x /\ q[2] = y /\ q[3] = z /\ \E T : q \in Seq(T)
    BY <1>10 DEF FrontThree
  <2>6. \A i \in 1..3 : i = 1 \/ i = 2 \/ i = 3
    OBVIOUS
  <2>7. QED
    BY <2>1, <2>2, <2>4, <2>5, <2>6 DEF AssignProgram
<1>12. Program(q)
  <2>1. \A u \in DOMAIN rest : u \in DOMAIN n.row /\ u # t /\ rest[u] = n.row[u]
    BY <1>5
  <2>2. None \notin Txs
    BY DEF TimelineParameters
  <2>3. QED
    BY <2>1, <2>2, <1>4, <1>8, <1>11, AssignsOne
<1>13. txs' = txs /\ shown' = shown
  BY <1>3 DEF Timelines!tables
<1>14. tasks' = [tasks EXCEPT ![s] = q] /\ interrupted' = interrupted
  BY <1>1, <1>4, <1>5, <1>6, <1>9 DEF Timelines!Goes, Timelines!control
<1>15. TimelineTables'
  <2>1. DOMAIN tasks' = Slots
    BY <1>14 DEF LinkInv, TimelineTables
  <2>2. QED
    BY <1>3, <2>1, TablesSame DEF LinkInv
<1>16. Program(q)'
  BY <1>12, <1>13, ProgramSame
<1>17. ASSUME NEW side \in Timelines!Sides, NEW u \in Txs, txs'[u] # None, <<side, u>> \notin interrupted'
       PROVE  LinkShown(side, u)'
  <2>1. ~ Due(p, side, u)
    <3>1. p[1].id # u
      BY <1>7, <1>8 DEF TimelineParameters
    <3>2. QED
      BY <3>1, <1>8 DEF Due
  <2>2. LinkShown(side, u)
    BY <1>1, <1>13, <1>14, <1>17, <2>1, OnlyDue
  <2>3. QED
    BY <1>13, <2>2, ShownSame
<1>18. QED
  BY <1>14, <1>15, <1>16, <1>17, LinkMove

\* The last statement of a program.
LEMMA LastStatement ==
  ASSUME NEW T, NEW p \in Seq(T), p # << >>, Len(p) = 1, NEW q, q = << >> \o Tail(p)
  PROVE  Program(q) /\ Program(q)'
<1>1. (\E S : q \in Seq(S)) /\ Len(q) = 0
  BY SpliceNone DEF FrontNone
<1>2. WriteProgram(q)
  BY <1>1 DEF WriteProgram
<1>3. QED
  BY <1>1, <1>2 DEF Program

LEMMA LinkThrough ==
  ASSUME TimelineParameters, OneForm, LinkInv, NEW s \in Slots, Timelines!Through(s)
  PROVE  LinkInv'
<1>1. ~ Timelines!Idle(s) /\ Timelines!Done(s) /\ UNCHANGED Timelines!tables
  BY DEF Timelines!Through, Timelines!Doing
<1>2. txs' = txs /\ shown' = shown
  BY <1>1 DEF Timelines!tables
<1>3. CASE Timelines!Now(s).do \in {"upload", "unlink"}
  <2>1. Timelines!TimelineTypeOK'
    BY <1>1 DEF LinkInv, TimelineTables, Timelines!tables, Timelines!TimelineTypeOK
  <2>2. QED
    BY <1>1, <1>2, <1>3, <2>1, LinkDone DEF Writing
<1>4. CASE Timelines!Now(s).do = "assign"
  <2>1. PICK p : p = tasks[s]
    OBVIOUS
  <2>2. PICK q : q = << >> \o Tail(p)
    OBVIOUS
  <2>3. /\ \E T : p \in Seq(T)
        /\ p # << >> /\ LinkProgram(p) /\ p[1].do = "assign" /\ 1 \in 1..Len(p)
    BY <1>1, <1>4, <2>1, LinkHead DEF Linking
  <2>4. Len(p) = 1 /\ p[1].id = None
    BY <2>3 DEF LinkProgram, Assigns
  <2>5. tasks' = [tasks EXCEPT ![s] = q] /\ interrupted' = interrupted
    BY <1>1, <2>1, <2>2 DEF Timelines!Done, Timelines!Goes, Timelines!control
  <2>6. Program(q)'
    BY <2>2, <2>3, <2>4, LastStatement
  <2>7. TimelineTables'
    <3>1. DOMAIN tasks' = Slots
      BY <2>5 DEF LinkInv, TimelineTables
    <3>2. QED
      BY <1>1, <3>1, TablesSame DEF LinkInv
  <2>8. ASSUME NEW side \in Timelines!Sides, NEW u \in Txs, txs'[u] # None, <<side, u>> \notin interrupted'
        PROVE  LinkShown(side, u)'
    <3>1. ~ Due(p, side, u)
      <4>1. p[1].id # u
        BY <2>4 DEF TimelineParameters
      <4>2. QED
        BY <4>1, <2>4 DEF Due
    <3>2. LinkShown(side, u)
      BY <1>2, <2>1, <2>5, <2>8, <3>1, OnlyDue
    <3>3. QED
      BY <1>2, <3>2, ShownSame
  <2>9. QED
    BY <2>5, <2>6, <2>7, <2>8, LinkMove
<1>5. QED
  BY <1>3, <1>4 DEF Timelines!Through, Timelines!Doing

LEMMA LinkDeleteTransactions ==
  ASSUME TimelineParameters, OneForm, LinkInv, NEW s \in Slots, Timelines!DeleteTransactions(s)
  PROVE  LinkInv'
<1>1. PICK p : p = tasks[s]
  OBVIOUS
<1>2. PICK q : q = << >> \o Tail(p)
  OBVIOUS
<1>3. PICK gone : gone = Timelines!Now(s).row
  OBVIOUS
<1>4. /\ ~ Timelines!Idle(s) /\ Timelines!Now(s).do = "delete_txs" /\ Timelines!Done(s)
      /\ txs' = [t \in Txs |-> IF t \in gone THEN None ELSE txs[t]]
      /\ shown' = [side \in Timelines!Sides |-> [t \in Txs |->
                      IF t \in gone /\ Timelines!Keyed(side) THEN None ELSE shown[side][t]]]
      /\ UNCHANGED <<works, maintenances, entries, budgets, rows, stored>>
  BY <1>3 DEF Timelines!DeleteTransactions, Timelines!Doing
<1>5. /\ \E T : p \in Seq(T)
      /\ p # << >> /\ LinkProgram(p) /\ p[1].do = "delete_txs" /\ p[1].row = gone /\ 1 \in 1..Len(p)
  BY <1>1, <1>3, <1>4, LinkHead DEF Linking
<1>6. Len(p) = 1 /\ (p[1].id \in Txs => p[1].id \in gone)
  BY <1>5 DEF LinkProgram, Deletes
<1>7. tasks' = [tasks EXCEPT ![s] = q] /\ interrupted' = interrupted
  BY <1>1, <1>2, <1>4 DEF Timelines!Done, Timelines!Goes, Timelines!control
<1>8. Program(q)'
  BY <1>2, <1>5, <1>6, LastStatement
<1>9. TimelineTables'
  <2>1. txs \in [Txs -> Timelines!Transaction \cup {None}] /\ shown \in [Timelines!Sides -> [Txs -> ShownRows \cup {None}]]
    BY DEF LinkInv, TimelineTables, Timelines!TimelineTypeOK
  <2>2. txs' \in [Txs -> Timelines!Transaction \cup {None}]
    BY <1>4, <2>1
  <2>3. shown' \in [Timelines!Sides -> [Txs -> ShownRows \cup {None}]]
    <3>1. ASSUME NEW side \in Timelines!Sides PROVE shown'[side] \in [Txs -> ShownRows \cup {None}]
      <4>1. shown'[side] = [t \in Txs |-> IF t \in gone /\ Timelines!Keyed(side) THEN None ELSE shown[side][t]]
        BY <1>4
      <4>2. QED
        BY <4>1, <2>1
    <3>2. QED
      BY <1>4, <3>1
  <2>4. QED
    BY <1>4, <1>7, <2>2, <2>3 DEF LinkInv, TimelineTables, Timelines!TimelineTypeOK
<1>10. ASSUME NEW side \in Timelines!Sides, NEW u \in Txs, txs'[u] # None, <<side, u>> \notin interrupted'
       PROVE  LinkShown(side, u)'
  <2>1. u \notin gone /\ txs'[u] = txs[u] /\ shown'[side][u] = shown[side][u]
    BY <1>4, <1>10
  <2>2. ~ Due(p, side, u)
    <3>1. p[1].id # u
      BY <1>6, <2>1
    <3>2. QED
      BY <3>1, <1>6 DEF Due
  <2>3. LinkShown(side, u)
    BY <1>1, <1>7, <1>10, <2>1, <2>2, OnlyDue
  <2>4. QED
    BY <2>1, <2>3 DEF LinkShown
<1>11. QED
  BY <1>7, <1>8, <1>9, <1>10, LinkMove

LEMMA RestIsTail ==
  ASSUME NEW T, NEW p \in Seq(T), p # << >>, NEW q, q = Tail(p) PROVE FrontNone(p, q)
<1>1. /\ q \in Seq(T) /\ Len(p) \in Nat \ {0} /\ Len(q) = Len(p) - 1 /\ Head(p) = p[1]
      /\ \A i \in 1..(Len(p) - 1) : q[i] = p[i + 1]
  BY HeadTailProperties, EmptySeq, LenProperties
<1>2. QED
  BY <1>1 DEF FrontNone

\* A program that goes on without its head, when that was not a commit.
LEMMA SyncRest ==
  ASSUME NEW p, LinkProgram(p), NEW q, FrontNone(p, q), p[1].do # "commit"
  PROVE  LinkProgram(q)
<1>1. /\ Len(p) \in Nat \ {0} /\ Len(q) = Len(p) - 1 /\ Len(q) \in Nat
      /\ \A i \in 1..Len(q) : i + 1 \in 2..Len(p) /\ i + 1 \in 1..Len(p) /\ q[i] = p[i + 1]
      /\ \A i \in 2..Len(p) : i - 1 \in 1..Len(q) /\ q[i - 1] = p[i]
  BY RestOf
<1>2. Commits(q)
  <2>1. SUFFICES ASSUME NEW i \in 1..Len(q), q[i].do = "commit"
                 PROVE  /\ q[i].id \in Txs /\ q[i].row \in Timelines!Transaction
                        /\ \A j \in 1..Len(q) : j < i => q[j].id # q[i].id
                        /\ \A j \in 1..Len(q) : q[j].do = "commit" /\ j # i => q[j].id # q[i].id
                        /\ \A side \in Timelines!Sides :
                              Agrees(q[i].id, q[i].row, side) \/ SyncedAfter(q, i, q[i].id, q[i].row, side)
    BY DEF Commits
  <2>2. PICK k : k = i + 1
    OBVIOUS
  <2>3. k \in 1..Len(p) /\ k \in 2..Len(p) /\ q[i] = p[k] /\ p[k].do = "commit"
    BY <2>1, <2>2, <1>1
  <2>4. /\ p[k].id \in Txs /\ p[k].row \in Timelines!Transaction
        /\ \A j \in 1..Len(p) : j < k => p[j].id # p[k].id
        /\ \A j \in 1..Len(p) : p[j].do = "commit" /\ j # k => p[j].id # p[k].id
        /\ \A side \in Timelines!Sides : Agrees(p[k].id, p[k].row, side) \/ SyncedAfter(p, k, p[k].id, p[k].row, side)
    BY <2>3 DEF LinkProgram, Commits
  <2>5. ASSUME NEW j \in 1..Len(q), j < i PROVE q[j].id # q[i].id
    <3>1. j + 1 \in 1..Len(p) /\ j + 1 < k /\ q[j] = p[j + 1]
      BY <2>2, <2>5, <1>1
    <3>2. QED
      BY <3>1, <2>3, <2>4
  <2>6. ASSUME NEW j \in 1..Len(q), q[j].do = "commit", j # i PROVE q[j].id # q[i].id
    <3>1. j + 1 \in 1..Len(p) /\ j + 1 # k /\ q[j] = p[j + 1]
      BY <2>2, <2>6, <1>1
    <3>2. QED
      BY <3>1, <2>3, <2>4, <2>6
  <2>7. ASSUME NEW side \in Timelines!Sides
        PROVE  Agrees(q[i].id, q[i].row, side) \/ SyncedAfter(q, i, q[i].id, q[i].row, side)
    <3>1. SyncedAfter(p, k, p[k].id, p[k].row, side) => SyncedAfter(q, i, p[k].id, p[k].row, side)
      BY <2>2, SyncedRest
    <3>2. QED
      BY <3>1, <2>3, <2>4
  <2>8. QED
    BY <2>3, <2>4, <2>5, <2>6, <2>7
<1>3. Syncs(q)
  <2>1. SUFFICES ASSUME NEW i \in 1..Len(q), q[i].do \in Syncing
                 PROVE  /\ q[i].id \in Txs /\ q[i].side \in Timelines!Sides /\ q[i].row \in Timelines!Transaction
                        /\ q[i].do = "find"
                        /\ \/ \E j \in (i + 1)..Len(q) : q[j].do = "delete_txs" /\ q[j].id = q[i].id
                           \/ \E j \in 1..(i - 1) : q[j].do = "commit" /\ q[j].id = q[i].id /\ q[j].row = q[i].row
                           \/ txs[q[i].id] = q[i].row /\ \A j \in 1..Len(q) : q[j].do = "commit" => q[j].id # q[i].id
    BY DEF Syncs
  <2>2. PICK k : k = i + 1
    OBVIOUS
  <2>3. k \in 1..Len(p) /\ k \in 2..Len(p) /\ q[i] = p[k] /\ p[k].do \in Syncing /\ k # 1
    BY <2>1, <2>2, <1>1
  <2>4. /\ p[k].id \in Txs /\ p[k].side \in Timelines!Sides /\ p[k].row \in Timelines!Transaction
        /\ p[k].do = "find"
        /\ \/ \E j \in (k + 1)..Len(p) : p[j].do = "delete_txs" /\ p[j].id = p[k].id
           \/ \E j \in 1..(k - 1) : p[j].do = "commit" /\ p[j].id = p[k].id /\ p[j].row = p[k].row
           \/ txs[p[k].id] = p[k].row /\ \A j \in 1..Len(p) : p[j].do = "commit" => p[j].id # p[k].id
    BY <2>3 DEF LinkProgram, Syncs
  <2>5. CASE \E j \in (k + 1)..Len(p) : p[j].do = "delete_txs" /\ p[j].id = p[k].id
    <3>1. PICK j \in (k + 1)..Len(p) : p[j].do = "delete_txs" /\ p[j].id = p[k].id
      BY <2>5
    <3>2. j \in 2..Len(p) /\ j - 1 \in (i + 1)..Len(q)
      BY <3>1, <2>2, <1>1
    <3>3. q[j - 1] = p[j]
      BY <3>2, <1>1
    <3>4. QED
      BY <3>1, <3>2, <3>3, <2>3, <2>4
  <2>6. CASE \E j \in 1..(k - 1) : p[j].do = "commit" /\ p[j].id = p[k].id /\ p[j].row = p[k].row
    <3>1. PICK j \in 1..(k - 1) : p[j].do = "commit" /\ p[j].id = p[k].id /\ p[j].row = p[k].row
      BY <2>6
    <3>2. j # 1
      BY <3>1
    <3>3. j \in 2..Len(p) /\ j - 1 \in 1..(i - 1)
      BY <3>1, <3>2, <2>2, <1>1
    <3>4. q[j - 1] = p[j]
      BY <3>3, <1>1
    <3>5. QED
      BY <3>1, <3>3, <3>4, <2>3, <2>4
  <2>7. CASE txs[p[k].id] = p[k].row /\ \A j \in 1..Len(p) : p[j].do = "commit" => p[j].id # p[k].id
    <3>1. \A j \in 1..Len(q) : q[j].do = "commit" => q[j].id # p[k].id
      BY <2>7, <1>1
    <3>2. QED
      BY <2>7, <3>1, <2>3, <2>4
  <2>8. QED
    BY <2>4, <2>5, <2>6, <2>7
<1>4. Loads(q)
  <2>1. SUFFICES ASSUME NEW i \in 1..Len(q), q[i].do = "load"
                 PROVE  /\ i = Len(q) /\ q[i].id \in Txs
                        /\ txs[q[i].id] # None \/ \E j \in 1..(i - 1) : q[j].do = "commit" /\ q[j].id = q[i].id
    BY DEF Loads
  <2>2. PICK k : k = i + 1
    OBVIOUS
  <2>3. k \in 1..Len(p) /\ q[i] = p[k] /\ p[k].do = "load"
    BY <2>1, <2>2, <1>1
  <2>4. /\ k = Len(p) /\ p[k].id \in Txs
        /\ txs[p[k].id] # None \/ \E j \in 1..(k - 1) : p[j].do = "commit" /\ p[j].id = p[k].id
    BY <2>3 DEF LinkProgram, Loads
  <2>5. i = Len(q)
    BY <2>2, <2>4, <1>1
  <2>6. CASE txs[p[k].id] # None
    BY <2>3, <2>4, <2>5, <2>6
  <2>7. CASE \E j \in 1..(k - 1) : p[j].do = "commit" /\ p[j].id = p[k].id
    <3>1. PICK j \in 1..(k - 1) : p[j].do = "commit" /\ p[j].id = p[k].id
      BY <2>7
    <3>2. j # 1
      BY <3>1
    <3>3. j \in 2..Len(p) /\ j - 1 \in 1..(i - 1)
      BY <3>1, <3>2, <2>2, <1>1
    <3>4. q[j - 1] = p[j]
      BY <3>3, <1>1
    <3>5. QED
      BY <3>1, <3>3, <3>4, <2>3, <2>4, <2>5
  <2>8. QED
    BY <2>4, <2>6, <2>7
<1>5. Deletes(q)
  <2>1. \A i \in 1..Len(q) : i + 1 = Len(p) => i = Len(q)
    BY <1>1
  <2>2. \A i \in 1..Len(p) : p[i].do = "delete_txs" => i = Len(p) /\ (p[i].id \in Txs => p[i].id \in p[i].row)
    BY DEF LinkProgram, Deletes
  <2>3. QED
    BY <2>1, <2>2, <1>1 DEF Deletes
<1>6. Assigns(q)
  <2>1. SUFFICES ASSUME NEW i \in 1..Len(q), q[i].do = "assign"
                 PROVE  /\ i = Len(q) /\ q[i].id = None /\ q[i].side \in Timelines!Sides
                        /\ \A t \in DOMAIN q[i].row :
                              /\ t \in Txs /\ q[i].row[t] \in Timelines!Transaction /\ \A j \in 1..Len(q) : q[j].id # t
                              /\ \A side \in Timelines!Sides : side # q[i].side => Agrees(t, q[i].row[t], side)
    BY DEF Assigns
  <2>2. PICK k : k = i + 1
    OBVIOUS
  <2>3. k \in 1..Len(p) /\ q[i] = p[k] /\ p[k].do = "assign"
    BY <2>1, <2>2, <1>1
  <2>4. /\ k = Len(p) /\ p[k].id = None /\ p[k].side \in Timelines!Sides
        /\ \A t \in DOMAIN p[k].row :
              /\ t \in Txs /\ p[k].row[t] \in Timelines!Transaction /\ \A j \in 1..Len(p) : p[j].id # t
              /\ \A side \in Timelines!Sides : side # p[k].side => Agrees(t, p[k].row[t], side)
    BY <2>3 DEF LinkProgram, Assigns
  <2>5. i = Len(q)
    BY <2>2, <2>4, <1>1
  <2>6. \A t \in DOMAIN p[k].row, j \in 1..Len(q) : q[j].id # t
    BY <2>4, <1>1
  <2>7. QED
    BY <2>3, <2>4, <2>5, <2>6
<1>7. \A i \in 1..Len(q) : q[i].do \in Linking /\ DOMAIN q[i] = Columns
  BY <1>1 DEF LinkProgram
<1>8. QED
  BY <1>2, <1>3, <1>4, <1>5, <1>6, <1>7 DEF LinkProgram

\* A side was synchronised: the entry is now v.
LEMMA LinkSynced ==
  ASSUME TimelineParameters, OneForm, LinkInv, NEW s \in Slots, NEW n, n = Timelines!Now(s),
         ~ Timelines!Idle(s), n.do \in Syncing, Timelines!Synchronised(s),
         UNCHANGED <<works, maintenances, txs, entries, budgets, rows, stored>>,
         NEW v \in ShownRows \cup {None},
         shown' \in [Timelines!Sides -> [Txs -> ShownRows \cup {None}]], shown'[n.side][n.id] = v,
         \A side \in Timelines!Sides, t \in Txs : side # n.side \/ t # n.id => shown'[side][t] = shown[side][t],
         \/ n.row[n.side] = None /\ v = None
         \/ n.row[n.side] # None /\ v = [of |-> n.row[n.side], status |-> n.row.status]
  PROVE  LinkInv'
<1>1. PICK p : p = tasks[s]
  OBVIOUS
<1>2. PICK q : q = Tail(p)
  OBVIOUS
<1>3. /\ \E T : p \in Seq(T)
      /\ p # << >> /\ LinkProgram(p) /\ n = p[1] /\ 1 \in 1..Len(p)
  BY <1>1, LinkHead DEF Linking
<1>4. FrontNone(p, q)
  BY <1>2, <1>3, RestIsTail
<1>5. LinkProgram(q)
  BY <1>3, <1>4, SyncRest DEF Syncing
<1>6. Program(q) /\ Program(q)'
  <2>1. Program(q)
    BY <1>4, <1>5 DEF Program, FrontNone
  <2>2. QED
    BY <2>1, ProgramSame
<1>7. tasks' = [tasks EXCEPT ![s] = q] /\ interrupted' = interrupted \ {<<n.side, n.id>>}
  BY <1>1, <1>2 DEF Timelines!Synchronised
<1>8. TimelineTables'
  BY <1>7 DEF LinkInv, TimelineTables, Timelines!TimelineTypeOK
<1>9. /\ n.id \in Txs /\ n.side \in Timelines!Sides
      /\ \/ \E j \in (1 + 1)..Len(p) : p[j].do = "delete_txs" /\ p[j].id = n.id
         \/ txs[n.id] = n.row
  <2>1. /\ n.id \in Txs /\ n.side \in Timelines!Sides
        /\ \/ \E j \in (1 + 1)..Len(p) : p[j].do = "delete_txs" /\ p[j].id = n.id
           \/ \E j \in 1..(1 - 1) : p[j].do = "commit" /\ p[j].id = n.id /\ p[j].row = n.row
           \/ txs[n.id] = n.row
    BY <1>3 DEF LinkProgram, Syncs
  <2>2. QED
    BY <2>1
<1>10. ASSUME NEW side \in Timelines!Sides, NEW t \in Txs, txs'[t] # None, <<side, t>> \notin interrupted'
       PROVE  LinkShown(side, t)' \/ Due(q, side, t)'
  <2>1. CASE side = n.side /\ t = n.id
    <3>1. CASE txs[t] = n.row
      BY <2>1, <3>1 DEF LinkShown
    <3>2. CASE \E j \in (1 + 1)..Len(p) : p[j].do = "delete_txs" /\ p[j].id = n.id
      <4>1. PICK j \in 2..Len(p) : p[j].do = "delete_txs" /\ p[j].id = n.id
        BY <3>2
      <4>2. j - 1 \in 1..Len(q) /\ q[j - 1] = p[j]
        BY <1>4, RestOf
      <4>3. QED
        BY <4>1, <4>2, <2>1 DEF Due
    <3>3. QED
      BY <2>1, <3>1, <3>2, <1>9
  <2>2. CASE side # n.side \/ t # n.id
    <3>1. <<side, t>> \notin interrupted /\ txs[t] # None
      BY <1>7, <1>10, <2>2
    <3>2. CASE LinkShown(side, t)
      BY <2>2, <3>2 DEF LinkShown
    <3>3. CASE Due(p, side, t)
      <4>1. PICK i \in 1..Len(p) :
              /\ p[i].id = t
              /\ \/ p[i].do = "load" /\ (side \in p[i].row \/ txs[t][side] # None)
                 \/ p[i].do \in Syncing /\ p[i].side = side
                 \/ p[i].do = "delete_txs"
        BY <3>3 DEF Due
      <4>2. i # 1
        BY <4>1, <2>2, <1>3 DEF Syncing
      <4>3. PICK k : k = i - 1
        OBVIOUS
      <4>4. i \in 2..Len(p) /\ k \in 1..Len(q)
        BY <4>1, <4>2, <4>3, <1>4, RestOf
      <4>5. q[k] = p[i]
        BY <4>3, <4>4, <1>4, RestOf
      <4>6. QED
        BY <4>1, <4>4, <4>5 DEF Due
    <3>4. QED
      BY <3>1, <3>2, <3>3, <1>1, OnlyDue
  <2>3. QED
    BY <2>1, <2>2
<1>11. QED
  BY <1>6, <1>7, <1>8, <1>10, LinkMove

\* The next statement of the synchronisation takes the place of the one that looked for the entry.
LEMMA SyncHead ==
  ASSUME NEW p, LinkProgram(p), NEW x, NEW q, FrontOne(x, p, q), p[1].do \in Syncing,
         x.do \in {"hide", "show", "show_again"}, x.id = p[1].id, x.row = p[1].row, x.side = p[1].side,
         DOMAIN x = Columns, (x.do = "hide") = (x.row[x.side] = None)
  PROVE  LinkProgram(q) /\ \A side, t : Due(p, side, t) => Due(q, side, t)
<1>1. /\ Len(p) \in Nat \ {0} /\ Len(q) = Len(p) /\ q[1] = x /\ 1 \in 1..Len(p)
      /\ \A i \in 1..Len(p) : i # 1 => q[i] = p[i]
  <2>1. Len(p) \in Nat \ {0} /\ Len(q) = Len(p) /\ q[1] = x /\ \A i \in 2..Len(q) : q[i] = p[i]
    BY DEF FrontOne
  <2>2. \A i \in 1..Len(p) : i # 1 => i \in 2..Len(q)
    BY <2>1
  <2>3. QED
    BY <2>1, <2>2
<1>2. \A i \in 1..Len(p) : q[i].id = p[i].id /\ q[i].side = p[i].side /\ q[i].row = p[i].row
  BY <1>1
<1>3. \A i \in 1..Len(p) : i # 1 => q[i].do = p[i].do
  BY <1>1
<1>4. q[1].do \in {"hide", "show", "show_again"} /\ p[1].do \in Syncing
  BY <1>1
<1>5. \A i \in 1..Len(p) : q[i].do \in Linking /\ DOMAIN q[i] = Columns
  BY <1>1 DEF LinkProgram, Linking, Syncing
<1>6. \A i \in 1..Len(p) : (q[i].do \in Syncing) = (p[i].do \in Syncing)
  BY <1>3, <1>4 DEF Syncing
<1>7. \A i \in 1..Len(p) : /\ (q[i].do = "commit") = (p[i].do = "commit") /\ (q[i].do = "load") = (p[i].do = "load")
                           /\ (q[i].do = "delete_txs") = (p[i].do = "delete_txs")
                           /\ (q[i].do = "assign") = (p[i].do = "assign")
  BY <1>3, <1>4 DEF Syncing
<1>8. Commits(q)
  <2>1. \A i \in 1..Len(p) : \A t, row, side : SyncedAfter(p, i, t, row, side) => SyncedAfter(q, i, t, row, side)
    <3>1. SUFFICES ASSUME NEW i \in 1..Len(p), NEW t, NEW row, NEW side, SyncedAfter(p, i, t, row, side)
                   PROVE  SyncedAfter(q, i, t, row, side)
      OBVIOUS
    <3>2. PICK j \in (i + 1)..Len(p) :
            /\ p[j].id = t
            /\ \/ p[j].do = "load" /\ (side \in p[j].row \/ row[side] # None)
               \/ p[j].do \in Syncing /\ p[j].side = side
      BY <3>1 DEF SyncedAfter
    <3>3. j \in 1..Len(p) /\ j # 1 /\ q[j] = p[j]
      BY <3>2, <1>1
    <3>4. QED
      BY <3>2, <3>3, <1>1 DEF SyncedAfter
  <2>2. SUFFICES ASSUME NEW i \in 1..Len(p), p[i].do = "commit"
                 PROVE  /\ p[i].id \in Txs /\ p[i].row \in Timelines!Transaction
                        /\ \A j \in 1..Len(p) : j < i => p[j].id # p[i].id
                        /\ \A j \in 1..Len(p) : p[j].do = "commit" /\ j # i => p[j].id # p[i].id
                        /\ \A side \in Timelines!Sides :
                              Agrees(p[i].id, p[i].row, side) \/ SyncedAfter(q, i, p[i].id, p[i].row, side)
    BY <1>1, <1>2, <1>7 DEF Commits
  <2>3. Commits(p)
    BY DEF LinkProgram
  <2>4. QED
    BY <2>1, <2>2, <2>3 DEF Commits
<1>9. Syncs(q)
  <2>1. SUFFICES ASSUME NEW i \in 1..Len(q), q[i].do \in Syncing
                 PROVE  /\ q[i].id \in Txs /\ q[i].side \in Timelines!Sides /\ q[i].row \in Timelines!Transaction
                        /\ q[i].do # "find" => i = 1
                        /\ q[i].do = "hide" => q[i].row[q[i].side] = None
                        /\ q[i].do \in {"show", "show_again"} => q[i].row[q[i].side] # None
                        /\ \/ \E j \in (i + 1)..Len(q) : q[j].do = "delete_txs" /\ q[j].id = q[i].id
                           \/ \E j \in 1..(i - 1) : q[j].do = "commit" /\ q[j].id = q[i].id /\ q[j].row = q[i].row
                           \/ txs[q[i].id] = q[i].row /\ \A j \in 1..Len(q) : q[j].do = "commit" => q[j].id # q[i].id
    BY DEF Syncs
  <2>2. /\ p[i].id \in Txs /\ p[i].side \in Timelines!Sides /\ p[i].row \in Timelines!Transaction
        /\ p[i].do # "find" => i = 1
        /\ \/ \E j \in (i + 1)..Len(p) : p[j].do = "delete_txs" /\ p[j].id = p[i].id
           \/ \E j \in 1..(i - 1) : p[j].do = "commit" /\ p[j].id = p[i].id /\ p[j].row = p[i].row
           \/ txs[p[i].id] = p[i].row /\ \A j \in 1..Len(p) : p[j].do = "commit" => p[j].id # p[i].id
    BY <2>1, <1>1, <1>6 DEF LinkProgram, Syncs
  <2>3. i \in 1..Len(p)
    BY <2>1, <1>1
  <2>4. q[i].do # "find" => i = 1
    BY <2>2, <2>3, <1>3
  <2>5. /\ q[i].do = "hide" => q[i].row[q[i].side] = None
        /\ q[i].do \in {"show", "show_again"} => q[i].row[q[i].side] # None
    BY <2>4, <1>1
  <2>6. CASE \E j \in (i + 1)..Len(p) : p[j].do = "delete_txs" /\ p[j].id = p[i].id
    <3>1. PICK j \in (i + 1)..Len(p) : p[j].do = "delete_txs" /\ p[j].id = p[i].id
      BY <2>6
    <3>2. j \in 1..Len(p) /\ j \in (i + 1)..Len(q)
      BY <2>3, <3>1, <1>1
    <3>3. q[j].do = "delete_txs" /\ q[j].id = q[i].id
      BY <2>3, <3>1, <3>2, <1>2, <1>7
    <3>4. QED
      BY <2>2, <2>3, <2>4, <2>5, <3>2, <3>3, <1>2
  <2>7. CASE \E j \in 1..(i - 1) : p[j].do = "commit" /\ p[j].id = p[i].id /\ p[j].row = p[i].row
    <3>1. PICK j \in 1..(i - 1) : p[j].do = "commit" /\ p[j].id = p[i].id /\ p[j].row = p[i].row
      BY <2>7
    <3>2. j \in 1..Len(p)
      BY <2>3, <3>1, <1>1
    <3>3. q[j].do = "commit" /\ q[j].id = q[i].id /\ q[j].row = q[i].row
      BY <2>3, <3>1, <3>2, <1>2, <1>7
    <3>4. QED
      BY <2>2, <2>3, <2>4, <2>5, <3>1, <3>3, <1>2
  <2>8. CASE txs[p[i].id] = p[i].row /\ \A j \in 1..Len(p) : p[j].do = "commit" => p[j].id # p[i].id
    <3>1. txs[q[i].id] = q[i].row /\ \A j \in 1..Len(q) : q[j].do = "commit" => q[j].id # q[i].id
      BY <2>3, <2>8, <1>1, <1>2, <1>7
    <3>2. QED
      BY <2>2, <2>3, <2>4, <2>5, <3>1, <1>2
  <2>9. QED
    BY <2>2, <2>6, <2>7, <2>8
<1>10. Loads(q)
  <2>1. SUFFICES ASSUME NEW i \in 1..Len(p), p[i].do = "load"
                 PROVE  /\ i = Len(p) /\ p[i].id \in Txs
                        /\ txs[p[i].id] # None \/ \E j \in 1..(i - 1) : q[j].do = "commit" /\ q[j].id = p[i].id
    BY <1>1, <1>2, <1>7 DEF Loads
  <2>2. /\ i = Len(p) /\ p[i].id \in Txs
        /\ txs[p[i].id] # None \/ \E j \in 1..(i - 1) : p[j].do = "commit" /\ p[j].id = p[i].id
    BY <2>1 DEF LinkProgram, Loads
  <2>3. \A j \in 1..(i - 1) : j \in 1..Len(p)
    BY <2>1, <1>1
  <2>4. QED
    BY <2>2, <2>3, <1>2, <1>7
<1>11. Deletes(q)
  BY <1>1, <1>2, <1>7 DEF LinkProgram, Deletes
<1>12. Assigns(q)
  <2>1. Assigns(p)
    BY DEF LinkProgram
  <2>2. QED
    BY <2>1, <1>1, <1>2, <1>7 DEF Assigns
<1>13. ASSUME NEW side, NEW t, Due(p, side, t) PROVE Due(q, side, t)
  BY <1>1, <1>2, <1>6, <1>7, <1>13 DEF Due
<1>14. QED
  BY <1>1, <1>5, <1>8, <1>9, <1>10, <1>11, <1>12, <1>13 DEF LinkProgram

\* The entry was looked for; what follows writes it.
LEMMA LinkFound ==
  ASSUME TimelineParameters, OneForm, LinkInv, NEW s \in Slots, NEW n, n = Timelines!Now(s), ~ Timelines!Idle(s),
         n.do = "find", NEW what \in {"hide", "show", "show_again"}, (what = "hide") = (n.row[n.side] = None),
         Timelines!Goes(s, << [n EXCEPT !.do = what] >>), UNCHANGED Timelines!tables
  PROVE  LinkInv'
<1>1. PICK p : p = tasks[s]
  OBVIOUS
<1>2. PICK x : x = [n EXCEPT !.do = what]
  OBVIOUS
<1>3. PICK q : q = <<x>> \o Tail(p)
  OBVIOUS
<1>4. /\ \E T : p \in Seq(T)
      /\ p # << >> /\ LinkProgram(p) /\ n = p[1] /\ 1 \in 1..Len(p)
  BY <1>1, LinkHead DEF Linking, Syncing
<1>5. FrontOne(x, p, q)
  BY <1>3, <1>4, SpliceOne
<1>6. DOMAIN n = Columns
  BY <1>4 DEF LinkProgram
<1>7. x.do = what /\ x.id = n.id /\ x.row = n.row /\ x.side = n.side /\ DOMAIN x = Columns
  BY <1>2, <1>6 DEF Columns
<1>8. LinkProgram(q) /\ \A side, t : Due(p, side, t) => Due(q, side, t)
  BY <1>4, <1>5, <1>7, SyncHead DEF Syncing
<1>9. txs' = txs /\ shown' = shown
  BY DEF Timelines!tables
<1>10. Program(q)'
  <2>1. Program(q)
    BY <1>5, <1>8 DEF Program, FrontOne
  <2>2. QED
    BY <2>1, <1>9, ProgramSame
<1>11. tasks' = [tasks EXCEPT ![s] = q] /\ interrupted' = interrupted
  BY <1>1, <1>2, <1>3 DEF Timelines!Goes, Timelines!control
<1>12. TimelineTables'
  <2>1. DOMAIN tasks' = Slots
    BY <1>11 DEF LinkInv, TimelineTables
  <2>2. QED
    BY <2>1, TablesSame DEF LinkInv
<1>13. ASSUME NEW side \in Timelines!Sides, NEW t \in Txs, txs'[t] # None, <<side, t>> \notin interrupted'
       PROVE  LinkShown(side, t)' \/ Due(q, side, t)'
  <2>1. CASE LinkShown(side, t)
    BY <2>1, <1>9, ShownSame
  <2>2. CASE Due(p, side, t)
    <3>1. Due(q, side, t)
      BY <2>2, <1>8
    <3>2. QED
      BY <3>1, <1>9, DueSame
  <2>3. QED
    BY <2>1, <2>2, <1>1, <1>9, <1>11, <1>13, OnlyDue
<1>14. QED
  BY <1>10, <1>11, <1>12, <1>13, LinkMove

LEMMA LinkSync ==
  ASSUME TimelineParameters, OneForm, LinkInv, NEW s \in Slots, NEW side \in Timelines!Sides, Timelines!Sync(s, side)
  PROVE  LinkInv'
<1>1. PICK n : n = Timelines!Now(s)
  OBVIOUS
<1>2. ~ Timelines!Idle(s) /\ n.do = "find" /\ n.side = side /\ UNCHANGED Timelines!tables
  BY <1>1 DEF Timelines!Sync, Timelines!Doing
<1>3. CASE n.row[side] = None /\ shown[side][n.id] = None /\ Timelines!Synchronised(s)
  <2>1. n.id \in Txs
    <3>1. LinkProgram(tasks[s]) /\ n = tasks[s][1] /\ 1 \in 1..Len(tasks[s])
      BY <1>1, <1>2, LinkHead DEF Linking, Syncing
    <3>2. QED
      BY <3>1, <1>2 DEF LinkProgram, Syncs, Syncing
  <2>2. shown' = shown /\ shown \in [Timelines!Sides -> [Txs -> ShownRows \cup {None}]]
    BY <1>2 DEF Timelines!tables, LinkInv, TimelineTables
  <2>3. UNCHANGED <<works, maintenances, txs, entries, budgets, rows, stored>>
    BY <1>2 DEF Timelines!tables
  <2>4. shown'[n.side][n.id] = None
    BY <1>2, <1>3, <2>2
  <2>5. None \in ShownRows \cup {None}
    OBVIOUS
  <2>6. n.do \in Syncing
    BY <1>2 DEF Syncing
  <2>7. QED
    BY <1>1, <1>2, <1>3, <2>2, <2>3, <2>4, <2>5, <2>6, LinkSynced
<1>4. CASE n.row[side] = None /\ Timelines!Goes(s, << [n EXCEPT !.do = "hide"] >>)
  <2>1. "hide" \in {"hide", "show", "show_again"} /\ ("hide" = "hide") = (n.row[n.side] = None)
    BY <1>2, <1>4
  <2>2. QED
    BY <1>1, <1>2, <1>4, <2>1, LinkFound
<1>5. CASE n.row[side] # None /\ Timelines!Goes(s, << [n EXCEPT !.do = IF shown[side][n.id] = None THEN "show"
                                                                     ELSE "show_again"] >>)
  <2>1. PICK what : what = IF shown[side][n.id] = None THEN "show" ELSE "show_again"
    OBVIOUS
  <2>2. what \in {"hide", "show", "show_again"} /\ (what = "hide") = (n.row[n.side] = None)
    BY <1>2, <1>5, <2>1
  <2>3. QED
    BY <1>1, <1>2, <1>5, <2>1, <2>2, LinkFound
<1>6. CASE Timelines!Ends(s)
  BY <1>2, <1>6, LinkEnds
<1>7. QED
  BY <1>1, <1>3, <1>4, <1>5, <1>6 DEF Timelines!Sync

LEMMA LinkShow ==
  ASSUME TimelineParameters, OneForm, LinkInv, NEW s \in Slots, Timelines!Show(s) \/ Timelines!Hide(s)
  PROVE  LinkInv'
<1>1. PICK n : n = Timelines!Now(s)
  OBVIOUS
<1>2. ~ Timelines!Idle(s) /\ n.do \in {"show", "show_again", "hide"}
  BY <1>1 DEF Timelines!Show, Timelines!Hide, Timelines!Doing
<1>3. LinkProgram(tasks[s]) /\ n = tasks[s][1] /\ 1 \in 1..Len(tasks[s])
  BY <1>1, <1>2, LinkHead DEF Linking, Syncing
<1>4. /\ n.id \in Txs /\ n.side \in Timelines!Sides /\ n.row \in Timelines!Transaction
      /\ n.do = "hide" => n.row[n.side] = None
      /\ n.do \in {"show", "show_again"} => n.row[n.side] # None
  <2>1. n.do \in Syncing
    BY <1>2 DEF Syncing
  <2>2. Syncs(tasks[s])
    BY <1>3 DEF LinkProgram
  <2>3. QED
    BY <1>3, <2>1, <2>2 DEF Syncs
<1>5. shown \in [Timelines!Sides -> [Txs -> ShownRows \cup {None}]]
  BY DEF LinkInv, TimelineTables
<1>6. ASSUME NEW v \in ShownRows \cup {None}, shown' = [shown EXCEPT ![n.side][n.id] = v]
      PROVE  /\ shown' \in [Timelines!Sides -> [Txs -> ShownRows \cup {None}]] /\ shown'[n.side][n.id] = v
             /\ \A side \in Timelines!Sides, t \in Txs : side # n.side \/ t # n.id => shown'[side][t] = shown[side][t]
  <2>1. shown'[n.side] = [shown[n.side] EXCEPT ![n.id] = v] /\ DOMAIN shown' = Timelines!Sides
        /\ \A side \in Timelines!Sides : side # n.side => shown'[side] = shown[side]
    BY <1>4, <1>5, <1>6
  <2>2. shown'[n.side] \in [Txs -> ShownRows \cup {None}]
    BY <2>1, <1>4, <1>5, <1>6
  <2>3. shown' = [side \in Timelines!Sides |-> shown'[side]]
    BY <1>6, <1>5
  <2>4. \A side \in Timelines!Sides : shown'[side] \in [Txs -> ShownRows \cup {None}]
    BY <2>1, <2>2, <1>5
  <2>5. shown' \in [Timelines!Sides -> [Txs -> ShownRows \cup {None}]]
    BY <2>3, <2>4
  <2>6. QED
    BY <2>1, <2>5, <1>4, <1>5
<1>7. CASE Timelines!Refused(s)
  <2>1. UNCHANGED Timelines!tables /\ Timelines!Ends(s)
    BY <1>7 DEF Timelines!Refused
  <2>2. QED
    BY <2>1, LinkEnds
<1>8. CASE /\ n.do \in {"show", "show_again"} /\ Timelines!Synchronised(s)
           /\ shown' = [shown EXCEPT ![n.side][n.id] = Timelines!Shown(n.row, n.side)]
           /\ UNCHANGED <<works, maintenances, txs, entries, budgets, rows, stored>>
  <2>1. PICK v : v = Timelines!Shown(n.row, n.side)
    OBVIOUS
  <2>2. v = [of |-> n.row[n.side], status |-> n.row.status] /\ n.row[n.side] # None
    BY <2>1, <1>4, <1>8 DEF Timelines!Shown
  <2>3. n.row[n.side] \in Works \cup Maintenances /\ n.row.status \in Timelines!Status
    BY <1>4, <2>2 DEF Timelines!Transaction, Timelines!Sides
  <2>4. v \in ShownRows
    BY <2>2, <2>3 DEF ShownRows
  <2>5. /\ shown' \in [Timelines!Sides -> [Txs -> ShownRows \cup {None}]] /\ shown'[n.side][n.id] = v
        /\ \A side \in Timelines!Sides, t \in Txs : side # n.side \/ t # n.id => shown'[side][t] = shown[side][t]
    BY <1>6, <1>8, <2>1, <2>4
  <2>6. n.do \in Syncing /\ v \in ShownRows \cup {None}
    BY <1>8, <2>4 DEF Syncing
  <2>7. QED
    BY <1>1, <1>2, <1>8, <2>2, <2>5, <2>6, LinkSynced
<1>9. CASE /\ n.do = "hide" /\ Timelines!Synchronised(s)
           /\ shown' = [shown EXCEPT ![n.side][n.id] = None]
           /\ UNCHANGED <<works, maintenances, txs, entries, budgets, rows, stored>>
  <2>1. PICK v : v = None
    OBVIOUS
  <2>2. /\ shown' \in [Timelines!Sides -> [Txs -> ShownRows \cup {None}]] /\ shown'[n.side][n.id] = v
        /\ \A side \in Timelines!Sides, t \in Txs : side # n.side \/ t # n.id => shown'[side][t] = shown[side][t]
    BY <1>6, <1>9, <2>1
  <2>3. n.do \in Syncing /\ v \in ShownRows \cup {None} /\ n.row[n.side] = None
    BY <1>4, <1>9, <2>1 DEF Syncing
  <2>4. QED
    BY <1>1, <1>2, <1>9, <2>1, <2>2, <2>3, LinkSynced
<1>10. QED
  BY <1>1, <1>7, <1>8, <1>9 DEF Timelines!Show, Timelines!Hide, Timelines!Doing

LEMMA LinkStop ==
  ASSUME OneForm, LinkInv, NEW s \in Slots, Timelines!Stop(s) PROVE LinkInv'
BY LinkEnds DEF Timelines!Stop

(***************************************************************************)
(* The requests.                                                           *)
(***************************************************************************)

LEMMA DoFilesFields ==
  ASSUME NEW what, NEW id, NEW batch, NEW x, x = Timelines!DoFiles(what, id, batch)
  PROVE  x.do = what /\ x.id = id /\ x.files = batch
BY DEF Timelines!DoFiles, Timelines!Do

LEMMA OneWrite == ASSUME NEW x, Writes(x), NEW p, p = <<x>> PROVE WriteProgram(p) /\ Program(p)
<1>1. p \in Seq({x}) /\ Len(p) = 1 /\ p[1] = x
  OBVIOUS
<1>2. WriteProgram(p)
  BY <1>1 DEF WriteProgram
<1>3. QED
  BY <1>1, <1>2 DEF Program

LEMMA TwoWrites ==
  ASSUME NEW x, Writes(x), NEW y, Writes(y), NEW p, p = <<x, y>> PROVE WriteProgram(p) /\ Program(p)
<1>1. p \in Seq({x, y}) /\ Len(p) = 2 /\ p[1] = x /\ p[2] = y
  OBVIOUS
<1>2. WriteProgram(p)
  BY <1>1 DEF WriteProgram
<1>3. QED
  BY <1>1, <1>2 DEF Program

LEMMA ThreeWrites ==
  ASSUME NEW x, Writes(x), NEW y, Writes(y), NEW z, Writes(z), NEW p, p = <<x, y, z>>
  PROVE  WriteProgram(p) /\ Program(p)
<1>1. p \in Seq({x, y, z}) /\ Len(p) = 3 /\ p[1] = x /\ p[2] = y /\ p[3] = z
  OBVIOUS
<1>2. WriteProgram(p)
  BY <1>1 DEF WriteProgram
<1>3. QED
  BY <1>1, <1>2 DEF Program

\* The kinds of statements.
LEMMA SavesWork ==
  ASSUME NEW w \in Works, NEW row \in Timelines!Work, NEW p, p = << Timelines!Do("save_work", w, row) >>,
         row.active => \A v \in Timelines!Active : v # w => works[v].order # row.order
  PROVE  QueueProgram(p)
<1>1. PICK x : x = Timelines!Do("save_work", w, row)
  OBVIOUS
<1>2. x.do = "save_work" /\ x.id = w /\ x.row = row
  BY <1>1, DoFields
<1>3. p = <<x>>
  BY <1>1
<1>4. p \in Seq({x}) /\ Len(p) = 1 /\ p[1] = x
  BY <1>3
<1>5. QED
  BY <1>2, <1>4 DEF QueueProgram

LEMMA SavesQueue ==
  ASSUME NEW queue \in Seq(Works), NEW p, p = << Timelines!Do("reorder", None, queue) >>,
         {queue[i] : i \in DOMAIN queue} = Timelines!Active
  PROVE  QueueProgram(p)
<1>1. PICK x : x = Timelines!Do("reorder", None, queue)
  OBVIOUS
<1>2. x.do = "reorder" /\ x.row = queue
  BY <1>1, DoFields
<1>3. p = <<x>>
  BY <1>1
<1>4. p \in Seq({x}) /\ Len(p) = 1 /\ p[1] = x
  BY <1>3
<1>5. \A v \in Timelines!Active : \E k \in DOMAIN queue : queue[k] = v
  OBVIOUS
<1>6. p[1].do = "reorder" /\ p[1].row = queue
  BY <1>2, <1>4
<1>7. p[1].row \in Seq(Works) /\ \A v \in Timelines!Active : \E k \in DOMAIN p[1].row : p[1].row[k] = v
  BY <1>5, <1>6
<1>8. (\E T : p \in Seq(T)) /\ Len(p) = 1
  BY <1>4
<1>9. QED
  BY <1>6, <1>7, <1>8 DEF QueueProgram

LEMMA WritesRecord ==
  ASSUME NEW what \in {"save_maintenance", "delete_record", "delete_budget", "delete_entry"}, NEW id,
         what = "save_maintenance" => id \in Maintenances
  PROVE  Writes(Timelines!Do(what, id, None))
<1>1. PICK x : x = Timelines!Do(what, id, None)
  OBVIOUS
<1>2. x.do = what /\ x.id = id /\ x.files = {}
  BY <1>1, DoFields
<1>3. Writes(x)
  BY <1>2 DEF Writes, Writing
<1>4. QED
  BY <1>1, <1>3

LEMMA WritesEntry ==
  ASSUME NEW what \in {"insert_entry", "save_entry"}, NEW e \in Timelines!Entries, NEW row \in Timelines!Entry
  PROVE  Writes(Timelines!Do(what, e, row))
<1>1. PICK x : x = Timelines!Do(what, e, row)
  OBVIOUS
<1>2. x.do = what /\ x.id = e /\ x.row = row /\ x.files = {}
  BY <1>1, DoFields
<1>3. Writes(x)
  BY <1>2 DEF Writes, Writing
<1>4. QED
  BY <1>1, <1>3

LEMMA WritesBudget ==
  ASSUME NEW e \in Timelines!Entries, NEW row \in Timelines!Budget PROVE Writes(Timelines!Do("save_budget", e, row))
<1>1. PICK x : x = Timelines!Do("save_budget", e, row)
  OBVIOUS
<1>2. x.do = "save_budget" /\ x.id = e /\ x.row = row /\ x.files = {}
  BY <1>1, DoFields
<1>3. Writes(x)
  BY <1>2 DEF Writes, Writing
<1>4. QED
  BY <1>1, <1>3

LEMMA WritesFiles ==
  ASSUME NEW what \in {"upload", "unlink", "delete_row", "store"}, NEW e,
         NEW F \in SUBSET Timelines!Files, what = "upload" => e \in Timelines!Entries
  PROVE  Writes(Timelines!DoFiles(what, e, F))
<1>1. PICK x : x = Timelines!DoFiles(what, e, F)
  OBVIOUS
<1>2. x.do = what /\ x.id = e /\ x.files = F
  BY <1>1, DoFilesFields
<1>3. Writes(x)
  BY <1>2 DEF Writes, Writing
<1>4. QED
  BY <1>1, <1>3

LEMMA TimelineCount == \A S : Timelines!Cardinality(S) = Cardinality(S)
BY DEF Timelines!Cardinality, Cardinality

\* The next position of the queue is behind all the others.
LEMMA QueueOrderIsNext ==
  ASSUME TimelineParameters, Timelines!TimelineTypeOK
  PROVE  /\ Timelines!NextQueueOrder \in Nat
         /\ \A w \in Timelines!Active : works[w].order \in Nat /\ works[w].order < Timelines!NextQueueOrder
<1>1. CASE Timelines!Active = {}
  BY <1>1 DEF Timelines!NextQueueOrder
<1>2. CASE Timelines!Active # {}
  <2>1. PICK A : A = Timelines!Active
    OBVIOUS
  <2>2. IsFiniteSet(A) /\ \A w \in A : works[w].order \in Nat
    <3>1. A \subseteq Works /\ IsFiniteSet(A)
      BY <2>1, FS_Subset DEF Timelines!Active, TimelineParameters
    <3>2. \A w \in A : works[w] # None /\ works[w] \in Timelines!Work
      BY <2>1, <3>1 DEF Timelines!Active, Timelines!TimelineTypeOK
    <3>3. QED
      BY <3>1, <3>2 DEF Timelines!Work
  <2>3. PICK O : O = {works[w].order : w \in A}
    OBVIOUS
  <2>4. IsFiniteSet(O) /\ O \subseteq Int /\ O \subseteq Nat /\ O # {}
    <3>1. PICK f : f = [w \in A |-> works[w].order]
      OBVIOUS
    <3>2. O = {f[w] : w \in A}
      BY <2>3, <3>1
    <3>3. IsFiniteSet({f[w] : w \in A})
      BY <2>2, ImageFinite
    <3>4. IsFiniteSet(O)
      BY <3>2, <3>3
    <3>5. O \subseteq Nat
      BY <2>2, <2>3
    <3>6. O # {}
      BY <1>2, <2>1, <2>3
    <3>7. O \subseteq Int
      BY <3>5
    <3>8. QED
      BY <3>4, <3>5, <3>6, <3>7
  <2>5. Max(O) \in O /\ \A y \in O : Max(O) >= y
    BY <2>4, MaxExists
  <2>6. \E n \in O : \A w \in A : works[w].order <= n
    <3>1. \A w \in A : works[w].order \in O
      BY <2>3
    <3>2. \A w \in A : works[w].order <= Max(O)
      BY <3>1, <2>4, <2>5
    <3>3. QED
      BY <2>5, <3>2
  <2>8. Timelines!NextQueueOrder = 1 + CHOOSE n \in O : \A w \in A : works[w].order <= n
    BY <1>2, <2>1, <2>3 DEF Timelines!NextQueueOrder
  <2>9. PICK m : m = CHOOSE n \in O : \A w \in A : works[w].order <= n
    OBVIOUS
  <2>10. m \in Nat /\ \A w \in A : works[w].order <= m
    BY <2>4, <2>6, <2>9
  <2>11. Timelines!NextQueueOrder = 1 + m
    BY <2>8, <2>9
  <2>12. QED
    BY <2>1, <2>2, <2>10, <2>11
<1>3. QED
  BY <1>1, <1>2

LEMMA LinkRecordRequests ==
  ASSUME TimelineParameters, OneForm, LinkInv, Timelines!QueueIsOrder, NEW s \in Slots, Timelines!RecordRequests(s)
  PROVE  LinkInv'
<1>1. Timelines!TimelineTypeOK
  BY DEF LinkInv, TimelineTables
<1>2. /\ Timelines!NextQueueOrder \in Nat
      /\ \A w \in Timelines!Active : works[w].order \in Nat /\ works[w].order < Timelines!NextQueueOrder
  BY <1>1, QueueOrderIsNext
<1>3. ASSUME NEW r PROVE UNION {Timelines!FilesOf(e) : e \in {x \in Timelines!Entries :
                                 entries[x] # None /\ entries[x].of = r}} \subseteq Timelines!Files
  BY DEF Timelines!FilesOf
<1>4. ASSUME NEW w \in Works, NEW active \in BOOLEAN, Timelines!CreateWork(s, w, active) PROVE LinkInv'
  <2>1. PICK row : row = [active |-> active, order |-> IF active THEN Timelines!NextQueueOrder ELSE 0]
    OBVIOUS
  <2>2. row \in Timelines!Work
    BY <2>1, <1>2 DEF Timelines!Work
  <2>3. PICK p : p = << Timelines!Do("save_work", w, row) >>
    OBVIOUS
  <2>4. QueueProgram(p)
    <3>1. row.active => \A v \in Timelines!Active : works[v].order # row.order
      BY <2>1, <1>2
    <3>2. QED
      BY <3>1, <2>2, <2>3, SavesWork
  <2>5. Timelines!Asks(s, p)
    BY <1>4, <2>1, <2>3 DEF Timelines!CreateWork
  <2>6. QED
    BY <2>4, <2>5, LinkAsk
<1>5. ASSUME NEW w \in Works, NEW active \in BOOLEAN, Timelines!UpdateWork(s, w, active) PROVE LinkInv'
  <2>1. PICK row : row = [active |-> active,
                          order |-> IF active /\ ~works[w].active THEN Timelines!NextQueueOrder ELSE works[w].order]
    OBVIOUS
  <2>2. works[w] \in Timelines!Work
    BY <1>1, <1>5 DEF Timelines!UpdateWork, Timelines!TimelineTypeOK
  <2>3. row \in Timelines!Work
    BY <2>1, <2>2, <1>2 DEF Timelines!Work
  <2>4. PICK p : p = << Timelines!Do("save_work", w, row) >>
    OBVIOUS
  <2>5. QueueProgram(p)
    <3>1. ASSUME row.active, NEW v \in Timelines!Active, v # w PROVE works[v].order # row.order
      <4>1. CASE ~ works[w].active
        BY <4>1, <3>1, <2>1, <1>2
      <4>2. CASE works[w].active
        <5>1. w \in Timelines!Active
          BY <4>2, <1>5 DEF Timelines!UpdateWork, Timelines!Active
        <5>2. works[v].order # works[w].order
          BY <5>1, <3>1 DEF Timelines!QueueIsOrder
        <5>3. QED
          BY <5>2, <4>2, <2>1
      <4>3. QED
        BY <4>1, <4>2
    <3>2. QED
      BY <3>1, <2>3, <2>4, SavesWork
  <2>6. Timelines!Asks(s, p)
    BY <1>5, <2>1, <2>4 DEF Timelines!UpdateWork
  <2>7. QED
    BY <2>5, <2>6, LinkAsk
<1>6. ASSUME NEW queue \in [1..Timelines!Cardinality(Timelines!Active) -> Works], Timelines!ReorderQueue(s, queue) PROVE LinkInv'
  <2>1. Cardinality(Timelines!Active) \in Nat
    <3>1. IsFiniteSet(Timelines!Active)
      BY FS_Subset DEF Timelines!Active, TimelineParameters
    <3>2. QED
      BY <3>1, FS_CardinalityType
  <2>2. queue \in Seq(Works)
    BY <2>1, TimelineCount
  <2>3. PICK p : p = << Timelines!Do("reorder", None, queue) >>
    OBVIOUS
  <2>4. QueueProgram(p)
    BY <1>6, <2>2, <2>3, SavesQueue DEF Timelines!ReorderQueue
  <2>5. Timelines!Asks(s, p)
    BY <1>6, <2>3 DEF Timelines!ReorderQueue
  <2>6. QED
    BY <2>4, <2>5, LinkAsk
<1>7. ASSUME NEW m \in Maintenances, Timelines!CreateMaintenance(s, m) PROVE LinkInv'
  <2>1. PICK p : p = << Timelines!Do("save_maintenance", m, None) >>
    OBVIOUS
  <2>2. Program(p)
    BY <2>1, WritesRecord, OneWrite
  <2>3. Timelines!Asks(s, p)
    BY <1>7, <2>1 DEF Timelines!CreateMaintenance
  <2>4. QED
    BY <2>2, <2>3, LinkAsk
<1>8. ASSUME NEW r, Timelines!RemoveWork(s, r) \/ Timelines!RemoveMaintenance(s, r) PROVE LinkInv'
  <2>1. PICK F : F = UNION {Timelines!FilesOf(e) : e \in {x \in Timelines!Entries :
                                 entries[x] # None /\ entries[x].of = r}}
    OBVIOUS
  <2>2. PICK p : p = << Timelines!DoFiles("unlink", None, F), Timelines!Do("delete_record", r, None) >>
    OBVIOUS
  <2>3. F \in SUBSET Timelines!Files
    BY <2>1, <1>3
  <2>4. Program(p)
    BY <2>2, <2>3, WritesFiles, WritesRecord, TwoWrites
  <2>5. Timelines!Asks(s, p)
    BY <1>8, <2>1, <2>2 DEF Timelines!RemoveWork, Timelines!RemoveMaintenance
  <2>6. QED
    BY <2>4, <2>5, LinkAsk
<1>9. QED
  BY <1>4, <1>5, <1>6, <1>7, <1>8 DEF Timelines!RecordRequests

LEMMA LeastOf ==
  ASSUME NEW n \in Nat, NEW S \in SUBSET (1..n), S # {}
  PROVE  Timelines!Least(S) \in S /\ \A y \in S : Timelines!Least(S) <= y
<1>1. IsFiniteSet(S) /\ S \subseteq Int
  <2>1. IsFiniteSet(1..n)
    BY FS_Interval
  <2>2. IsFiniteSet(S)
    BY <2>1, FS_Subset
  <2>3. QED
    BY <2>2
<1>2. Min(S) \in S /\ \A y \in S : Min(S) <= y
  BY <1>1, MinExists
<1>3. \E x \in S : \A y \in S : x <= y
  BY <1>2
<1>4. QED
  BY <1>3 DEF Timelines!Least

LEMMA WritesJoined ==
  ASSUME NEW a, a = << >> \/ \E w : a = <<w>> /\ Writes(w), NEW x, Writes(x), NEW y, Writes(y),
         NEW p, p = a \o <<x, y>>
  PROVE  Program(p)
<1>1. CASE a = << >>
  <2>1. PICK b : b = <<x, y>>
    OBVIOUS
  <2>2. b \in Seq({x, y}) /\ a \in Seq({x, y})
    BY <1>1, <2>1, EmptySeq
  <2>3. p = b
    BY <1>1, <2>1, <2>2, ConcatEmptySeq
  <2>4. QED
    BY <2>1, <2>3, TwoWrites
<1>2. CASE \E w : a = <<w>> /\ Writes(w)
  <2>1. PICK w : a = <<w>> /\ Writes(w)
    BY <1>2
  <2>2. PICK b : b = <<x, y>>
    OBVIOUS
  <2>3. /\ a \in Seq({w, x, y}) /\ Len(a) = 1 /\ a[1] = w
        /\ b \in Seq({w, x, y}) /\ Len(b) = 2 /\ b[1] = x /\ b[2] = y
    BY <2>1, <2>2
  <2>4. /\ p \in Seq({w, x, y}) /\ Len(p) = 3
        /\ \A i \in 1..3 : p[i] = IF i <= 1 THEN a[i] ELSE b[i - 1]
    BY <2>2, <2>3, ConcatProperties
  <2>5. p[1] = w /\ p[2] = x /\ p[3] = y
    BY <2>3, <2>4
  <2>6. WriteProgram(p)
    BY <2>1, <2>4, <2>5 DEF WriteProgram
  <2>7. QED
    BY <2>4, <2>6 DEF Program
<1>3. QED
  BY <1>1, <1>2

\* What is added to a timeline.
LEMMA LinkAdds ==
  ASSUME TimelineParameters, OneForm, LinkInv, NEW s \in Slots, NEW row \in Timelines!Entry,
         NEW batch \in Timelines!Uploads, NEW more,
         more = << >> \/ \E budget \in Timelines!Budget :
                            more = << Timelines!Do("save_budget", Timelines!Least(Timelines!NewEntries), budget) >>,
         Timelines!Adds(s, row, batch, more)
  PROVE  LinkInv'
<1>1. PICK e : e = Timelines!Least(Timelines!NewEntries)
  OBVIOUS
<1>2. e \in Timelines!Entries
  BY <1>1, LeastOf DEF Timelines!Adds, Timelines!NewEntries, Timelines!Entries, TimelineParameters
<1>3. batch \in SUBSET Timelines!Files
  BY DEF Timelines!Uploads, Timelines!NewFiles
<1>4. PICK x, y : x = Timelines!Do("insert_entry", e, row) /\ y = Timelines!DoFiles("upload", e, batch)
  OBVIOUS
<1>5. Writes(x) /\ Writes(y)
  BY <1>2, <1>3, <1>4, WritesEntry, WritesFiles
<1>6. more = << >> \/ \E w : more = <<w>> /\ Writes(w)
  <2>1. ASSUME NEW budget \in Timelines!Budget PROVE Writes(Timelines!Do("save_budget", e, budget))
    BY <1>2, WritesBudget
  <2>2. QED
    BY <2>1, <1>1
<1>7. PICK p : p = more \o <<x, y>>
  OBVIOUS
<1>8. Program(p)
  BY <1>5, <1>6, <1>7, WritesJoined
<1>9. Timelines!Asks(s, p)
  BY <1>1, <1>4, <1>7 DEF Timelines!Adds
<1>10. QED
  BY <1>8, <1>9, LinkAsk

\* The first group of requests: something is added.
LEMMA LinkAddRequests ==
  ASSUME TimelineParameters, OneForm, LinkInv, NEW s \in Slots, NEW batch \in Timelines!Uploads,
         \/ \E text \in BOOLEAN : \/ \E w \in Works : Timelines!AddNote(s, w, text, batch)
                                  \/ \E m \in Maintenances : Timelines!AddMaintenanceNote(s, m, text, batch)
         \/ \E w \in Works : \/ Timelines!AddLegal(s, w, batch)
                             \/ \E budget \in Budgets : Timelines!AddBudget(s, w, budget, batch)
  PROVE  LinkInv'
<1>1. ASSUME NEW r \in Works \cup Maintenances, NEW text \in BOOLEAN, NEW row,
             row = [of |-> r, kind |-> "note", says |-> Timelines!Says(text)],
             Timelines!Adds(s, row, batch, << >>)
      PROVE  LinkInv'
  <2>1. Timelines!Says(text) \in {"nothing", "text"}
    BY DEF Timelines!Says
  <2>2. row \in Timelines!Entry
    BY <1>1, <2>1 DEF Timelines!Entry
  <2>3. QED
    BY <1>1, <2>2, LinkAdds
<1>2. ASSUME NEW w \in Works, Timelines!AddLegal(s, w, batch) PROVE LinkInv'
  <2>1. PICK row : row = [of |-> w, kind |-> "legal", says |-> "text"]
    OBVIOUS
  <2>2. row \in Timelines!Entry
    BY <2>1 DEF Timelines!Entry
  <2>3. Timelines!Adds(s, row, batch, << >>)
    BY <1>2, <2>1 DEF Timelines!AddLegal
  <2>4. QED
    BY <2>2, <2>3, LinkAdds
<1>3. ASSUME NEW w \in Works, NEW budget \in Budgets, Timelines!AddBudget(s, w, budget, batch) PROVE LinkInv'
  <2>1. PICK row : row = [of |-> w, kind |-> "budget", says |-> Timelines!Summary(budget)]
    OBVIOUS
  <2>2. Timelines!Summary(budget) \in {"waiting", "amount"} /\ budget \in Timelines!Budget
    BY DEF Timelines!Summary, TimelineParameters
  <2>3. row \in Timelines!Entry
    BY <2>1, <2>2 DEF Timelines!Entry
  <2>4. Timelines!Adds(s, row, batch, << Timelines!Do("save_budget", Timelines!Least(Timelines!NewEntries), budget) >>)
    BY <1>3, <2>1 DEF Timelines!AddBudget
  <2>5. QED
    BY <2>2, <2>3, <2>4, LinkAdds
<1>4. QED
  BY <1>1, <1>2, <1>3 DEF Timelines!AddNote, Timelines!AddMaintenanceNote

\* The requests about an entry that is there.
LEMMA LinkEntryFiles ==
  ASSUME TimelineParameters, OneForm, LinkInv, NEW s \in Slots, NEW e \in Timelines!Entries,
         \/ \E batch \in Timelines!Uploads : Timelines!AddTimelineEntryAttachments(s, e, batch)
         \/ \E f \in Timelines!Files : \/ Timelines!RemoveTimelineAttachment(s, e, f)
                                       \/ Timelines!ReplaceTimelineAttachment(s, e, f)
  PROVE  LinkInv'
<1>1. ASSUME NEW batch \in Timelines!Uploads, Timelines!AddTimelineEntryAttachments(s, e, batch) PROVE LinkInv'
  <2>1. PICK p : p = << Timelines!DoFiles("upload", e, batch) >>
    OBVIOUS
  <2>2. batch \in SUBSET Timelines!Files
    BY DEF Timelines!Uploads, Timelines!NewFiles
  <2>3. Program(p)
    BY <2>1, <2>2, WritesFiles, OneWrite
  <2>4. Timelines!Asks(s, p)
    BY <1>1, <2>1 DEF Timelines!AddTimelineEntryAttachments
  <2>5. QED
    BY <2>3, <2>4, LinkAsk
<1>2. ASSUME NEW f \in Timelines!Files, Timelines!RemoveTimelineAttachment(s, e, f) PROVE LinkInv'
  <2>1. PICK p : p = << Timelines!DoFiles("unlink", e, {f}), Timelines!DoFiles("delete_row", e, {f}) >>
    OBVIOUS
  <2>2. {f} \in SUBSET Timelines!Files
    OBVIOUS
  <2>3. Program(p)
    BY <2>1, <2>2, WritesFiles, TwoWrites
  <2>4. Timelines!Asks(s, p)
    BY <1>2, <2>1 DEF Timelines!RemoveTimelineAttachment
  <2>5. QED
    BY <2>3, <2>4, LinkAsk
<1>3. ASSUME NEW f \in Timelines!Files, Timelines!ReplaceTimelineAttachment(s, e, f) PROVE LinkInv'
  <2>1. PICK g : g = Timelines!Least(Timelines!NewFiles)
    OBVIOUS
  <2>2. g \in Timelines!Files
    BY <1>3, <2>1, LeastOf DEF Timelines!ReplaceTimelineAttachment, Timelines!NewFiles, Timelines!Files,
       TimelineParameters
  <2>3. PICK x, y, z, w : /\ x = Timelines!DoFiles("store", e, {g}) /\ w = Timelines!DoFiles("save_row", e, {g})
                          /\ y = [w EXCEPT !.row = f] /\ z = Timelines!DoFiles("unlink", e, {f})
    OBVIOUS
  <2>4. y.do = "save_row" /\ y.id = e /\ y.files = {g}
    <3>1. w = [do |-> "save_row", id |-> e, row |-> None, side |-> None, files |-> {g}]
      BY <2>3 DEF Timelines!DoFiles, Timelines!Do
    <3>2. QED
      BY <2>3, <3>1
  <2>5. Writes(y)
    BY <2>2, <2>4 DEF Writes, Writing
  <2>6. Writes(x) /\ Writes(z)
    <3>1. {g} \in SUBSET Timelines!Files /\ {f} \in SUBSET Timelines!Files
      BY <2>2
    <3>2. QED
      BY <2>3, <3>1, WritesFiles
  <2>7. PICK p : p = <<x, y, z>>
    OBVIOUS
  <2>8. Program(p)
    BY <2>5, <2>6, <2>7, ThreeWrites
  <2>9. Timelines!Asks(s, p)
    BY <1>3, <2>1, <2>3, <2>7 DEF Timelines!ReplaceTimelineAttachment
  <2>10. QED
    BY <2>8, <2>9, LinkAsk
<1>4. QED
  BY <1>1, <1>2, <1>3

LEMMA LinkEntryTexts ==
  ASSUME TimelineParameters, OneForm, LinkInv, NEW s \in Slots, NEW e \in Timelines!Entries,
         \/ \E text \in BOOLEAN : Timelines!UpdateNote(s, e, text) \/ Timelines!UpdateMaintenanceNote(s, e, text)
         \/ \E budget \in Budgets : Timelines!UpdateBudget(s, e, budget)
         \/ Timelines!RemoveTimelineEntry(s, e) \/ Timelines!RemoveMaintenanceEntry(s, e)
  PROVE  LinkInv'
<1>1. entries[e] # None => entries[e] \in Timelines!Entry
  BY DEF LinkInv, TimelineTables, Timelines!TimelineTypeOK
<1>2. ASSUME entries[e] # None, NEW said \in {"nothing", "text", "waiting", "amount"}
      PROVE  [entries[e] EXCEPT !.says = said] \in Timelines!Entry
  BY <1>1, <1>2 DEF Timelines!Entry
<1>3. ASSUME NEW text \in BOOLEAN, Timelines!UpdateNote(s, e, text) \/ Timelines!UpdateMaintenanceNote(s, e, text)
      PROVE  LinkInv'
  <2>1. PICK row : row = [entries[e] EXCEPT !.says = Timelines!Says(text)]
    OBVIOUS
  <2>2. entries[e] # None /\ Timelines!Says(text) \in {"nothing", "text", "waiting", "amount"}
    BY <1>3 DEF Timelines!UpdateNote, Timelines!UpdateMaintenanceNote, Timelines!OnWork, Timelines!Says
  <2>3. row \in Timelines!Entry
    BY <1>2, <2>1, <2>2
  <2>4. PICK p : p = << Timelines!Do("save_entry", e, row) >>
    OBVIOUS
  <2>5. Program(p)
    BY <2>3, <2>4, WritesEntry, OneWrite
  <2>6. Timelines!Asks(s, p)
    BY <1>3, <2>1, <2>4 DEF Timelines!UpdateNote, Timelines!UpdateMaintenanceNote
  <2>7. QED
    BY <2>5, <2>6, LinkAsk
<1>4. ASSUME NEW budget \in Budgets, Timelines!UpdateBudget(s, e, budget) PROVE LinkInv'
  <2>1. PICK row : row = [entries[e] EXCEPT !.says = Timelines!Summary(budget)]
    OBVIOUS
  <2>2. /\ entries[e] # None /\ Timelines!Summary(budget) \in {"nothing", "text", "waiting", "amount"}
        /\ budget \in Timelines!Budget
    BY <1>4 DEF Timelines!UpdateBudget, Timelines!OnWork, Timelines!Summary, TimelineParameters
  <2>3. row \in Timelines!Entry
    BY <1>2, <2>1, <2>2
  <2>4. PICK p : p = << Timelines!Do("save_budget", e, budget), Timelines!Do("save_entry", e, row) >>
    OBVIOUS
  <2>5. Program(p)
    BY <2>2, <2>3, <2>4, WritesEntry, WritesBudget, TwoWrites
  <2>6. Timelines!Asks(s, p)
    BY <1>4, <2>1, <2>4 DEF Timelines!UpdateBudget
  <2>7. QED
    BY <2>5, <2>6, LinkAsk
<1>5. ASSUME Timelines!RemoveTimelineEntry(s, e) PROVE LinkInv'
  <2>1. PICK x, y : x = Timelines!Do("delete_budget", e, None) /\ y = Timelines!Do("delete_entry", e, None)
    OBVIOUS
  <2>2. Writes(x) /\ Writes(y)
    BY <2>1, WritesRecord
  <2>3. PICK p : p = IF entries[e].kind = "budget" THEN <<x, y>> ELSE <<y>>
    OBVIOUS
  <2>4. Program(p)
    BY <2>2, <2>3, OneWrite, TwoWrites
  <2>5. Timelines!Asks(s, p)
    BY <1>5, <2>1, <2>3 DEF Timelines!RemoveTimelineEntry
  <2>6. QED
    BY <2>4, <2>5, LinkAsk
<1>6. ASSUME Timelines!RemoveMaintenanceEntry(s, e) PROVE LinkInv'
  <2>1. PICK x, y : x = Timelines!DoFiles("unlink", e, Timelines!FilesOf(e)) /\ y = Timelines!Do("delete_entry", e, None)
    OBVIOUS
  <2>2. Timelines!FilesOf(e) \in SUBSET Timelines!Files
    BY DEF Timelines!FilesOf
  <2>3. Writes(x) /\ Writes(y)
    BY <2>1, <2>2, WritesRecord, WritesFiles
  <2>4. PICK p : p = <<x, y>>
    OBVIOUS
  <2>5. Program(p)
    BY <2>3, <2>4, TwoWrites
  <2>6. Timelines!Asks(s, p)
    BY <1>6, <2>1, <2>4 DEF Timelines!RemoveMaintenanceEntry
  <2>7. QED
    BY <2>5, <2>6, LinkAsk
<1>7. QED
  BY <1>3, <1>4, <1>5, <1>6

LEMMA LinkEntryRequests ==
  ASSUME TimelineParameters, OneForm, LinkInv, NEW s \in Slots, Timelines!EntryRequests(s)
  PROVE  LinkInv'
BY LinkAddRequests, LinkEntryFiles, LinkEntryTexts DEF Timelines!EntryRequests

\* A transaction is saved, loaded and synchronised.
LEMMA SaveProgram ==
  ASSUME NEW t \in Txs, NEW row \in Timelines!Transaction, NEW sides,
         \A side \in Timelines!Sides : Agrees(t, row, side) \/ side \in sides \/ row[side] # None,
         NEW p, p = << Timelines!Do("commit", t, row), Timelines!Do("load", t, sides) >>
  PROVE  Program(p)
<1>1. PICK x, y : x = Timelines!Do("commit", t, row) /\ y = Timelines!Do("load", t, sides)
  OBVIOUS
<1>2. /\ x.do = "commit" /\ x.id = t /\ x.row = row /\ DOMAIN x = Columns
      /\ y.do = "load" /\ y.id = t /\ y.row = sides /\ DOMAIN y = Columns
  BY <1>1, DoFields
<1>3. p = <<x, y>>
  BY <1>1
<1>4. p \in Seq({x, y}) /\ Len(p) = 2 /\ p[1] = x /\ p[2] = y /\ 1..Len(p) = {1, 2}
  BY <1>3
<1>5. \A i \in 1..Len(p) : p[i].do \in Linking /\ DOMAIN p[i] = Columns
  BY <1>2, <1>4 DEF Linking, Syncing
<1>6. Commits(p)
  <2>1. \A side \in Timelines!Sides : Agrees(t, row, side) \/ SyncedAfter(p, 1, t, row, side)
    <3>1. SUFFICES ASSUME NEW side \in Timelines!Sides, side \in sides \/ row[side] # None
                   PROVE  SyncedAfter(p, 1, t, row, side)
      OBVIOUS
    <3>2. 2 \in (1 + 1)..Len(p)
      BY <1>4
    <3>3. QED
      BY <3>1, <3>2, <1>2, <1>4 DEF SyncedAfter
  <2>2. \A i \in 1..Len(p) : p[i].do = "commit" => i = 1
    BY <1>2, <1>4
  <2>3. \A j \in 1..Len(p) : ~ (j < 1)
    BY <1>4
  <2>4. QED
    BY <2>1, <2>2, <2>3, <1>2, <1>4 DEF Commits
<1>7. Syncs(p) /\ Deletes(p) /\ Assigns(p)
  BY <1>2, <1>4 DEF Syncs, Deletes, Assigns, Syncing
<1>8. Loads(p)
  <2>1. \A i \in 1..Len(p) : p[i].do = "load" => i = 2
    BY <1>2, <1>4
  <2>2. 1 \in 1..(2 - 1)
    OBVIOUS
  <2>3. QED
    BY <2>1, <2>2, <1>2, <1>4 DEF Loads
<1>9. QED
  BY <1>4, <1>5, <1>6, <1>7, <1>8 DEF Program, LinkProgram

\* The links are removed, then the transaction.
LEMMA RemoveProgram ==
  ASSUME TimelineParameters, NEW t \in Txs,
         NEW p, p = << Timelines!Find("work", t, Timelines!Unlinked), Timelines!Find("maintenance", t, Timelines!Unlinked),
                       Timelines!Do("delete_txs", t, {t}) >>
  PROVE  Program(p)
<1>1. PICK x, y, z : /\ x = Timelines!Find("work", t, Timelines!Unlinked) /\ z = Timelines!Do("delete_txs", t, {t})
                     /\ y = Timelines!Find("maintenance", t, Timelines!Unlinked)
  OBVIOUS
<1>2. /\ x.do = "find" /\ x.id = t /\ x.row = Timelines!Unlinked /\ x.side = "work" /\ DOMAIN x = Columns
      /\ y.do = "find" /\ y.id = t /\ y.row = Timelines!Unlinked /\ y.side = "maintenance" /\ DOMAIN y = Columns
      /\ z.do = "delete_txs" /\ z.id = t /\ z.row = {t} /\ DOMAIN z = Columns
  BY <1>1, FindFields, DoFields
<1>3. p = <<x, y, z>>
  BY <1>1
<1>4. p \in Seq({x, y, z}) /\ Len(p) = 3 /\ p[1] = x /\ p[2] = y /\ p[3] = z /\ 1..Len(p) = {1, 2, 3}
  BY <1>3
<1>5. \A i \in 1..Len(p) : p[i].do \in Linking /\ DOMAIN p[i] = Columns
  BY <1>2, <1>4 DEF Linking, Syncing
<1>6. Timelines!Unlinked \in Timelines!Transaction
  BY DEF Timelines!Unlinked, Timelines!Transaction, Timelines!Status
<1>7. Syncs(p)
  <2>1. SUFFICES ASSUME NEW i \in 1..Len(p), p[i].do \in Syncing
                 PROVE  /\ p[i].id \in Txs /\ p[i].side \in Timelines!Sides /\ p[i].row \in Timelines!Transaction
                        /\ p[i].do = "find"
                        /\ \E j \in (i + 1)..Len(p) : p[j].do = "delete_txs" /\ p[j].id = p[i].id
    BY DEF Syncs
  <2>2. i \in {1, 2}
    BY <2>1, <1>2, <1>4 DEF Syncing
  <2>3. 3 \in (i + 1)..Len(p)
    BY <2>2, <1>4
  <2>4. QED
    BY <2>2, <2>3, <1>2, <1>4, <1>6 DEF Timelines!Sides
<1>8. Commits(p) /\ Loads(p) /\ Assigns(p)
  BY <1>2, <1>4 DEF Commits, Loads, Assigns
<1>9. Deletes(p)
  BY <1>2, <1>4 DEF Deletes
<1>10. QED
  BY <1>4, <1>5, <1>7, <1>8, <1>9 DEF Program, LinkProgram

LEMMA LinkTransaction ==
  ASSUME TimelineParameters, OneForm, LinkInv, NEW s \in Slots, NEW t \in Txs,
         \/ \E row \in Timelines!Transaction : \/ Timelines!CreateTransaction(s, t, row)
                                               \/ Timelines!UpdateTransaction(s, t, row)
         \/ Timelines!Settle(s, t) \/ Timelines!Cancel(s, t) \/ Timelines!Reopen(s, t)
         \/ Timelines!RemoveTransaction(s, t)
  PROVE  LinkInv'
<1>1. ASSUME NEW row \in Timelines!Transaction,
             Timelines!Asks(s, << Timelines!Do("commit", t, row), Timelines!Do("load", t, Timelines!Sides) >>)
      PROVE  LinkInv'
  <2>1. PICK p : p = << Timelines!Do("commit", t, row), Timelines!Do("load", t, Timelines!Sides) >>
    OBVIOUS
  <2>2. Program(p)
    BY <2>1, SaveProgram
  <2>3. QED
    BY <1>1, <2>1, <2>2, LinkAsk
<1>2. ASSUME NEW row \in Timelines!Transaction, Timelines!UpdateTransaction(s, t, row) PROVE LinkInv'
  <2>1. PICK new : new = Timelines!LoadedWorkKept(txs[t], row)
    OBVIOUS
  <2>2. txs[t] # None /\ txs[t] \in Timelines!Transaction
    BY <1>2 DEF Timelines!UpdateTransaction, LinkInv, TimelineTables, Timelines!TimelineTypeOK
  <2>3. new \in Timelines!Transaction
    BY <2>1, <2>2 DEF Timelines!LoadedWorkKept, Timelines!Transaction
  <2>4. QED
    BY <1>1, <1>2, <2>1, <2>3 DEF Timelines!UpdateTransaction
<1>3. ASSUME NEW from, NEW to \in Timelines!Status, Timelines!ChangeStatus(s, t, from, to) PROVE LinkInv'
  <2>1. PICK old : old = txs[t]
    OBVIOUS
  <2>2. PICK row : row = [old EXCEPT !.status = to]
    OBVIOUS
  <2>3. old # None /\ old \in Timelines!Transaction
    BY <1>3, <2>1 DEF Timelines!ChangeStatus, LinkInv, TimelineTables, Timelines!TimelineTypeOK
  <2>4. row \in Timelines!Transaction /\ \A side \in Timelines!Sides : row[side] = old[side]
    BY <2>2, <2>3 DEF Timelines!Transaction, Timelines!Sides
  <2>5. \A side \in Timelines!Sides : Agrees(t, row, side) \/ row[side] # None
    BY <2>1, <2>3, <2>4 DEF Agrees
  <2>6. PICK p : p = << Timelines!Do("commit", t, row), Timelines!Do("load", t, {}) >>
    OBVIOUS
  <2>7. Program(p)
    BY <2>4, <2>5, <2>6, SaveProgram
  <2>8. Timelines!Asks(s, p)
    BY <1>3, <2>1, <2>2, <2>6 DEF Timelines!ChangeStatus
  <2>9. QED
    BY <2>7, <2>8, LinkAsk
<1>4. ASSUME Timelines!RemoveTransaction(s, t) PROVE LinkInv'
  <2>1. PICK p : p = << Timelines!Find("work", t, Timelines!Unlinked), Timelines!Find("maintenance", t, Timelines!Unlinked),
                        Timelines!Do("delete_txs", t, {t}) >>
    OBVIOUS
  <2>2. Program(p)
    BY <2>1, RemoveProgram
  <2>3. Timelines!Asks(s, p)
    BY <1>4, <2>1 DEF Timelines!RemoveTransaction
  <2>4. QED
    BY <2>2, <2>3, LinkAsk
<1>5. "pending" \in Timelines!Status /\ "paid" \in Timelines!Status /\ "cancelled" \in Timelines!Status
  BY DEF Timelines!Status
<1>6. QED
  BY <1>1, <1>2, <1>3, <1>4, <1>5 DEF Timelines!CreateTransaction, Timelines!Settle, Timelines!Cancel, Timelines!Reopen

LEMMA LinkBulkAssign ==
  ASSUME TimelineParameters, OneForm, LinkInv, NEW s \in Slots, NEW side \in Timelines!Sides, NEW ts \in SUBSET Txs,
         NEW r, r \in (IF side = "work" THEN Works ELSE Maintenances) \cup {None},
         Timelines!BulkAssign(s, side, ts, r)
  PROVE  LinkInv'
<1>1. PICK f : f = [t \in ts |-> [txs[t] EXCEPT ![side] = r]]
  OBVIOUS
<1>2. PICK n, x : n = Timelines!Do("assign", None, f) /\ x = [n EXCEPT !.side = side]
  OBVIOUS
<1>3. x.do = "assign" /\ x.id = None /\ x.row = f /\ x.side = side /\ DOMAIN x = Columns
  <2>1. n = [do |-> "assign", id |-> None, row |-> f, side |-> None, files |-> {}]
    BY <1>2 DEF Timelines!Do
  <2>2. QED
    BY <1>2, <2>1 DEF Columns
<1>4. PICK p : p = <<x>>
  OBVIOUS
<1>5. p \in Seq({x}) /\ Len(p) = 1 /\ p[1] = x /\ 1..Len(p) = {1}
  BY <1>4
<1>6. ASSUME NEW t \in ts
      PROVE  /\ f[t] \in Timelines!Transaction
             /\ \A other \in Timelines!Sides : other # side => Agrees(t, f[t], other)
  <2>1. PICK old : old = txs[t]
    OBVIOUS
  <2>2. old # None /\ old \in Timelines!Transaction
    BY <2>1 DEF Timelines!BulkAssign, LinkInv, TimelineTables, Timelines!TimelineTypeOK
  <2>3. PICK row : row = f[t]
    OBVIOUS
  <2>4. row = [old EXCEPT ![side] = r]
    BY <1>1, <2>1, <2>3
  <2>5. /\ old = [status |-> old.status, work |-> old.work, maintenance |-> old.maintenance]
        /\ old.status \in Timelines!Status /\ old.work \in Works \cup {None} /\ old.maintenance \in Maintenances \cup {None}
    BY <2>2 DEF Timelines!Transaction
  <2>6. CASE side = "work"
    <3>1. row = [status |-> old.status, work |-> r, maintenance |-> old.maintenance]
      BY <2>4, <2>5, <2>6
    <3>2. row \in Timelines!Transaction
      BY <3>1, <2>5, <2>6 DEF Timelines!Transaction
    <3>3. Agrees(t, row, "maintenance")
      BY <3>1, <2>1, <2>2 DEF Agrees
    <3>4. QED
      BY <3>2, <3>3, <2>3, <2>6 DEF Timelines!Sides
  <2>7. CASE side = "maintenance"
    <3>1. row = [status |-> old.status, work |-> old.work, maintenance |-> r]
      BY <2>4, <2>5, <2>7
    <3>2. row \in Timelines!Transaction
      BY <3>1, <2>5, <2>7 DEF Timelines!Transaction
    <3>3. Agrees(t, row, "work")
      BY <3>1, <2>1, <2>2 DEF Agrees
    <3>4. QED
      BY <3>2, <3>3, <2>3, <2>7 DEF Timelines!Sides
  <2>8. QED
    BY <2>6, <2>7 DEF Timelines!Sides
<1>7. Assigns(p)
  <2>1. DOMAIN f = ts /\ \A t \in ts : t \in Txs /\ t # None
    BY <1>1 DEF TimelineParameters
  <2>2. QED
    BY <2>1, <1>3, <1>5, <1>6 DEF Assigns
<1>8. Commits(p) /\ Syncs(p) /\ Loads(p) /\ Deletes(p)
  BY <1>3, <1>5 DEF Commits, Syncs, Loads, Deletes, Syncing
<1>9. \A i \in 1..Len(p) : p[i].do \in Linking /\ DOMAIN p[i] = Columns
  BY <1>3, <1>5 DEF Linking, Syncing
<1>10. Program(p)
  BY <1>5, <1>7, <1>8, <1>9 DEF Program, LinkProgram
<1>11. Timelines!Asks(s, p)
  BY <1>1, <1>2, <1>4 DEF Timelines!BulkAssign
<1>12. QED
  BY <1>10, <1>11, LinkAsk

LEMMA LinkTransactionRequests ==
  ASSUME TimelineParameters, OneForm, LinkInv, NEW s \in Slots, Timelines!TransactionRequests(s)
  PROVE  LinkInv'
<1>1. ASSUME NEW ts \in SUBSET Txs, Timelines!RemoveRecurringSeries(s, ts) PROVE LinkInv'
  <2>1. PICK x, p : x = Timelines!Do("delete_txs", None, ts) /\ p = <<x>>
    OBVIOUS
  <2>2. x.do = "delete_txs" /\ x.id = None /\ x.row = ts /\ DOMAIN x = Columns
    BY <2>1, DoFields
  <2>3. p \in Seq({x}) /\ Len(p) = 1 /\ p[1] = x /\ 1..Len(p) = {1}
    BY <2>1
  <2>4. Commits(p) /\ Syncs(p) /\ Loads(p) /\ Assigns(p)
    BY <2>2, <2>3 DEF Commits, Syncs, Loads, Assigns, Syncing
  <2>5. Deletes(p)
    BY <2>2, <2>3 DEF Deletes, TimelineParameters
  <2>6. \A i \in 1..Len(p) : p[i].do \in Linking /\ DOMAIN p[i] = Columns
    BY <2>2, <2>3 DEF Linking, Syncing
  <2>7. Program(p)
    BY <2>3, <2>4, <2>5, <2>6 DEF Program, LinkProgram
  <2>8. Timelines!Asks(s, p)
    BY <1>1, <2>1 DEF Timelines!RemoveRecurringSeries
  <2>9. QED
    BY <2>7, <2>8, LinkAsk
<1>2. ASSUME NEW ts \in SUBSET Txs, NEW w \in Works \cup {None}, Timelines!BulkAssignWork(s, ts, w) PROVE LinkInv'
  <2>1. "work" \in Timelines!Sides /\ w \in (IF "work" = "work" THEN Works ELSE Maintenances) \cup {None}
    BY DEF Timelines!Sides
  <2>2. Timelines!BulkAssign(s, "work", ts, w)
    BY <1>2 DEF Timelines!BulkAssignWork
  <2>3. QED
    BY <2>1, <2>2, LinkBulkAssign
<1>3. ASSUME NEW ts \in SUBSET Txs, NEW m \in Maintenances \cup {None}, Timelines!BulkAssignMaintenance(s, ts, m)
      PROVE  LinkInv'
  <2>1. /\ "maintenance" \in Timelines!Sides
        /\ m \in (IF "maintenance" = "work" THEN Works ELSE Maintenances) \cup {None}
    BY DEF Timelines!Sides
  <2>2. Timelines!BulkAssign(s, "maintenance", ts, m)
    BY <1>3 DEF Timelines!BulkAssignMaintenance
  <2>3. QED
    BY <2>1, <2>2, LinkBulkAssign
<1>4. QED
  BY <1>1, <1>2, <1>3, LinkTransaction DEF Timelines!TransactionRequests

(***************************************************************************)
(* The whole.                                                              *)
(***************************************************************************)

LEMMA LinkInit == TimelineParameters /\ Timelines!Init => LinkInv
<1> SUFFICES ASSUME TimelineParameters, Timelines!Init PROVE LinkInv
  OBVIOUS
<1> DEFINE Linked(w) == [Timelines!Unlinked EXCEPT !.work = w]
<1>0. PICK w \in Works :
        /\ txs = [t \in Txs |-> Linked(w)]
        /\ shown = [side \in Timelines!Sides |-> [t \in Txs |->
                        IF side = "work" THEN Timelines!Shown(Linked(w), side) ELSE None]]
        /\ entries = [e \in Timelines!Entries |-> IF e = 1 THEN [of |-> w, kind |-> "legal", says |-> "text"]
                                                  ELSE None]
  BY DEF Timelines!Init
<1>a. PICK row : row = Linked(w)
  OBVIOUS
<1>1. /\ row = [Timelines!Unlinked EXCEPT !.work = w]
      /\ txs = [t \in Txs |-> row]
      /\ shown = [side \in Timelines!Sides |-> [t \in Txs |->
                        IF side = "work" THEN Timelines!Shown(row, side) ELSE None]]
      /\ entries = [e \in Timelines!Entries |-> IF e = 1 THEN [of |-> w, kind |-> "legal", says |-> "text"]
                                                  ELSE None]
  BY <1>0, <1>a
<1> HIDE DEF Linked
<1>2. row = [status |-> "pending", work |-> w, maintenance |-> None] /\ w # None
  BY <1>1 DEF Timelines!Unlinked, TimelineParameters
<1>3. row \in Timelines!Transaction
  BY <1>2 DEF Timelines!Transaction, Timelines!Status
<1>4. PICK v : v = Timelines!Shown(row, "work")
  OBVIOUS
<1>5. v = [of |-> w, status |-> "pending"] /\ v \in ShownRows
  <2>1. v = [of |-> row["work"], status |-> row.status]
    BY <1>4 DEF Timelines!Shown
  <2>2. v = [of |-> w, status |-> "pending"]
    BY <2>1, <1>2
  <2>3. QED
    BY <2>2 DEF ShownRows, Timelines!Status
<1>6. \A t \in Txs : shown["work"][t] = v /\ shown["maintenance"][t] = None
  BY <1>1, <1>4 DEF Timelines!Sides
<1>7. shown \in [Timelines!Sides -> [Txs -> ShownRows \cup {None}]]
  <2>1. shown["work"] = [t \in Txs |-> v] /\ shown["maintenance"] = [t \in Txs |-> None]
    BY <1>1, <1>4 DEF Timelines!Sides
  <2>2. DOMAIN shown = Timelines!Sides /\ shown = [side \in Timelines!Sides |-> shown[side]]
    BY <1>1
  <2>3. \A side \in Timelines!Sides : shown[side] \in [Txs -> ShownRows \cup {None}]
    BY <2>1, <1>5 DEF Timelines!Sides
  <2>4. QED
    BY <2>2, <2>3
<1>8. works \in [Works -> Timelines!Work \cup {None}]
  <2>1. Cardinality(Works) \in Nat
    BY FS_CardinalityType DEF TimelineParameters
  <2>2. works \in [Works -> [active : {TRUE}, order : 0..(Cardinality(Works) - 1)]]
    BY TimelineCount DEF Timelines!Init
  <2>3. \A x \in [active : {TRUE}, order : 0..(Cardinality(Works) - 1)] : x \in Timelines!Work
    <3>1. SUFFICES ASSUME NEW x \in [active : {TRUE}, order : 0..(Cardinality(Works) - 1)]
                   PROVE  x \in Timelines!Work
      OBVIOUS
    <3>2. /\ x = [active |-> x.active, order |-> x.order] /\ x.active \in BOOLEAN
          /\ x.order \in 0..(Cardinality(Works) - 1)
      BY <3>1
    <3>3. x.order \in Nat
      BY <2>1, <3>2
    <3>4. QED
      BY <3>2, <3>3 DEF Timelines!Work
  <2>4. QED
    BY <2>2, <2>3
<1>9. entries \in [Timelines!Entries -> Timelines!Entry \cup {None}]
  <2>1. [of |-> w, kind |-> "legal", says |-> "text"] \in Timelines!Entry
    BY DEF Timelines!Entry
  <2>2. QED
    BY <2>1, <1>1
<1>10. Timelines!TimelineTypeOK
  <2>1. txs \in [Txs -> Timelines!Transaction \cup {None}]
    BY <1>1, <1>3
  <2>2. budgets = [e \in Timelines!Entries |-> None] /\ rows = [f \in Timelines!Files |-> IF f = 1 THEN 1 ELSE None]
        /\ stored = {1} /\ maintenances = Maintenances
    BY DEF Timelines!Init
  <2>3. rows \in [Timelines!Files -> Timelines!Entries \cup {None}] /\ stored \subseteq Timelines!Files
    BY <2>2 DEF TimelineParameters
  <2>4. QED
    BY <2>1, <2>2, <2>3, <1>8, <1>9 DEF Timelines!TimelineTypeOK
<1>11. tasks = [s \in Slots |-> << >>]
  BY DEF Timelines!Init
<1>12. TimelineTables
  BY <1>7, <1>10, <1>11 DEF TimelineTables
<1>13. \A s \in Slots : Program(tasks[s])
  BY <1>11, NoProgram
<1>14. ASSUME NEW side \in Timelines!Sides, NEW t \in Txs PROVE LinkShown(side, t)
  <2>1. txs[t] = row
    BY <1>1
  <2>2. CASE side = "work"
    BY <2>1, <2>2, <1>2, <1>5, <1>6 DEF LinkShown
  <2>3. CASE side = "maintenance"
    BY <2>1, <2>3, <1>2, <1>6 DEF LinkShown
  <2>4. QED
    BY <2>2, <2>3 DEF Timelines!Sides
<1>15. QED
  BY <1>12, <1>13, <1>14 DEF LinkInv, Tracked

LEMMA LinkStep ==
  ASSUME TimelineParameters, OneForm, LinkInv, Timelines!QueueIsOrder, Timelines!Next PROVE LinkInv'
<1>1. PICK s \in Slots : \/ Timelines!RecordRequests(s) \/ Timelines!EntryRequests(s)
                         \/ Timelines!TransactionRequests(s) \/ Timelines!Steps(s) \/ Timelines!Stop(s)
  BY DEF Timelines!Next
<1>2. CASE Timelines!Steps(s)
  <2>1. CASE \/ Timelines!SaveWork(s) \/ Timelines!SaveQueue(s) \/ Timelines!SaveMaintenance(s)
             \/ Timelines!DeleteRecord(s) \/ Timelines!InsertEntry(s)
    BY <2>1, LinkSaveWork, LinkSaveQueue, LinkSaveMaintenance, LinkDeleteRecord, LinkInsertEntry
  <2>2. CASE Timelines!Upload(s) \/ Timelines!InsertRow(s) \/ Timelines!Unlink(s) \/ Timelines!Through(s)
    BY <2>2, LinkUpload, LinkRows, LinkUnlink, LinkThrough
  <2>3. CASE \/ Timelines!DeleteRow(s) \/ Timelines!Store(s) \/ Timelines!SaveRow(s) \/ Timelines!SaveBudget(s)
             \/ Timelines!SaveEntry(s) \/ Timelines!DeleteEntry(s)
    BY <2>3, LinkRows, LinkStore, LinkSaveBudget, LinkSaveEntry, LinkDeleteEntry
  <2>4. CASE Timelines!Assign(s) \/ Timelines!Commit(s) \/ Timelines!Load(s) \/ Timelines!DeleteTransactions(s)
    BY <2>4, LinkAssign, LinkCommit, LinkLoad, LinkDeleteTransactions
  <2>5. CASE Timelines!SyncWork(s) \/ Timelines!SyncMaintenance(s)
    <3>1. "work" \in Timelines!Sides /\ "maintenance" \in Timelines!Sides
      BY DEF Timelines!Sides
    <3>2. QED
      BY <2>5, <3>1, LinkSync DEF Timelines!SyncWork, Timelines!SyncMaintenance
  <2>6. CASE Timelines!Show(s) \/ Timelines!Hide(s)
    BY <2>6, LinkShow
  <2>7. QED
    BY <1>2, <2>1, <2>2, <2>3, <2>4, <2>5, <2>6 DEF Timelines!Steps
<1>3. QED
  BY <1>1, <1>2, LinkRecordRequests, LinkEntryRequests, LinkTransactionRequests, LinkStop

LEMMA LinkStutter == ASSUME LinkInv, UNCHANGED Timelines!timelineVars PROVE LinkInv'
<1>1. /\ works' = works /\ maintenances' = maintenances /\ txs' = txs /\ shown' = shown /\ entries' = entries
      /\ budgets' = budgets /\ rows' = rows /\ stored' = stored /\ tasks' = tasks /\ interrupted' = interrupted
  BY DEF Timelines!timelineVars
<1>2. TimelineTables'
  BY <1>1 DEF LinkInv, TimelineTables, Timelines!TimelineTypeOK
<1>3. \A s \in Slots : (Program(tasks[s]) \/ QueueProgram(tasks[s]))'
  BY <1>1, ProgramSame, QueueSame DEF LinkInv
<1>4. Tracked'
  <2>1. SUFFICES ASSUME NEW side \in Timelines!Sides, NEW t \in Txs, txs[t] # None, <<side, t>> \notin interrupted
                 PROVE  LinkShown(side, t)' \/ \E s \in Slots : Due(tasks[s], side, t)'
    BY <1>1 DEF Tracked
  <2>2. CASE LinkShown(side, t)
    BY <2>2, <1>1, ShownSame
  <2>3. CASE \E s \in Slots : Due(tasks[s], side, t)
    BY <2>3, <1>1, DueSame
  <2>4. QED
    BY <2>1, <2>2, <2>3 DEF LinkInv, Tracked
<1>5. QED
  BY <1>1, <1>2, <1>3, <1>4 DEF LinkInv

\* The queue.  Only two statements write positions, and one takes a work away.
LEMMA QueueSaved ==
  ASSUME TimelineParameters, LinkInv, Timelines!QueueIsOrder, NEW s \in Slots, Timelines!SaveWork(s)
  PROVE  Timelines!QueueIsOrder'
<1>1. PICK w, row : w = Timelines!Now(s).id /\ row = Timelines!Now(s).row
  OBVIOUS
<1>2. ~ Timelines!Idle(s) /\ Timelines!Now(s).do = "save_work" /\ works' = [works EXCEPT ![w] = row]
  BY <1>1 DEF Timelines!SaveWork, Timelines!Doing
<1>3. /\ w \in Works /\ row \in Timelines!Work
      /\ row.active => \A v \in Timelines!Active : v # w => works[v].order # row.order
  BY <1>1, <1>2, QueueHead DEF QueueProgram
<1>4. DOMAIN works = Works
  BY DEF LinkInv, TimelineTables, Timelines!TimelineTypeOK
<1>5. works'[w] = row /\ \A v \in Works : v # w => works'[v] = works[v]
  BY <1>2, <1>3, <1>4
<1>6. \A v \in Timelines!Active' : (v = w /\ row.active) \/ (v # w /\ v \in Timelines!Active /\ works'[v] = works[v])
  BY <1>5 DEF Timelines!Active
<1>7. QED
  BY <1>3, <1>5, <1>6 DEF Timelines!QueueIsOrder

LEMMA QueueReordered ==
  ASSUME TimelineParameters, LinkInv, Timelines!QueueIsOrder, NEW s \in Slots, Timelines!SaveQueue(s)
  PROVE  Timelines!QueueIsOrder'
<1>1. PICK queue : queue = Timelines!Now(s).row
  OBVIOUS
<1>2. /\ ~ Timelines!Idle(s) /\ Timelines!Now(s).do = "reorder"
      /\ works' = [w \in Works |->
                    IF works[w] = None \/ \A i \in DOMAIN queue : queue[i] # w THEN works[w]
                    ELSE [works[w] EXCEPT !.order = (CHOOSE i \in DOMAIN queue : queue[i] = w) - 1]]
  BY <1>1 DEF Timelines!SaveQueue, Timelines!Doing
<1>3. queue \in Seq(Works) /\ \A v \in Timelines!Active : \E k \in DOMAIN queue : queue[k] = v
  BY <1>1, <1>2, QueueHead DEF QueueProgram
<1> DEFINE place(v) == CHOOSE i \in DOMAIN queue : queue[i] = v
<1>4. ASSUME NEW v \in Timelines!Active'
      PROVE  /\ v \in Works /\ works'[v].order = place(v) - 1
             /\ place(v) \in DOMAIN queue /\ queue[place(v)] = v
  <2>1. v \in Works /\ works'[v] # None /\ works'[v].active
    BY <1>4 DEF Timelines!Active
  <2>2. works[v] \in Timelines!Work \cup {None}
    BY <2>1 DEF LinkInv, TimelineTables, Timelines!TimelineTypeOK
  <2>3. works[v] # None
    BY <1>2, <2>1
  <2>4. PICK n : n = place(v) - 1
    OBVIOUS
  <2>5. works'[v] = works[v] \/ works'[v] = [works[v] EXCEPT !.order = n]
    BY <1>2, <2>1, <2>3, <2>4
  <2>6. works[v].active
    BY <2>1, <2>2, <2>3, <2>5 DEF Timelines!Work
  <2>7. v \in Timelines!Active
    BY <2>1, <2>3, <2>6 DEF Timelines!Active
  <2>8. \E i \in DOMAIN queue : queue[i] = v
    BY <1>3, <2>7
  <2>9. works'[v] = [works[v] EXCEPT !.order = n]
    BY <1>2, <2>1, <2>3, <2>4, <2>8
  <2>10. works'[v].order = n
    BY <2>2, <2>3, <2>9 DEF Timelines!Work
  <2>11. QED
    BY <2>1, <2>4, <2>8, <2>10
<1>5. DOMAIN queue \subseteq Int
  BY <1>3
<1>6. ASSUME NEW v \in Timelines!Active', NEW w \in Timelines!Active', v # w PROVE works'[v].order # works'[w].order
  <2>1. PICK i, j : i = place(v) /\ j = place(w)
    OBVIOUS
  <2>2. /\ works'[v].order = i - 1 /\ i \in DOMAIN queue /\ queue[i] = v
        /\ works'[w].order = j - 1 /\ j \in DOMAIN queue /\ queue[j] = w
    BY <1>4, <2>1
  <2>3. i # j /\ i \in Int /\ j \in Int
    BY <2>2, <1>5, <1>6
  <2>4. QED
    BY <2>2, <2>3
<1>7. QED
  BY <1>6 DEF Timelines!QueueIsOrder

LEMMA QueueShorter ==
  ASSUME TimelineParameters, LinkInv, Timelines!QueueIsOrder, NEW s \in Slots, Timelines!DeleteRecord(s)
  PROVE  Timelines!QueueIsOrder'
<1>1. PICK r : r = Timelines!Now(s).id
  OBVIOUS
<1>2. works' = IF r \in Works THEN [works EXCEPT ![r] = None] ELSE works
  BY <1>1 DEF Timelines!DeleteRecord
<1>3. DOMAIN works = Works
  BY DEF LinkInv, TimelineTables, Timelines!TimelineTypeOK
<1>4. \A v \in Timelines!Active' : v \in Timelines!Active /\ works'[v] = works[v]
  BY <1>2, <1>3 DEF Timelines!Active
<1>5. QED
  BY <1>4 DEF Timelines!QueueIsOrder

LEMMA QueueKept == ASSUME Timelines!QueueIsOrder, works' = works PROVE Timelines!QueueIsOrder'
BY DEF Timelines!QueueIsOrder, Timelines!Active

LEMMA AsksKeeps == ASSUME NEW s, NEW p, Timelines!Asks(s, p) PROVE works' = works
BY DEF Timelines!Asks, Timelines!tables

LEMMA RequestsKeepWorks ==
  ASSUME NEW s, \/ Timelines!RecordRequests(s) \/ Timelines!EntryRequests(s) \/ Timelines!TransactionRequests(s)
  PROVE  works' = works
<1>1. CASE Timelines!RecordRequests(s)
  BY <1>1, AsksKeeps DEF Timelines!RecordRequests, Timelines!CreateWork, Timelines!UpdateWork, Timelines!ReorderQueue,
     Timelines!CreateMaintenance, Timelines!RemoveWork, Timelines!RemoveMaintenance
<1>2. CASE Timelines!EntryRequests(s)
  BY <1>2, AsksKeeps DEF Timelines!EntryRequests, Timelines!Adds, Timelines!AddNote, Timelines!AddMaintenanceNote,
     Timelines!AddLegal, Timelines!AddBudget, Timelines!AddTimelineEntryAttachments,
     Timelines!RemoveTimelineAttachment, Timelines!ReplaceTimelineAttachment, Timelines!UpdateNote,
     Timelines!UpdateMaintenanceNote, Timelines!UpdateBudget, Timelines!RemoveTimelineEntry,
     Timelines!RemoveMaintenanceEntry
<1>3. CASE Timelines!TransactionRequests(s)
  BY <1>3, AsksKeeps DEF Timelines!TransactionRequests, Timelines!CreateTransaction, Timelines!UpdateTransaction,
     Timelines!Settle, Timelines!Cancel, Timelines!Reopen, Timelines!ChangeStatus, Timelines!RemoveTransaction,
     Timelines!RemoveRecurringSeries, Timelines!BulkAssignWork, Timelines!BulkAssignMaintenance, Timelines!BulkAssign
<1>4. QED
  BY <1>1, <1>2, <1>3

LEMMA StepsKeepWorks ==
  ASSUME NEW s, Timelines!Steps(s),
         ~ Timelines!SaveWork(s), ~ Timelines!SaveQueue(s), ~ Timelines!DeleteRecord(s)
  PROVE  works' = works
<1>1. CASE \/ Timelines!SaveMaintenance(s) \/ Timelines!InsertEntry(s) \/ Timelines!Upload(s) \/ Timelines!InsertRow(s)
           \/ Timelines!Unlink(s) \/ Timelines!Through(s) \/ Timelines!DeleteRow(s) \/ Timelines!Store(s)
           \/ Timelines!SaveRow(s) \/ Timelines!SaveBudget(s) \/ Timelines!SaveEntry(s) \/ Timelines!DeleteEntry(s)
  BY <1>1 DEF Timelines!SaveMaintenance, Timelines!InsertEntry, Timelines!Upload, Timelines!InsertRow, Timelines!Unlink,
     Timelines!Through, Timelines!DeleteRow, Timelines!Store, Timelines!SaveRow, Timelines!SaveBudget,
     Timelines!SaveEntry, Timelines!DeleteEntry, Timelines!Refused, Timelines!tables
<1>2. CASE \/ Timelines!Assign(s) \/ Timelines!Commit(s) \/ Timelines!Load(s) \/ Timelines!DeleteTransactions(s)
           \/ Timelines!SyncWork(s) \/ Timelines!SyncMaintenance(s) \/ Timelines!Show(s) \/ Timelines!Hide(s)
  BY <1>2 DEF Timelines!Assign, Timelines!Commit, Timelines!Load, Timelines!DeleteTransactions, Timelines!SyncWork,
     Timelines!SyncMaintenance, Timelines!Sync, Timelines!Show, Timelines!Hide, Timelines!Refused, Timelines!tables
<1>3. QED
  BY <1>1, <1>2 DEF Timelines!Steps

LEMMA QueueStep ==
  ASSUME TimelineParameters, LinkInv, Timelines!QueueIsOrder, Timelines!Next PROVE Timelines!QueueIsOrder'
<1>1. PICK s \in Slots : \/ Timelines!RecordRequests(s) \/ Timelines!EntryRequests(s)
                         \/ Timelines!TransactionRequests(s) \/ Timelines!Steps(s) \/ Timelines!Stop(s)
  BY DEF Timelines!Next
<1>2. CASE Timelines!SaveWork(s) \/ Timelines!SaveQueue(s) \/ Timelines!DeleteRecord(s)
  BY <1>2, QueueSaved, QueueReordered, QueueShorter
<1>3. CASE Timelines!Steps(s) /\ ~ Timelines!SaveWork(s) /\ ~ Timelines!SaveQueue(s) /\ ~ Timelines!DeleteRecord(s)
  BY <1>3, StepsKeepWorks, QueueKept
<1>4. CASE Timelines!Stop(s)
  BY <1>4, QueueKept DEF Timelines!Stop, Timelines!tables
<1>5. QED
  BY <1>1, <1>2, <1>3, <1>4, RequestsKeepWorks, QueueKept

LEMMA LinkInductive == TimelineParameters /\ OneForm /\ Timelines!Spec => [](LinkInv /\ Timelines!QueueIsOrder)
<1>1. ASSUME TimelineParameters, OneForm PROVE Timelines!Spec => [](LinkInv /\ Timelines!QueueIsOrder)
  <2>1. Timelines!Init => LinkInv /\ Timelines!QueueIsOrder
    <3>1. Timelines!Init => Timelines!QueueIsOrder
      BY DEF Timelines!Init, Timelines!QueueIsOrder, Timelines!Active
    <3>2. QED
      BY <3>1, <1>1, LinkInit
  <2>2. LinkInv /\ Timelines!QueueIsOrder /\ [Timelines!Next]_Timelines!timelineVars
           => LinkInv' /\ Timelines!QueueIsOrder'
    <3>1. CASE Timelines!Next
      BY <3>1, <1>1, LinkStep, QueueStep
    <3>2. CASE UNCHANGED Timelines!timelineVars
      BY <3>2, LinkStutter, QueueKept DEF Timelines!timelineVars
    <3>3. QED
      BY <3>1, <3>2
  <2>3. QED
    BY <2>1, <2>2, PTL DEF Timelines!Spec
<1>2. QED
  BY <1>1

\* Whatever works, notes, budgets, files and transactions are written, and wherever requests
\* are cut short, as long as they do not overlap: they are rows of their tables, and an
\* attachment belongs to an entry.
THEOREM TimelineTyped == TimelineParameters /\ OneForm /\ Timelines!Spec => []Timelines!TimelineTypeOK
<1>1. LinkInv => Timelines!TimelineTypeOK
  BY DEF LinkInv, TimelineTables
<1>2. QED
  BY <1>1, LinkInductive, PTL

\* syncAfterSave of the two link services runs after the transaction that saved: at rest, each
\* timeline shows a transaction exactly where the transaction says it is linked, and with its
\* status, except for those whose request was cut short.
THEOREM LinksShown == TimelineParameters /\ OneForm /\ Timelines!Spec => []Timelines!LinkedIsShown
<1>1. LinkInv => Timelines!LinkedIsShown
  <2>1. SUFFICES ASSUME LinkInv, Timelines!AtRest, NEW side \in Timelines!Sides, NEW t \in Txs,
                        txs[t] # None, <<side, t>> \notin interrupted
                 PROVE  LinkShown(side, t)
    BY DEF Timelines!LinkedIsShown, LinkShown
  <2>2. \A s \in Slots : tasks[s] = << >>
    BY <2>1 DEF Timelines!AtRest, Timelines!Idle
  <2>3. \A s \in Slots : ~ Due(tasks[s], side, t)
    BY <2>2, NothingDue
  <2>4. QED
    BY <2>1, <2>3 DEF LinkInv, Tracked
<1>2. QED
  BY <1>1, LinkInductive, PTL

\* reorderQueue, create and update: the works in the queue have different places, after every
\* statement, also where a request stopped between two saves.
THEOREM QueueOrdered == TimelineParameters /\ OneForm /\ Timelines!Spec => []Timelines!QueueIsOrder
BY LinkInductive, PTL

(***************************************************************************)
(* What the entries of the timelines refer to.                             *)
(***************************************************************************)

\* The entries are in order, but for entries whose attachments are still to come, budgets whose
\* text or whose entry is still to be saved, and files that are about to lose their attachment.
Placed(e) ==
    /\ entries[e].of \in Works => works[entries[e].of] # None
    /\ entries[e].of \in Maintenances => entries[e].kind = "note"
    /\ entries[e].kind = "note" => entries[e].says \in {"nothing", "text"}
Speaks(e, bare, stale) ==
    /\ entries[e].kind = "note" => entries[e].says = "text" \/ Timelines!FilesOf(e) # {} \/ e \in bare
    /\ entries[e].kind = "legal" => Timelines!FilesOf(e) # {} \/ e \in bare
    /\ entries[e].kind = "budget" => /\ budgets[e] # None
                                     /\ entries[e].says = Timelines!Summary(budgets[e]) \/ e \in stale
Keeps(e, lost) == Timelines!Exists(entries[e].of) => Timelines!FilesOf(e) \subseteq stored \cup lost
InOrder(bare, stale, fresh, lost) ==
    \A e \in Timelines!Entries :
        /\ entries[e] # None => Placed(e) /\ Speaks(e, bare, stale) /\ Keeps(e, lost)
        /\ budgets[e] # None => e \in fresh \/ (entries[e] # None /\ entries[e].kind = "budget")
AllInOrder == InOrder({}, {}, {}, {})

Free(F) == F \in SUBSET Timelines!Files /\ \A f \in F : rows[f] = None
FilesAt(r) == {f \in Timelines!Files : rows[f] # None /\ entries[rows[f]] # None /\ entries[rows[f]].of = r}

\* A new entry of a record that exists.
NewEntry(e, row, F) ==
    /\ e \in Timelines!Entries /\ row \in Timelines!Entry /\ Free(F)
    /\ entries[e] = None /\ Timelines!FilesOf(e) = {} /\ Timelines!Exists(row.of)
    /\ row.of \in Maintenances => row.kind = "note"
    /\ row.kind = "note" => row.says = "text" \/ (row.says = "nothing" /\ F # {})
    /\ row.kind = "legal" => F # {}

\* Another text of the same entry.
Rewrites(e, row) ==
    /\ e \in Timelines!Entries /\ row \in Timelines!Entry
    /\ entries[e] # None /\ row.of = entries[e].of /\ row.kind = entries[e].kind

\* What the request is about to do, and what it leaves in disorder until then.
Quiets == {"save_work", "reorder", "find", "hide", "show", "show_again", "assign", "commit", "load", "delete_txs"}
AtQuiet(p) == (\E T : p \in Seq(T)) /\ (\A i \in 1..Len(p) : p[i].do \in Quiets) /\ AllInOrder
AtMaintenance(p) ==
    \E m \in Maintenances :
        /\ p = << Timelines!Do("save_maintenance", m, None) >> /\ AllInOrder
        /\ \A e \in Timelines!Entries : entries[e] # None => entries[e].of # m
AtNewBudget(p) ==
    \E e \in Timelines!Entries, b \in Timelines!Budget, row \in Timelines!Entry, F \in SUBSET Timelines!Files :
        /\ p = << Timelines!Do("save_budget", e, b), Timelines!Do("insert_entry", e, row),
                  Timelines!DoFiles("upload", e, F) >>
        /\ NewEntry(e, row, F) /\ row.kind = "budget" /\ row.says = Timelines!Summary(b) /\ AllInOrder
AtInsert(p) ==
    \E e \in Timelines!Entries, row \in Timelines!Entry, F \in SUBSET Timelines!Files :
        /\ p = << Timelines!Do("insert_entry", e, row), Timelines!DoFiles("upload", e, F) >>
        /\ NewEntry(e, row, F) /\ InOrder({}, {}, {e}, {})
        /\ row.kind = "budget" => budgets[e] # None /\ row.says = Timelines!Summary(budgets[e])
        /\ row.kind # "budget" => budgets[e] = None
AtUpload(p) ==
    \E e \in Timelines!Entries, F \in SUBSET Timelines!Files :
        /\ p = << Timelines!DoFiles("upload", e, F) >> /\ Free(F)
        /\ InOrder(IF F = {} THEN {} ELSE {e}, {}, {}, {})
AtInsertRow(p) ==
    \E e \in Timelines!Entries, f \in Timelines!Files, F \in SUBSET Timelines!Files :
        /\ p = << Timelines!DoFiles("insert_row", e, {f}), Timelines!DoFiles("upload", e, F) >>
        /\ Free(F) /\ Free({f}) /\ f \in stored \ F /\ InOrder({e}, {}, {}, {})
AtRecordFiles(p) ==
    \E r \in Works \cup Maintenances, F \in SUBSET Timelines!Files :
        /\ p = << Timelines!DoFiles("unlink", None, F), Timelines!Do("delete_record", r, None) >>
        /\ F \subseteq FilesAt(r) /\ InOrder({}, {}, {}, FilesAt(r))
AtRecord(p) ==
    \E r \in Works \cup Maintenances :
        /\ p = << Timelines!Do("delete_record", r, None) >> /\ InOrder({}, {}, {}, FilesAt(r))
\* The entry of f says something without it.
Spares(e, f) ==
    /\ e \in Timelines!Entries /\ f \in Timelines!Files /\ rows[f] = e /\ entries[e] # None /\ Timelines!Spare(e, f)
    /\ InOrder({}, {}, {}, {f})
AtAttachment(p) ==
    \E e \in Timelines!Entries, f \in Timelines!Files, F \in SUBSET Timelines!Files :
        /\ p = << Timelines!DoFiles("unlink", e, F), Timelines!DoFiles("delete_row", e, {f}) >>
        /\ F \subseteq {f} /\ Spares(e, f)
AtRow(p) ==
    \E e \in Timelines!Entries, f \in Timelines!Files :
        p = << Timelines!DoFiles("delete_row", e, {f}) >> /\ Spares(e, f)
Replaces(e, f, g) ==
    e \in Timelines!Entries /\ f \in Timelines!Files /\ Free({g}) /\ rows[f] = e /\ AllInOrder
AtStore(p) ==
    \E e \in Timelines!Entries, f, g \in Timelines!Files :
        /\ p = << Timelines!DoFiles("store", e, {g}), [Timelines!DoFiles("save_row", e, {g}) EXCEPT !.row = f],
                  Timelines!DoFiles("unlink", e, {f}) >>
        /\ Replaces(e, f, g)
AtSaveRow(p) ==
    \E e \in Timelines!Entries, f, g \in Timelines!Files :
        /\ p = << [Timelines!DoFiles("save_row", e, {g}) EXCEPT !.row = f], Timelines!DoFiles("unlink", e, {f}) >>
        /\ Replaces(e, f, g) /\ g \in stored
AtUnlink(p) ==
    \E e \in Timelines!Entries, F \in SUBSET Timelines!Files :
        p = << Timelines!DoFiles("unlink", e, F) >> /\ Free(F) /\ AllInOrder
AtText(p) ==
    \E e \in Timelines!Entries, row \in Timelines!Entry :
        /\ p = << Timelines!Do("save_entry", e, row) >> /\ Rewrites(e, row) /\ InOrder({}, {e}, {}, {})
        /\ row.kind = "note" => row.says = "text" \/ (row.says = "nothing" /\ Timelines!FilesOf(e) # {})
        /\ row.kind = "budget" => row.says = Timelines!Summary(budgets[e])
AtBudget(p) ==
    \E e \in Timelines!Entries, b \in Timelines!Budget, row \in Timelines!Entry :
        /\ p = << Timelines!Do("save_budget", e, b), Timelines!Do("save_entry", e, row) >>
        /\ Rewrites(e, row) /\ row.kind = "budget" /\ row.says = Timelines!Summary(b) /\ AllInOrder
AtBudgetGoes(p) ==
    \E e \in Timelines!Entries :
        p = << Timelines!Do("delete_budget", e, None), Timelines!Do("delete_entry", e, None) >> /\ AllInOrder
AtEntryFiles(p) ==
    \E e \in Timelines!Entries, F \in SUBSET Timelines!Files :
        /\ p = << Timelines!DoFiles("unlink", e, F), Timelines!Do("delete_entry", e, None) >>
        /\ F \subseteq Timelines!FilesOf(e) /\ budgets[e] = None /\ InOrder({}, {}, {}, Timelines!FilesOf(e))
AtEntry(p) ==
    \E e \in Timelines!Entries :
        /\ p = << Timelines!Do("delete_entry", e, None) >>
        /\ budgets[e] = None /\ InOrder({}, {}, {}, Timelines!FilesOf(e))

Planned(p) ==
    \/ AtQuiet(p) \/ AtMaintenance(p) \/ AtNewBudget(p) \/ AtInsert(p) \/ AtUpload(p) \/ AtInsertRow(p)
    \/ AtRecordFiles(p) \/ AtRecord(p) \/ AtAttachment(p) \/ AtRow(p) \/ AtStore(p) \/ AtSaveRow(p)
    \/ AtUnlink(p) \/ AtText(p) \/ AtBudget(p) \/ AtBudgetGoes(p) \/ AtEntryFiles(p) \/ AtEntry(p)

\* As long as no request was cut short.
EntryInv ==
    /\ stops \in Nat
    /\ stops = 0 => (\A s \in Slots : Planned(tasks[s])) /\ (Slots = {} => AllInOrder)

LEMMA HeadOne == ASSUME NEW x PROVE Head(<<x>>) = x /\ Tail(<<x>>) = << >> /\ <<x>> # << >>
OBVIOUS
LEMMA HeadTwo == ASSUME NEW x, NEW y PROVE Head(<<x, y>>) = x /\ Tail(<<x, y>>) = <<y>> /\ <<x, y>> # << >>
OBVIOUS
LEMMA HeadThree ==
  ASSUME NEW x, NEW y, NEW z
  PROVE  Head(<<x, y, z>>) = x /\ Tail(<<x, y, z>>) = <<y, z>> /\ <<x, y, z>> # << >>
OBVIOUS
LEMMA JoinEmpty == ASSUME NEW T, NEW q \in Seq(T) PROVE << >> \o q = q /\ q \o << >> = q
BY ConcatEmptySeq

\* The list of r is that of a followed by that of b.
LEMMA Joins ==
  ASSUME NEW T, NEW a \in Seq(T), NEW b \in Seq(T), NEW r \in Seq(T), Len(r) = Len(a) + Len(b),
         \A i \in 1..Len(a) : r[i] = a[i], \A i \in (Len(a) + 1)..Len(r) : r[i] = b[i - Len(a)]
  PROVE  a \o b = r
<1>1. Len(a) \in Nat /\ Len(b) \in Nat
  BY LenProperties
<1>2. PICK c : c = a \o b
  OBVIOUS
<1>3. /\ c \in Seq(T) /\ Len(c) = Len(a) + Len(b)
      /\ \A i \in 1..(Len(a) + Len(b)) : c[i] = IF i <= Len(a) THEN a[i] ELSE b[i - Len(a)]
  BY <1>2, ConcatProperties
<1>4. ASSUME NEW i \in 1..Len(c) PROVE c[i] = r[i]
  <2>1. i \in 1..(Len(a) + Len(b)) /\ i \in Int
    BY <1>1, <1>3
  <2>2. CASE i <= Len(a)
    <3>1. i \in 1..Len(a)
      BY <1>1, <2>1, <2>2
    <3>2. c[i] = a[i]
      BY <1>3, <2>1, <2>2
    <3>3. QED
      BY <3>1, <3>2
  <2>3. CASE ~ (i <= Len(a))
    <3>1. i \in (Len(a) + 1)..Len(r)
      BY <1>1, <2>1, <2>3
    <3>2. c[i] = b[i - Len(a)]
      BY <1>3, <2>1, <2>3
    <3>3. QED
      BY <3>1, <3>2
  <2>4. QED
    BY <2>2, <2>3
<1>5. c = r
  BY <1>3, <1>4, SeqEqual
<1>6. QED
  BY <1>2, <1>5

LEMMA JoinOne == ASSUME NEW x, NEW y PROVE << >> \o <<y>> = <<y>> /\ <<x>> \o << >> = <<x>> /\ <<x>> \o <<y>> = <<x, y>>
<1>1. PICK a, b, c : a = <<x>> /\ b = <<y>> /\ c = <<x, y>>
  OBVIOUS
<1>2. a \in Seq({x, y}) /\ b \in Seq({x, y}) /\ c \in Seq({x, y}) /\ Len(a) = 1 /\ Len(b) = 1 /\ Len(c) = 2
      /\ a[1] = x /\ b[1] = y /\ c[1] = x /\ c[2] = y
  BY <1>1
<1>3. << >> \o b = b /\ a \o << >> = a
  BY <1>2, JoinEmpty
<1>4. \A i \in 1..Len(a) : c[i] = a[i]
  BY <1>2
<1>5. \A i \in (Len(a) + 1)..Len(c) : c[i] = b[i - Len(a)]
  BY <1>2
<1>6. a \o b = c
  <2>1. PICK T : T = {x, y}
    OBVIOUS
  <2>2. a \in Seq(T) /\ b \in Seq(T) /\ c \in Seq(T)
    BY <1>2, <2>1
  <2>3. Len(c) = Len(a) + Len(b)
    BY <1>2
  <2>4. QED
    BY ONLY <1>4, <1>5, <2>2, <2>3, Joins
<1>7. QED
  BY <1>1, <1>3, <1>6

LEMMA JoinTwo ==
  ASSUME NEW x, NEW y, NEW z
  PROVE  /\ <<x, y>> \o << >> = <<x, y>> /\ << >> \o <<x, y>> = <<x, y>>
         /\ <<x>> \o <<y, z>> = <<x, y, z>> /\ <<x, y>> \o <<z>> = <<x, y, z>>
<1>1. PICK a, b, c, d, r : a = <<x>> /\ b = <<y, z>> /\ c = <<x, y>> /\ d = <<z>> /\ r = <<x, y, z>>
  OBVIOUS
<1>2. a \in Seq({x, y, z}) /\ b \in Seq({x, y, z}) /\ c \in Seq({x, y, z}) /\ d \in Seq({x, y, z}) /\ r \in Seq({x, y, z})
      /\ Len(a) = 1 /\ Len(b) = 2 /\ Len(c) = 2 /\ Len(d) = 1 /\ Len(r) = 3
      /\ a[1] = x /\ b[1] = y /\ b[2] = z /\ c[1] = x /\ c[2] = y /\ d[1] = z /\ r[1] = x /\ r[2] = y /\ r[3] = z
  BY <1>1
<1>3. << >> \o c = c /\ c \o << >> = c
  BY <1>2, JoinEmpty
<1>4. a \o b = r
  <2>1. \A i \in 1..Len(a) : r[i] = a[i]
    BY <1>2
  <2>2. \A i \in (Len(a) + 1)..Len(r) : r[i] = b[i - Len(a)]
    BY <1>2
  <2>3. PICK T : T = {x, y, z}
    OBVIOUS
  <2>4. a \in Seq(T) /\ b \in Seq(T) /\ r \in Seq(T) /\ Len(r) = Len(a) + Len(b)
    BY <1>2, <2>3
  <2>5. QED
    BY ONLY <2>1, <2>2, <2>4, Joins
<1>5. c \o d = r
  <2>1. \A i \in 1..Len(c) : r[i] = c[i]
    BY <1>2
  <2>2. \A i \in (Len(c) + 1)..Len(r) : r[i] = d[i - Len(c)]
    BY <1>2
  <2>3. PICK T : T = {x, y, z}
    OBVIOUS
  <2>4. c \in Seq(T) /\ d \in Seq(T) /\ r \in Seq(T) /\ Len(r) = Len(c) + Len(d)
    BY <1>2, <2>3
  <2>5. QED
    BY ONLY <2>1, <2>2, <2>4, Joins
<1>6. QED
  BY <1>1, <1>3, <1>4, <1>5

LEMMA DoIs ==
  ASSUME NEW what, NEW id, NEW row, NEW x, x = Timelines!Do(what, id, row)
  PROVE  x.do = what /\ x.id = id /\ x.row = row /\ x.files = {}
BY DEF Timelines!Do

LEMMA FilesAre ==
  ASSUME NEW what, NEW id, NEW F, NEW x, x = Timelines!DoFiles(what, id, F)
  PROVE  /\ x.do = what /\ x.id = id /\ x.row = None /\ x.files = F
         /\ \A f, y : y = [x EXCEPT !.row = f] => y.do = what /\ y.id = id /\ y.row = f /\ y.files = F
BY DEF Timelines!DoFiles, Timelines!Do

LEMMA StartsOne ==
  ASSUME NEW p, NEW what, NEW x, x.do = what, p = <<x>> PROVE p # << >> /\ Head(p).do = what
BY HeadOne
LEMMA StartsTwo ==
  ASSUME NEW p, NEW what, NEW x, NEW y, x.do = what, p = <<x, y>> PROVE p # << >> /\ Head(p).do = what
BY HeadTwo
LEMMA StartsThree ==
  ASSUME NEW p, NEW what, NEW x, NEW y, NEW z, x.do = what, p = <<x, y, z>> PROVE p # << >> /\ Head(p).do = what
BY HeadThree

\* The first statement says which plan a request follows.
Begins(p, what) == p # << >> /\ Head(p).do = what

LEMMA PlanHeads ==
  ASSUME NEW p
  PROVE  /\ AtQuiet(p) /\ p # << >> => Head(p).do \in Quiets
         /\ AtMaintenance(p) => Begins(p, "save_maintenance")
         /\ AtNewBudget(p) => Begins(p, "save_budget")
         /\ AtInsert(p) => Begins(p, "insert_entry")
         /\ AtUpload(p) => Begins(p, "upload")
         /\ AtInsertRow(p) => Begins(p, "insert_row")
         /\ AtRecordFiles(p) => Begins(p, "unlink")
         /\ AtRecord(p) => Begins(p, "delete_record")
         /\ AtAttachment(p) => Begins(p, "unlink")
         /\ AtRow(p) => Begins(p, "delete_row")
         /\ AtStore(p) => Begins(p, "store")
         /\ AtSaveRow(p) => Begins(p, "save_row")
         /\ AtUnlink(p) => Begins(p, "unlink")
         /\ AtText(p) => Begins(p, "save_entry")
         /\ AtBudget(p) => Begins(p, "save_budget")
         /\ AtBudgetGoes(p) => Begins(p, "delete_budget")
         /\ AtEntryFiles(p) => Begins(p, "unlink")
         /\ AtEntry(p) => Begins(p, "delete_entry")
<1>1. AtQuiet(p) /\ p # << >> => Head(p).do \in Quiets
  <2>1. SUFFICES ASSUME AtQuiet(p), p # << >> PROVE Head(p).do \in Quiets
    OBVIOUS
  <2>2. Len(p) \in Nat \ {0} /\ Head(p) = p[1]
    BY <2>1, EmptySeq, LenProperties DEF AtQuiet
  <2>3. QED
    BY <2>1, <2>2 DEF AtQuiet
<1>2. ASSUME AtMaintenance(p) PROVE Begins(p, "save_maintenance")
  <2>1. \E x : p = <<x>> /\ x.do = "save_maintenance"
    BY <1>2, DoIs DEF AtMaintenance
  <2>2. QED
    BY <2>1, StartsOne DEF Begins
<1>3. ASSUME AtNewBudget(p) PROVE Begins(p, "save_budget")
  <2>1. \E x, y, z : p = <<x, y, z>> /\ x.do = "save_budget"
    BY <1>3, DoIs DEF AtNewBudget
  <2>2. QED
    BY <2>1, StartsThree DEF Begins
<1>4. ASSUME AtInsert(p) PROVE Begins(p, "insert_entry")
  <2>1. \E x, y : p = <<x, y>> /\ x.do = "insert_entry"
    BY <1>4, DoIs DEF AtInsert
  <2>2. QED
    BY <2>1, StartsTwo DEF Begins
<1>5. ASSUME AtUpload(p) PROVE Begins(p, "upload")
  <2>1. \E x : p = <<x>> /\ x.do = "upload"
    BY <1>5, FilesAre DEF AtUpload
  <2>2. QED
    BY <2>1, StartsOne DEF Begins
<1>6. ASSUME AtInsertRow(p) PROVE Begins(p, "insert_row")
  <2>1. \E x, y : p = <<x, y>> /\ x.do = "insert_row"
    BY <1>6, FilesAre DEF AtInsertRow
  <2>2. QED
    BY <2>1, StartsTwo DEF Begins
<1>7. ASSUME AtRecordFiles(p) PROVE Begins(p, "unlink")
  <2>1. \E x, y : p = <<x, y>> /\ x.do = "unlink"
    BY <1>7, FilesAre DEF AtRecordFiles
  <2>2. QED
    BY <2>1, StartsTwo DEF Begins
<1>8. ASSUME AtRecord(p) PROVE Begins(p, "delete_record")
  <2>1. \E x : p = <<x>> /\ x.do = "delete_record"
    BY <1>8, DoIs DEF AtRecord
  <2>2. QED
    BY <2>1, StartsOne DEF Begins
<1>9. ASSUME AtAttachment(p) PROVE Begins(p, "unlink")
  <2>1. \E x, y : p = <<x, y>> /\ x.do = "unlink"
    BY <1>9, FilesAre DEF AtAttachment
  <2>2. QED
    BY <2>1, StartsTwo DEF Begins
<1>10. ASSUME AtRow(p) PROVE Begins(p, "delete_row")
  <2>1. \E x : p = <<x>> /\ x.do = "delete_row"
    BY <1>10, FilesAre DEF AtRow
  <2>2. QED
    BY <2>1, StartsOne DEF Begins
<1>11. ASSUME AtStore(p) PROVE Begins(p, "store")
  <2>1. PICK e \in Timelines!Entries, f \in Timelines!Files, g \in Timelines!Files :
              p = << Timelines!DoFiles("store", e, {g}), [Timelines!DoFiles("save_row", e, {g}) EXCEPT !.row = f],
                     Timelines!DoFiles("unlink", e, {f}) >>
    BY <1>11 DEF AtStore
  <2>2. PICK x, y, z : x = Timelines!DoFiles("store", e, {g}) /\ p = <<x, y, z>>
    BY <2>1
  <2>3. x.do = "store"
    BY <2>2, FilesAre
  <2>4. QED
    BY <2>2, <2>3, StartsThree DEF Begins
<1>12. ASSUME AtSaveRow(p) PROVE Begins(p, "save_row")
  <2>1. PICK e \in Timelines!Entries, f \in Timelines!Files, g \in Timelines!Files :
              p = << [Timelines!DoFiles("save_row", e, {g}) EXCEPT !.row = f], Timelines!DoFiles("unlink", e, {f}) >>
    BY <1>12 DEF AtSaveRow
  <2>2. PICK w, x, y : w = Timelines!DoFiles("save_row", e, {g}) /\ x = [w EXCEPT !.row = f] /\ p = <<x, y>>
    BY <2>1
  <2>3. x.do = "save_row"
    BY <2>2, FilesAre
  <2>4. QED
    BY <2>2, <2>3, StartsTwo DEF Begins
<1>13. ASSUME AtUnlink(p) PROVE Begins(p, "unlink")
  <2>1. \E x : p = <<x>> /\ x.do = "unlink"
    BY <1>13, FilesAre DEF AtUnlink
  <2>2. QED
    BY <2>1, StartsOne DEF Begins
<1>14. ASSUME AtText(p) PROVE Begins(p, "save_entry")
  <2>1. \E x : p = <<x>> /\ x.do = "save_entry"
    BY <1>14, DoIs DEF AtText
  <2>2. QED
    BY <2>1, StartsOne DEF Begins
<1>15. ASSUME AtBudget(p) PROVE Begins(p, "save_budget")
  <2>1. \E x, y : p = <<x, y>> /\ x.do = "save_budget"
    BY <1>15, DoIs DEF AtBudget
  <2>2. QED
    BY <2>1, StartsTwo DEF Begins
<1>16. ASSUME AtBudgetGoes(p) PROVE Begins(p, "delete_budget")
  <2>1. \E x, y : p = <<x, y>> /\ x.do = "delete_budget"
    BY <1>16, DoIs DEF AtBudgetGoes
  <2>2. QED
    BY <2>1, StartsTwo DEF Begins
<1>17. ASSUME AtEntryFiles(p) PROVE Begins(p, "unlink")
  <2>1. \E x, y : p = <<x, y>> /\ x.do = "unlink"
    BY <1>17, FilesAre DEF AtEntryFiles
  <2>2. QED
    BY <2>1, StartsTwo DEF Begins
<1>18. ASSUME AtEntry(p) PROVE Begins(p, "delete_entry")
  <2>1. \E x : p = <<x>> /\ x.do = "delete_entry"
    BY <1>18, DoIs DEF AtEntry
  <2>2. QED
    BY <2>1, StartsOne DEF Begins
<1>19. QED
  BY <1>1, <1>2, <1>3, <1>4, <1>5, <1>6, <1>7, <1>8, <1>9, <1>10, <1>11, <1>12, <1>13, <1>14, <1>15, <1>16, <1>17, <1>18

LEMMA PlanAt ==
  ASSUME NEW p, Planned(p), p # << >>
  PROVE  /\ Head(p).do \in Quiets => AtQuiet(p)
         /\ Head(p).do = "save_maintenance" => AtMaintenance(p)
         /\ Head(p).do = "save_budget" => AtNewBudget(p) \/ AtBudget(p)
         /\ Head(p).do = "insert_entry" => AtInsert(p)
         /\ Head(p).do = "upload" => AtUpload(p)
         /\ Head(p).do = "insert_row" => AtInsertRow(p)
         /\ Head(p).do = "unlink" => AtRecordFiles(p) \/ AtAttachment(p) \/ AtUnlink(p) \/ AtEntryFiles(p)
         /\ Head(p).do = "delete_record" => AtRecord(p)
         /\ Head(p).do = "delete_row" => AtRow(p)
         /\ Head(p).do = "store" => AtStore(p)
         /\ Head(p).do = "save_row" => AtSaveRow(p)
         /\ Head(p).do = "save_entry" => AtText(p)
         /\ Head(p).do = "delete_budget" => AtBudgetGoes(p)
         /\ Head(p).do = "delete_entry" => AtEntry(p)
<1>1. Head(p).do \in Quiets => AtQuiet(p)
  BY PlanHeads DEF Planned, Begins, Quiets
<1>2. Head(p).do = "save_maintenance" => AtMaintenance(p)
  BY PlanHeads DEF Planned, Begins, Quiets
<1>3. Head(p).do = "save_budget" => AtNewBudget(p) \/ AtBudget(p)
  BY PlanHeads DEF Planned, Begins, Quiets
<1>4. Head(p).do = "insert_entry" => AtInsert(p)
  BY PlanHeads DEF Planned, Begins, Quiets
<1>5. Head(p).do = "upload" => AtUpload(p)
  BY PlanHeads DEF Planned, Begins, Quiets
<1>6. Head(p).do = "insert_row" => AtInsertRow(p)
  BY PlanHeads DEF Planned, Begins, Quiets
<1>7. Head(p).do = "unlink" => AtRecordFiles(p) \/ AtAttachment(p) \/ AtUnlink(p) \/ AtEntryFiles(p)
  BY PlanHeads DEF Planned, Begins, Quiets
<1>8. Head(p).do = "delete_record" => AtRecord(p)
  BY PlanHeads DEF Planned, Begins, Quiets
<1>9. Head(p).do = "delete_row" => AtRow(p)
  BY PlanHeads DEF Planned, Begins, Quiets
<1>10. Head(p).do = "store" => AtStore(p)
  BY PlanHeads DEF Planned, Begins, Quiets
<1>11. Head(p).do = "save_row" => AtSaveRow(p)
  BY PlanHeads DEF Planned, Begins, Quiets
<1>12. Head(p).do = "save_entry" => AtText(p)
  BY PlanHeads DEF Planned, Begins, Quiets
<1>13. Head(p).do = "delete_budget" => AtBudgetGoes(p)
  BY PlanHeads DEF Planned, Begins, Quiets
<1>14. Head(p).do = "delete_entry" => AtEntry(p)
  BY PlanHeads DEF Planned, Begins, Quiets
<1>15. QED
  BY <1>1, <1>2, <1>3, <1>4, <1>5, <1>6, <1>7, <1>8, <1>9, <1>10, <1>11, <1>12, <1>13, <1>14

LEMMA OrderSame ==
  ASSUME NEW a, NEW b, NEW c, NEW d, InOrder(a, b, c, d), UNCHANGED <<works, maintenances, entries, budgets, rows, stored>>
  PROVE  InOrder(a, b, c, d)'
BY DEF InOrder, Placed, Speaks, Keeps, Timelines!Exists, Timelines!FilesOf

LEMMA OrderMore ==
  ASSUME NEW a, NEW b, NEW c, NEW d, NEW x, NEW y, NEW z, NEW w, InOrder(a, b, c, d),
         a \subseteq x, b \subseteq y, c \subseteq z, d \subseteq w
  PROVE  InOrder(x, y, z, w)
BY DEF InOrder, Speaks, Keeps

LEMMA AllSame ==
  ASSUME AllInOrder, UNCHANGED <<works, maintenances, entries, budgets, rows, stored>> PROVE AllInOrder'
BY OrderSame DEF AllInOrder

\* A request goes on as planned.
Onward(s) == \E q : tasks' = [tasks EXCEPT ![s] = q] /\ Planned(q)'

LEMMA EntryMove ==
  ASSUME OneForm, LinkInv, EntryInv, NEW s \in Slots, stops' = stops, stops = 0 => Onward(s)
  PROVE  EntryInv'
<1>1. CASE stops = 0
  <2>1. PICK q : tasks' = [tasks EXCEPT ![s] = q] /\ Planned(q)'
    BY <1>1 DEF Onward
  <2>2. \A r \in Slots : tasks'[r] = q
    BY <2>1 DEF LinkInv, TimelineTables, OneForm
  <2>3. \A r \in Slots : Planned(tasks[r])'
    BY <2>1, <2>2
  <2>4. QED
    BY <2>3 DEF EntryInv
<1>2. CASE stops # 0
  BY <1>2 DEF EntryInv
<1>3. QED
  BY <1>1, <1>2

\* Nothing is left to do.
LEMMA PlanEmpty == ASSUME NEW p, Planned(p), p = << >> PROVE AllInOrder
<1>1. AtQuiet(p)
  BY PlanHeads DEF Planned, Begins
<1>2. QED
  BY <1>1 DEF AtQuiet

LEMMA PlanDone == ASSUME NEW p, p = << >> PROVE (AllInOrder => Planned(p)) /\ (AllInOrder' => Planned(p)')
<1>1. p \in Seq({}) /\ Len(p) = 0
  OBVIOUS
<1>2. AllInOrder => AtQuiet(p)
  BY <1>1 DEF AtQuiet
<1>3. AllInOrder' => AtQuiet(p)'
  BY <1>1 DEF AtQuiet
<1>4. QED
  BY <1>2, <1>3 DEF Planned

\* What is left after the first statement.
LEMMA DoneTo ==
  ASSUME NEW s, Timelines!Done(s)
  PROVE  /\ stops' = stops /\ engine' = engine
         /\ \A x : tasks[s] = <<x>> => tasks' = [tasks EXCEPT ![s] = << >>]
         /\ \A x, y : tasks[s] = <<x, y>> => tasks' = [tasks EXCEPT ![s] = <<y>>]
         /\ \A x, y, z : tasks[s] = <<x, y, z>> => tasks' = [tasks EXCEPT ![s] = <<y, z>>]
<1>1. tasks' = [tasks EXCEPT ![s] = << >> \o Tail(tasks[s])] /\ stops' = stops /\ engine' = engine
  BY DEF Timelines!Done, Timelines!Goes, Timelines!control
<1>2. ASSUME NEW x, tasks[s] = <<x>> PROVE tasks' = [tasks EXCEPT ![s] = << >>]
  <2>1. Tail(tasks[s]) = << >> /\ << >> \o << >> = << >>
    BY <1>2, HeadOne
  <2>2. QED
    BY <1>1, <2>1
<1>3. ASSUME NEW x, NEW y, tasks[s] = <<x, y>> PROVE tasks' = [tasks EXCEPT ![s] = <<y>>]
  <2>1. Tail(tasks[s]) = <<y>> /\ << >> \o <<y>> = <<y>>
    BY <1>3, HeadTwo, JoinOne
  <2>2. QED
    BY <1>1, <2>1
<1>4. ASSUME NEW x, NEW y, NEW z, tasks[s] = <<x, y, z>> PROVE tasks' = [tasks EXCEPT ![s] = <<y, z>>]
  <2>1. Tail(tasks[s]) = <<y, z>> /\ << >> \o <<y, z>> = <<y, z>>
    BY <1>4, HeadThree, JoinTwo
  <2>2. QED
    BY <1>1, <2>1
<1>5. QED
  BY <1>1, <1>2, <1>3, <1>4

\* The statement a request is at.
LEMMA NowAt ==
  ASSUME NEW s, NEW what, ~ Timelines!Idle(s), Timelines!Now(s).do = what
  PROVE  tasks[s] # << >> /\ Head(tasks[s]).do = what
BY DEF Timelines!Idle, Timelines!Now

\* Statements that leave the entries alone.
LEMMA QuietOn ==
  ASSUME NEW s, AtQuiet(tasks[s]), tasks[s] # << >>,
         NEW U, NEW first \in Seq(U), \A i \in 1..Len(first) : first[i].do \in Quiets,
         tasks' = [tasks EXCEPT ![s] = first \o Tail(tasks[s])], AllInOrder'
  PROVE  Onward(s)
<1>1. PICK p, T, r : p = tasks[s] /\ p \in Seq(T) /\ r = Tail(p)
  BY DEF AtQuiet
<1>2. /\ r \in Seq(T) /\ Len(p) \in Nat \ {0} /\ Len(r) = Len(p) - 1 /\ \A i \in 1..(Len(p) - 1) : r[i] = p[i + 1]
  BY <1>1, HeadTailProperties, EmptySeq, LenProperties
<1>3. \A i \in 1..Len(p) : p[i].do \in Quiets
  BY <1>1 DEF AtQuiet
<1>4. r \in Seq(T \cup U) /\ first \in Seq(T \cup U) /\ Len(first) \in Nat /\ Len(r) \in Nat
  BY <1>2, SeqMonotonic, LenProperties
<1>5. PICK q : q = first \o r
  OBVIOUS
<1>6. /\ q \in Seq(T \cup U) /\ Len(q) = Len(first) + Len(r)
      /\ \A i \in 1..(Len(first) + Len(r)) : q[i] = IF i <= Len(first) THEN first[i] ELSE r[i - Len(first)]
  BY <1>4, <1>5, ConcatProperties
<1>7. ASSUME NEW i \in 1..Len(q) PROVE q[i].do \in Quiets
  <2>1. CASE i <= Len(first)
    <3>1. i \in 1..Len(first) /\ q[i] = first[i]
      BY <1>4, <1>6, <2>1
    <3>2. QED
      BY <3>1
  <2>2. CASE ~ (i <= Len(first))
    <3>1. PICK k : k = i - Len(first)
      OBVIOUS
    <3>2. k \in 1..(Len(p) - 1) /\ q[i] = r[k]
      BY <1>2, <1>4, <1>6, <2>2, <3>1
    <3>3. k + 1 \in 1..Len(p) /\ r[k] = p[k + 1]
      BY <1>2, <3>2
    <3>4. QED
      BY <1>3, <3>2, <3>3
  <2>3. QED
    BY <2>1, <2>2
<1>8. AtQuiet(q)'
  BY <1>6, <1>7 DEF AtQuiet
<1>9. QED
  BY <1>1, <1>5, <1>8 DEF Onward, Planned

LEMMA QuietRest ==
  ASSUME NEW s, AtQuiet(tasks[s]), ~ Timelines!Idle(s), AllInOrder',
         tasks' = [tasks EXCEPT ![s] = Tail(tasks[s])] \/ tasks' = [tasks EXCEPT ![s] = << >> \o Tail(tasks[s])]
  PROVE  Onward(s)
<1>1. PICK first : first = << >>
  OBVIOUS
<1>2. first \in Seq({}) /\ Len(first) = 0
  BY <1>1
<1>3. tasks' = [tasks EXCEPT ![s] = first \o Tail(tasks[s])]
  <2>1. PICK p, T, r : p = tasks[s] /\ p \in Seq(T) /\ r = Tail(p)
    BY DEF AtQuiet
  <2>2. r \in Seq(T)
    BY <2>1, HeadTailProperties DEF Timelines!Idle
  <2>3. << >> \o r = r
    BY <2>2, JoinEmpty
  <2>4. QED
    BY <1>1, <2>1, <2>3
<1>4. \A i \in 1..Len(first) : first[i].do \in Quiets
  BY <1>2
<1>5. QED
  BY <1>2, <1>3, <1>4, QuietOn DEF Timelines!Idle

LEMMA QuietDone ==
  ASSUME NEW s, AtQuiet(tasks[s]), ~ Timelines!Idle(s), Timelines!Done(s) \/ Timelines!Synchronised(s),
         UNCHANGED <<works, maintenances, entries, budgets, rows, stored>>
  PROVE  Onward(s)
<1>1. tasks' = [tasks EXCEPT ![s] = Tail(tasks[s])] \/ tasks' = [tasks EXCEPT ![s] = << >> \o Tail(tasks[s])]
  BY DEF Timelines!Done, Timelines!Goes, Timelines!Synchronised
<1>2. AllInOrder'
  BY AllSame DEF AtQuiet
<1>3. QED
  BY <1>1, <1>2, QuietRest

LEMMA QuietEnds ==
  ASSUME NEW s, AtQuiet(tasks[s]), Timelines!Ends(s), UNCHANGED <<works, maintenances, entries, budgets, rows, stored>>
  PROVE  Onward(s)
<1>1. tasks' = [tasks EXCEPT ![s] = << >>] /\ AllInOrder'
  BY AllSame DEF AtQuiet, Timelines!Ends
<1>2. QED
  BY <1>1, PlanDone DEF Onward

(***************************************************************************)
(* What each statement leaves to do.                                       *)
(***************************************************************************)

LEMMA FilesStay ==
  ASSUME rows' = rows PROVE \A e : Timelines!FilesOf(e)' = Timelines!FilesOf(e)
BY DEF Timelines!FilesOf

LEMMA FreeStays ==
  ASSUME NEW F, Free(F), rows' = rows PROVE Free(F)'
BY DEF Free

LEMMA EntrySaveMaintenance ==
  ASSUME TimelineParameters, NEW s \in Slots, Planned(tasks[s]), Timelines!SaveMaintenance(s)
  PROVE  Onward(s)
<1>1. /\ ~ Timelines!Idle(s) /\ Timelines!Now(s).do = "save_maintenance" /\ Timelines!Done(s)
      /\ maintenances' = maintenances \cup {Timelines!Now(s).id}
      /\ UNCHANGED <<works, entries, budgets, rows, stored>>
  BY DEF Timelines!SaveMaintenance, Timelines!Doing
<1>2. AtMaintenance(tasks[s])
  BY <1>1, NowAt, PlanAt
<1>3. PICK m \in Maintenances :
          /\ tasks[s] = << Timelines!Do("save_maintenance", m, None) >> /\ AllInOrder
          /\ \A e \in Timelines!Entries : entries[e] # None => entries[e].of # m
  BY <1>2 DEF AtMaintenance
<1>4. maintenances' = maintenances \cup {m}
  BY <1>1, <1>3, HeadOne, DoIs DEF Timelines!Now
<1>5. AllInOrder'
  <2>1. SUFFICES ASSUME NEW e \in Timelines!Entries
                 PROVE  /\ (entries[e] # None => Placed(e) /\ Speaks(e, {}, {}) /\ Keeps(e, {}))'
                        /\ (budgets[e] # None => e \in {} \/ (entries[e] # None /\ entries[e].kind = "budget"))'
    BY DEF AllInOrder, InOrder
  <2>2. /\ entries[e] # None => Placed(e) /\ Speaks(e, {}, {}) /\ Keeps(e, {})
        /\ budgets[e] # None => e \in {} \/ (entries[e] # None /\ entries[e].kind = "budget")
    BY <1>3 DEF AllInOrder, InOrder
  <2>3. ASSUME entries[e] # None PROVE Placed(e)' /\ Speaks(e, {}, {})' /\ Keeps(e, {})'
    <3>1. Placed(e)' /\ Speaks(e, {}, {})'
      BY <1>1, <2>2, <2>3, FilesStay DEF Placed, Speaks
    <3>2. Timelines!Exists(entries[e].of)' = Timelines!Exists(entries[e].of)
      BY <1>1, <1>3, <1>4, <2>3 DEF Timelines!Exists
    <3>3. QED
      BY <1>1, <2>2, <2>3, <3>1, <3>2, FilesStay DEF Keeps
  <2>4. QED
    BY <1>1, <2>2, <2>3
<1>6. tasks' = [tasks EXCEPT ![s] = << >>]
  BY <1>1, <1>3, DoneTo
<1>7. QED
  BY <1>5, <1>6, PlanDone DEF Onward

LEMMA EntryInsertRow ==
  ASSUME TimelineParameters, LinkInv, NEW s \in Slots, Planned(tasks[s]), Timelines!InsertRow(s)
  PROVE  Onward(s)
<1>1. /\ ~ Timelines!Idle(s) /\ Timelines!Now(s).do = "insert_row" /\ Timelines!Done(s)
      /\ rows' = [f \in Timelines!Files |-> IF f \in Timelines!Now(s).files THEN Timelines!Now(s).id ELSE rows[f]]
      /\ UNCHANGED <<works, maintenances, entries, budgets, stored>>
  BY DEF Timelines!InsertRow, Timelines!Doing
<1>2. AtInsertRow(tasks[s])
  BY <1>1, NowAt, PlanAt
<1>3. PICK e \in Timelines!Entries, f \in Timelines!Files, F \in SUBSET Timelines!Files :
          /\ tasks[s] = << Timelines!DoFiles("insert_row", e, {f}), Timelines!DoFiles("upload", e, F) >>
          /\ Free(F) /\ Free({f}) /\ f \in stored \ F /\ InOrder({e}, {}, {}, {})
  BY <1>2 DEF AtInsertRow
<1>4. rows' = [g \in Timelines!Files |-> IF g = f THEN e ELSE rows[g]]
  BY <1>1, <1>3, HeadTwo, FilesAre DEF Timelines!Now
<1>5. /\ \A x \in Timelines!Entries : x # e => Timelines!FilesOf(x)' = Timelines!FilesOf(x)
      /\ Timelines!FilesOf(e)' = Timelines!FilesOf(e) \cup {f}
  <2>1. None \notin Timelines!Entries /\ rows[f] = None
    BY <1>3 DEF Free, TimelineParameters
  <2>2. ASSUME NEW x \in Timelines!Entries, x # e PROVE Timelines!FilesOf(x)' = Timelines!FilesOf(x)
    BY <1>4, <2>1, <2>2 DEF Timelines!FilesOf
  <2>3. Timelines!FilesOf(e)' = Timelines!FilesOf(e) \cup {f}
    BY <1>4 DEF Timelines!FilesOf
  <2>4. QED
    BY <2>2, <2>3
<1>6. AllInOrder'
  <2>1. SUFFICES ASSUME NEW x \in Timelines!Entries
                 PROVE  /\ (entries[x] # None => Placed(x) /\ Speaks(x, {}, {}) /\ Keeps(x, {}))'
                        /\ (budgets[x] # None => x \in {} \/ (entries[x] # None /\ entries[x].kind = "budget"))'
    BY DEF AllInOrder, InOrder
  <2>2. /\ entries[x] # None => Placed(x) /\ Speaks(x, {e}, {}) /\ Keeps(x, {})
        /\ budgets[x] # None => x \in {} \/ (entries[x] # None /\ entries[x].kind = "budget")
    BY <1>3 DEF InOrder
  <2>3. ASSUME entries[x] # None PROVE Placed(x)' /\ Speaks(x, {}, {})' /\ Keeps(x, {})'
    <3>1. Placed(x)'
      BY <1>1, <2>2, <2>3 DEF Placed
    <3>2. Speaks(x, {}, {})'
      BY <1>1, <1>5, <2>2, <2>3 DEF Speaks
    <3>3. Keeps(x, {})'
      BY <1>1, <1>3, <1>5, <2>2, <2>3 DEF Keeps, Timelines!Exists
    <3>4. QED
      BY <3>1, <3>2, <3>3
  <2>4. QED
    BY <1>1, <2>2, <2>3
<1>7. Free(F)'
  BY <1>3, <1>4 DEF Free
<1>8. PICK q : q = << Timelines!DoFiles("upload", e, F) >>
  OBVIOUS
<1>9. InOrder(IF F = {} THEN {} ELSE {e}, {}, {}, {})'
  <2>1. \A b : InOrder({}, {}, {}, {})' => InOrder(b, {}, {}, {})'
    BY DEF InOrder, Speaks, Keeps
  <2>2. QED
    BY <1>6, <2>1 DEF AllInOrder
<1>10. AtUpload(q)'
  BY <1>7, <1>8, <1>9 DEF AtUpload
<1>11. tasks' = [tasks EXCEPT ![s] = q]
  BY <1>1, <1>3, <1>8, DoneTo
<1>12. QED
  BY <1>10, <1>11 DEF Onward, Planned

LEMMA EntryUpload ==
  ASSUME TimelineParameters, LinkInv, NEW s \in Slots, Planned(tasks[s]), Timelines!Upload(s)
  PROVE  Onward(s)
<1>1. ~ Timelines!Idle(s) /\ Timelines!Now(s).do = "upload" /\ UNCHANGED <<works, maintenances, entries, budgets, rows>>
  BY DEF Timelines!Upload, Timelines!Doing
<1>2. AtUpload(tasks[s])
  BY <1>1, NowAt, PlanAt
<1>3. PICK e \in Timelines!Entries, F \in SUBSET Timelines!Files :
          /\ tasks[s] = << Timelines!DoFiles("upload", e, F) >> /\ Free(F)
          /\ InOrder(IF F = {} THEN {} ELSE {e}, {}, {}, {})
  BY <1>2 DEF AtUpload
<1>4. Timelines!Now(s).files = F /\ Timelines!Now(s).id = e /\ Tail(tasks[s]) = << >>
  BY <1>3, HeadOne, FilesAre DEF Timelines!Now
<1>5. PICK f \in F : /\ stored' = stored \cup {f}
                     /\ Timelines!Goes(s, << Timelines!DoFiles("insert_row", e, {f}),
                                             Timelines!DoFiles("upload", e, F \ {f}) >>)
  BY <1>4 DEF Timelines!Upload
<1>6. PICK q : q = << Timelines!DoFiles("insert_row", e, {f}), Timelines!DoFiles("upload", e, F \ {f}) >>
  OBVIOUS
<1>7. q \o << >> = q
  BY <1>6, JoinTwo
<1>8. tasks' = [tasks EXCEPT ![s] = q]
  BY <1>4, <1>5, <1>6, <1>7 DEF Timelines!Goes
<1>9. InOrder({e}, {}, {}, {})'
  <2>1. InOrder({e}, {}, {}, {})
    BY <1>3, <1>5
  <2>2. ASSUME NEW x \in Timelines!Entries, Keeps(x, {}), entries[x] # None PROVE Keeps(x, {})'
    BY <1>1, <1>5, <2>2 DEF Keeps, Timelines!Exists, Timelines!FilesOf
  <2>3. QED
    BY <1>1, <2>1, <2>2 DEF InOrder, Placed, Speaks, Timelines!FilesOf
<1>10. Free(F \ {f})' /\ Free({f})' /\ f \in stored' \ (F \ {f})
  BY <1>1, <1>3, <1>5 DEF Free
<1>11. AtInsertRow(q)'
  BY <1>6, <1>9, <1>10, f \in Timelines!Files, F \ {f} \in SUBSET Timelines!Files DEF AtInsertRow
<1>12. QED
  BY <1>8, <1>11 DEF Onward, Planned

LEMMA EntryThrough ==
  ASSUME TimelineParameters, LinkInv, NEW s \in Slots, Planned(tasks[s]), Timelines!Through(s)
  PROVE  Onward(s)
<1>1. /\ ~ Timelines!Idle(s) /\ Timelines!Done(s) /\ UNCHANGED <<works, maintenances, entries, budgets, rows, stored>>
      /\ \/ (Timelines!Now(s).do = "upload" \/ Timelines!Now(s).do = "unlink") /\ Timelines!Now(s).files = {}
         \/ Timelines!Now(s).do = "assign"
  BY DEF Timelines!Through, Timelines!Doing, Timelines!tables
<1>2. CASE Timelines!Now(s).do = "assign"
  <2>1. AtQuiet(tasks[s])
    BY <1>1, <1>2, NowAt, PlanAt DEF Quiets
  <2>2. QED
    BY <1>1, <2>1, QuietDone
<1>3. CASE Timelines!Now(s).do = "upload" /\ Timelines!Now(s).files = {}
  <2>1. AtUpload(tasks[s])
    BY <1>1, <1>3, NowAt, PlanAt
  <2>2. PICK e \in Timelines!Entries, F \in SUBSET Timelines!Files :
          /\ tasks[s] = << Timelines!DoFiles("upload", e, F) >> /\ Free(F)
          /\ InOrder(IF F = {} THEN {} ELSE {e}, {}, {}, {})
    BY <2>1 DEF AtUpload
  <2>3. F = {}
    BY <1>3, <2>2, HeadOne, FilesAre DEF Timelines!Now
  <2>4. AllInOrder
    BY <2>2, <2>3 DEF AllInOrder
  <2>5. tasks' = [tasks EXCEPT ![s] = << >>]
    BY <1>1, <2>2, DoneTo
  <2>6. QED
    BY <1>1, <2>4, <2>5, AllSame, PlanDone DEF Onward
<1>4. CASE Timelines!Now(s).do = "unlink" /\ Timelines!Now(s).files = {}
  <2>1. AtRecordFiles(tasks[s]) \/ AtAttachment(tasks[s]) \/ AtUnlink(tasks[s]) \/ AtEntryFiles(tasks[s])
    BY <1>1, <1>4, NowAt, PlanAt
  <2>2. CASE AtRecordFiles(tasks[s])
    <3>1. PICK r \in Works \cup Maintenances, F \in SUBSET Timelines!Files :
              /\ tasks[s] = << Timelines!DoFiles("unlink", None, F), Timelines!Do("delete_record", r, None) >>
              /\ F \subseteq FilesAt(r) /\ InOrder({}, {}, {}, FilesAt(r))
      BY <2>2 DEF AtRecordFiles
    <3>2. PICK q, L : q = << Timelines!Do("delete_record", r, None) >> /\ L = FilesAt(r)
      OBVIOUS
    <3>3. tasks' = [tasks EXCEPT ![s] = q]
      BY <1>1, <3>1, <3>2, DoneTo
    <3>4. InOrder({}, {}, {}, L)' /\ FilesAt(r)' = L
      BY <1>1, <3>1, <3>2, OrderSame DEF FilesAt
    <3>5. AtRecord(q)'
      BY <3>2, <3>4 DEF AtRecord
    <3>6. QED
      BY <3>3, <3>5 DEF Onward, Planned
  <2>3. CASE AtAttachment(tasks[s])
    <3>1. PICK e \in Timelines!Entries, f \in Timelines!Files, F \in SUBSET Timelines!Files :
              /\ tasks[s] = << Timelines!DoFiles("unlink", e, F), Timelines!DoFiles("delete_row", e, {f}) >>
              /\ F \subseteq {f} /\ Spares(e, f)
      BY <2>3 DEF AtAttachment
    <3>2. PICK q : q = << Timelines!DoFiles("delete_row", e, {f}) >>
      OBVIOUS
    <3>3. tasks' = [tasks EXCEPT ![s] = q]
      BY <1>1, <3>1, <3>2, DoneTo
    <3>4. Spares(e, f)'
      BY <1>1, <3>1, OrderSame DEF Spares, Timelines!Spare, Timelines!FilesOf
    <3>5. AtRow(q)'
      BY <3>2, <3>4 DEF AtRow
    <3>6. QED
      BY <3>3, <3>5 DEF Onward, Planned
  <2>4. CASE AtUnlink(tasks[s])
    <3>1. \E x : tasks[s] = <<x>> /\ AllInOrder
      BY <2>4 DEF AtUnlink
    <3>2. tasks' = [tasks EXCEPT ![s] = << >>]
      BY <1>1, <3>1, DoneTo
    <3>3. QED
      BY <1>1, <3>1, <3>2, AllSame, PlanDone DEF Onward
  <2>5. CASE AtEntryFiles(tasks[s])
    <3>1. PICK e \in Timelines!Entries, F \in SUBSET Timelines!Files :
              /\ tasks[s] = << Timelines!DoFiles("unlink", e, F), Timelines!Do("delete_entry", e, None) >>
              /\ F \subseteq Timelines!FilesOf(e) /\ budgets[e] = None /\ InOrder({}, {}, {}, Timelines!FilesOf(e))
      BY <2>5 DEF AtEntryFiles
    <3>2. PICK q, L : q = << Timelines!Do("delete_entry", e, None) >> /\ L = Timelines!FilesOf(e)
      OBVIOUS
    <3>3. tasks' = [tasks EXCEPT ![s] = q]
      BY <1>1, <3>1, <3>2, DoneTo
    <3>4. InOrder({}, {}, {}, L)' /\ Timelines!FilesOf(e)' = L
      BY <1>1, <3>1, <3>2, OrderSame, FilesStay
    <3>5. AtEntry(q)'
      BY <1>1, <3>1, <3>2, <3>4 DEF AtEntry
    <3>6. QED
      BY <3>3, <3>5 DEF Onward, Planned
  <2>6. QED
    BY <2>1, <2>2, <2>3, <2>4, <2>5
<1>5. QED
  BY <1>1, <1>2, <1>3, <1>4

\* A file goes that is about to lose its attachment, or has none.
LEMMA LosesFile ==
  ASSUME NEW L, InOrder({}, {}, {}, L), NEW f, f \in L, stored' = stored \ {f},
         UNCHANGED <<works, maintenances, entries, budgets, rows>>
  PROVE  InOrder({}, {}, {}, L)'
<1>1. ASSUME NEW e, Keeps(e, L) PROVE Keeps(e, L)'
  BY <1>1 DEF Keeps, Timelines!Exists, Timelines!FilesOf
<1>2. ASSUME NEW e PROVE (Placed(e) => Placed(e)') /\ (Speaks(e, {}, {}) => Speaks(e, {}, {})')
  BY FilesStay DEF Placed, Speaks
<1>3. QED
  BY <1>1, <1>2 DEF InOrder

LEMMA FreeFileGoes ==
  ASSUME TimelineParameters, AllInOrder, NEW f \in Timelines!Files, rows[f] = None, stored' = stored \ {f},
         UNCHANGED <<works, maintenances, entries, budgets, rows>>
  PROVE  AllInOrder'
<1>1. None \notin Timelines!Entries
  BY DEF TimelineParameters
<1>2. ASSUME NEW e \in Timelines!Entries, Keeps(e, {}) PROVE Keeps(e, {})'
  BY <1>1, <1>2 DEF Keeps, Timelines!Exists, Timelines!FilesOf
<1>3. ASSUME NEW e PROVE (Placed(e) => Placed(e)') /\ (Speaks(e, {}, {}) => Speaks(e, {}, {})')
  BY FilesStay DEF Placed, Speaks
<1>4. QED
  BY <1>2, <1>3 DEF AllInOrder, InOrder

LEMMA EntryUnlink ==
  ASSUME TimelineParameters, LinkInv, NEW s \in Slots, Planned(tasks[s]), Timelines!Unlink(s)
  PROVE  Onward(s)
<1>1. ~ Timelines!Idle(s) /\ Timelines!Now(s).do = "unlink" /\ UNCHANGED <<works, maintenances, entries, budgets, rows>>
  BY DEF Timelines!Unlink, Timelines!Doing
<1>2. PICK f \in Timelines!Now(s).files :
          /\ stored' = stored \ {f}
          /\ Timelines!Goes(s, << Timelines!DoFiles("unlink", Timelines!Now(s).id, Timelines!Now(s).files \ {f}) >>)
  BY DEF Timelines!Unlink
<1>3. AtRecordFiles(tasks[s]) \/ AtAttachment(tasks[s]) \/ AtUnlink(tasks[s]) \/ AtEntryFiles(tasks[s])
  BY <1>1, NowAt, PlanAt
<1>4. ASSUME NEW e, NEW F, NEW y, tasks[s] = << Timelines!DoFiles("unlink", e, F), y >>
      PROVE  f \in F /\ tasks' = [tasks EXCEPT ![s] = << Timelines!DoFiles("unlink", e, F \ {f}), y >>]
  <2>1. PICK x : x = Timelines!DoFiles("unlink", e, F)
    OBVIOUS
  <2>2. x.id = e /\ x.files = F
    BY <2>1, FilesAre
  <2>3. tasks[s] = <<x, y>>
    BY <1>4, <2>1
  <2>4. Timelines!Now(s) = x /\ Tail(tasks[s]) = <<y>>
    BY <2>3, HeadTwo DEF Timelines!Now
  <2>5. PICK z : z = Timelines!DoFiles("unlink", e, F \ {f})
    OBVIOUS
  <2>6. Timelines!Goes(s, <<z>>)
    BY <1>2, <2>2, <2>4, <2>5
  <2>7. tasks' = [tasks EXCEPT ![s] = <<z>> \o Tail(tasks[s])] /\ <<z>> \o <<y>> = <<z, y>>
    BY <2>6, JoinOne DEF Timelines!Goes
  <2>8. tasks' = [tasks EXCEPT ![s] = <<z, y>>]
    BY <2>4, <2>7
  <2>9. QED
    BY <1>2, <2>2, <2>4, <2>5, <2>8
<1>5. CASE AtRecordFiles(tasks[s])
  <2>1. PICK r \in Works \cup Maintenances, F \in SUBSET Timelines!Files :
            /\ tasks[s] = << Timelines!DoFiles("unlink", None, F), Timelines!Do("delete_record", r, None) >>
            /\ F \subseteq FilesAt(r) /\ InOrder({}, {}, {}, FilesAt(r))
    BY <1>5 DEF AtRecordFiles
  <2>2. PICK q, L : /\ q = << Timelines!DoFiles("unlink", None, F \ {f}), Timelines!Do("delete_record", r, None) >>
                    /\ L = FilesAt(r)
    OBVIOUS
  <2>3. f \in F /\ tasks' = [tasks EXCEPT ![s] = q]
    BY <1>4, <2>1, <2>2
  <2>4. FilesAt(r)' = L
    BY <1>1, <2>2 DEF FilesAt
  <2>5. InOrder({}, {}, {}, L)'
    BY <1>1, <1>2, <2>1, <2>2, <2>3, LosesFile
  <2>6. F \ {f} \in SUBSET Timelines!Files /\ F \ {f} \subseteq L
    BY <2>1, <2>2
  <2>7. AtRecordFiles(q)'
    BY <2>2, <2>4, <2>5, <2>6 DEF AtRecordFiles
  <2>8. QED
    BY <2>3, <2>7 DEF Onward, Planned
<1>6. CASE AtAttachment(tasks[s])
  <2>1. PICK e \in Timelines!Entries, g \in Timelines!Files, F \in SUBSET Timelines!Files :
            /\ tasks[s] = << Timelines!DoFiles("unlink", e, F), Timelines!DoFiles("delete_row", e, {g}) >>
            /\ F \subseteq {g} /\ Spares(e, g)
    BY <1>6 DEF AtAttachment
  <2>2. PICK q : q = << Timelines!DoFiles("unlink", e, F \ {f}), Timelines!DoFiles("delete_row", e, {g}) >>
    OBVIOUS
  <2>3. f \in F /\ tasks' = [tasks EXCEPT ![s] = q]
    BY <1>4, <2>1, <2>2
  <2>4. f = g
    BY <2>1, <2>3
  <2>5. InOrder({}, {}, {}, {g})'
    BY <1>1, <1>2, <2>1, <2>4, LosesFile DEF Spares
  <2>6. Spares(e, g)'
    BY <1>1, <2>1, <2>5 DEF Spares, Timelines!Spare, Timelines!FilesOf
  <2>7. F \ {f} \in SUBSET Timelines!Files /\ F \ {f} \subseteq {g}
    BY <2>1
  <2>8. AtAttachment(q)'
    BY <2>2, <2>6, <2>7 DEF AtAttachment
  <2>9. QED
    BY <2>3, <2>8 DEF Onward, Planned
<1>7. CASE AtUnlink(tasks[s])
  <2>1. PICK e \in Timelines!Entries, F \in SUBSET Timelines!Files :
            tasks[s] = << Timelines!DoFiles("unlink", e, F) >> /\ Free(F) /\ AllInOrder
    BY <1>7 DEF AtUnlink
  <2>2. PICK x, z : x = Timelines!DoFiles("unlink", e, F) /\ z = Timelines!DoFiles("unlink", e, F \ {f})
    OBVIOUS
  <2>3. x.id = e /\ x.files = F /\ tasks[s] = <<x>>
    BY <2>1, <2>2, FilesAre
  <2>4. Timelines!Now(s) = x /\ Tail(tasks[s]) = << >>
    BY <2>3, HeadOne DEF Timelines!Now
  <2>5. Timelines!Goes(s, <<z>>)
    BY <1>2, <2>2, <2>3, <2>4
  <2>6. <<z>> \o << >> = <<z>>
    BY JoinOne
  <2>7. tasks' = [tasks EXCEPT ![s] = <<z>>]
    BY <2>4, <2>5, <2>6 DEF Timelines!Goes
  <2>8. f \in Timelines!Files /\ rows[f] = None
    BY <1>2, <2>1, <2>3, <2>4 DEF Free
  <2>9. AllInOrder'
    BY <1>1, <1>2, <2>1, <2>8, FreeFileGoes
  <2>10. Free(F \ {f})' /\ F \ {f} \in SUBSET Timelines!Files
    BY <1>1, <2>1 DEF Free
  <2>11. AtUnlink(<<z>>)'
    BY <2>2, <2>9, <2>10 DEF AtUnlink
  <2>12. QED
    BY <2>7, <2>11 DEF Onward, Planned
<1>8. CASE AtEntryFiles(tasks[s])
  <2>1. PICK e \in Timelines!Entries, F \in SUBSET Timelines!Files :
            /\ tasks[s] = << Timelines!DoFiles("unlink", e, F), Timelines!Do("delete_entry", e, None) >>
            /\ F \subseteq Timelines!FilesOf(e) /\ budgets[e] = None /\ InOrder({}, {}, {}, Timelines!FilesOf(e))
    BY <1>8 DEF AtEntryFiles
  <2>2. PICK q, L : /\ q = << Timelines!DoFiles("unlink", e, F \ {f}), Timelines!Do("delete_entry", e, None) >>
                    /\ L = Timelines!FilesOf(e)
    OBVIOUS
  <2>3. f \in F /\ tasks' = [tasks EXCEPT ![s] = q]
    BY <1>4, <2>1, <2>2
  <2>4. Timelines!FilesOf(e)' = L
    BY <1>1, <2>2, FilesStay
  <2>5. InOrder({}, {}, {}, L)'
    BY <1>1, <1>2, <2>1, <2>2, <2>3, LosesFile
  <2>6. F \ {f} \in SUBSET Timelines!Files /\ F \ {f} \subseteq L /\ budgets'[e] = None
    BY <1>1, <2>1, <2>2
  <2>7. AtEntryFiles(q)'
    BY <2>2, <2>4, <2>5, <2>6 DEF AtEntryFiles
  <2>8. QED
    BY <2>3, <2>7 DEF Onward, Planned
<1>9. QED
  BY <1>3, <1>5, <1>6, <1>7, <1>8

LEMMA EntryDeleteRow ==
  ASSUME TimelineParameters, LinkInv, NEW s \in Slots, Planned(tasks[s]), Timelines!DeleteRow(s)
  PROVE  Onward(s)
<1>1. /\ ~ Timelines!Idle(s) /\ Timelines!Now(s).do = "delete_row" /\ Timelines!Done(s)
      /\ rows' = [f \in Timelines!Files |-> IF f \in Timelines!Now(s).files THEN None ELSE rows[f]]
      /\ UNCHANGED <<works, maintenances, entries, budgets, stored>>
  BY DEF Timelines!DeleteRow, Timelines!Doing
<1>2. AtRow(tasks[s])
  BY <1>1, NowAt, PlanAt
<1>3. PICK e \in Timelines!Entries, f \in Timelines!Files :
          tasks[s] = << Timelines!DoFiles("delete_row", e, {f}) >> /\ Spares(e, f)
  BY <1>2 DEF AtRow
<1>4. rows' = [g \in Timelines!Files |-> IF g = f THEN None ELSE rows[g]]
  BY <1>1, <1>3, HeadOne, FilesAre DEF Timelines!Now
<1>5. None \notin Timelines!Entries /\ rows[f] = e
  BY <1>3 DEF Spares, TimelineParameters
<1>6. \A x \in Timelines!Entries : Timelines!FilesOf(x)' = Timelines!FilesOf(x) \ {f}
  BY <1>4, <1>5 DEF Timelines!FilesOf
<1>7. \A x \in Timelines!Entries : x # e => f \notin Timelines!FilesOf(x)
  BY <1>5 DEF Timelines!FilesOf
<1>8. AllInOrder'
  <2>1. SUFFICES ASSUME NEW x \in Timelines!Entries
                 PROVE  /\ (entries[x] # None => Placed(x) /\ Speaks(x, {}, {}) /\ Keeps(x, {}))'
                        /\ (budgets[x] # None => x \in {} \/ (entries[x] # None /\ entries[x].kind = "budget"))'
    BY DEF AllInOrder, InOrder
  <2>2. /\ entries[x] # None => Placed(x) /\ Speaks(x, {}, {}) /\ Keeps(x, {f})
        /\ budgets[x] # None => x \in {} \/ (entries[x] # None /\ entries[x].kind = "budget")
    BY <1>3 DEF Spares, InOrder
  <2>3. ASSUME entries[x] # None PROVE Placed(x)' /\ Speaks(x, {}, {})' /\ Keeps(x, {})'
    <3>1. Placed(x)'
      BY <1>1, <2>2, <2>3 DEF Placed
    <3>2. Speaks(x, {}, {})'
      <4>1. CASE x = e
        <5>1. Timelines!Spare(x, f) /\ Timelines!FilesOf(x)' = Timelines!FilesOf(x) \ {f}
          BY <1>3, <1>6, <4>1 DEF Spares
        <5>2. QED
          BY <1>1, <2>2, <2>3, <5>1 DEF Speaks, Placed, Timelines!Spare
      <4>2. CASE x # e
        <5>1. Timelines!FilesOf(x)' = Timelines!FilesOf(x)
          BY <1>6, <1>7, <4>2
        <5>2. QED
          BY <1>1, <2>2, <2>3, <5>1 DEF Speaks
      <4>3. QED
        BY <4>1, <4>2
    <3>3. Keeps(x, {})'
      <4>1. Timelines!FilesOf(x)' = Timelines!FilesOf(x) \ {f}
        BY <1>6
      <4>2. QED
        BY <1>1, <2>2, <2>3, <4>1 DEF Keeps, Timelines!Exists
    <3>4. QED
      BY <3>1, <3>2, <3>3
  <2>4. QED
    BY <1>1, <2>2, <2>3
<1>9. tasks' = [tasks EXCEPT ![s] = << >>]
  BY <1>1, <1>3, DoneTo
<1>10. QED
  BY <1>8, <1>9, PlanDone DEF Onward

LEMMA EntryStore ==
  ASSUME TimelineParameters, LinkInv, NEW s \in Slots, Planned(tasks[s]), Timelines!Store(s)
  PROVE  Onward(s)
<1>1. /\ ~ Timelines!Idle(s) /\ Timelines!Now(s).do = "store" /\ Timelines!Done(s)
      /\ stored' = stored \cup Timelines!Now(s).files /\ UNCHANGED <<works, maintenances, entries, budgets, rows>>
  BY DEF Timelines!Store, Timelines!Doing
<1>2. AtStore(tasks[s])
  BY <1>1, NowAt, PlanAt
<1>3. PICK e \in Timelines!Entries, f \in Timelines!Files, g \in Timelines!Files :
          /\ tasks[s] = << Timelines!DoFiles("store", e, {g}), [Timelines!DoFiles("save_row", e, {g}) EXCEPT !.row = f],
                           Timelines!DoFiles("unlink", e, {f}) >>
          /\ Replaces(e, f, g)
  BY <1>2 DEF AtStore
<1>4. PICK x, y, z : /\ x = Timelines!DoFiles("store", e, {g})
                     /\ y = [Timelines!DoFiles("save_row", e, {g}) EXCEPT !.row = f]
                     /\ z = Timelines!DoFiles("unlink", e, {f})
  OBVIOUS
<1>5. tasks[s] = <<x, y, z>> /\ x.files = {g}
  BY <1>3, <1>4, FilesAre
<1>6. stored' = stored \cup {g}
  BY <1>1, <1>5, HeadThree DEF Timelines!Now
<1>7. tasks' = [tasks EXCEPT ![s] = <<y, z>>]
  BY <1>1, <1>5, DoneTo
<1>8. AllInOrder'
  <2>1. ASSUME NEW i, Keeps(i, {}) PROVE Keeps(i, {})'
    BY <1>1, <1>6, <2>1 DEF Keeps, Timelines!Exists, Timelines!FilesOf
  <2>2. ASSUME NEW i PROVE (Placed(i) => Placed(i)') /\ (Speaks(i, {}, {}) => Speaks(i, {}, {})')
    BY <1>1, FilesStay DEF Placed, Speaks
  <2>3. QED
    BY <1>1, <1>3, <2>1, <2>2 DEF Replaces, AllInOrder, InOrder
<1>9. Replaces(e, f, g)'
  BY <1>1, <1>3, <1>8, FreeStays DEF Replaces
<1>10. AtSaveRow(<<y, z>>)'
  BY <1>4, <1>6, <1>9 DEF AtSaveRow
<1>11. QED
  BY <1>7, <1>10 DEF Onward, Planned

LEMMA EntrySaveRow ==
  ASSUME TimelineParameters, LinkInv, NEW s \in Slots, Planned(tasks[s]), Timelines!SaveRow(s)
  PROVE  Onward(s)
<1>1. /\ ~ Timelines!Idle(s) /\ Timelines!Now(s).do = "save_row" /\ Timelines!Done(s)
      /\ rows' = [h \in Timelines!Files |-> IF h \in Timelines!Now(s).files THEN Timelines!Now(s).id
                                            ELSE IF h = Timelines!Now(s).row THEN None ELSE rows[h]]
      /\ UNCHANGED <<works, maintenances, entries, budgets, stored>>
  BY DEF Timelines!SaveRow, Timelines!Doing
<1>2. AtSaveRow(tasks[s])
  BY <1>1, NowAt, PlanAt
<1>3. PICK e \in Timelines!Entries, f \in Timelines!Files, g \in Timelines!Files :
          /\ tasks[s] = << [Timelines!DoFiles("save_row", e, {g}) EXCEPT !.row = f], Timelines!DoFiles("unlink", e, {f}) >>
          /\ Replaces(e, f, g) /\ g \in stored
  BY <1>2 DEF AtSaveRow
<1>4. PICK w, y, z : /\ w = Timelines!DoFiles("save_row", e, {g}) /\ y = [w EXCEPT !.row = f]
                     /\ z = Timelines!DoFiles("unlink", e, {f})
  OBVIOUS
<1>5. tasks[s] = <<y, z>> /\ y.files = {g} /\ y.id = e /\ y.row = f
  BY <1>3, <1>4, FilesAre
<1>6. rows' = [h \in Timelines!Files |-> IF h = g THEN e ELSE IF h = f THEN None ELSE rows[h]]
  BY <1>1, <1>5, HeadTwo DEF Timelines!Now
<1>7. None \notin Timelines!Entries /\ rows[f] = e /\ rows[g] = None /\ f # g
  BY <1>3 DEF Replaces, Free, TimelineParameters
<1>8. Timelines!FilesOf(e)' = (Timelines!FilesOf(e) \ {f}) \cup {g}
  BY <1>6, <1>7 DEF Timelines!FilesOf
<1>9. ASSUME NEW x \in Timelines!Entries, x # e PROVE Timelines!FilesOf(x)' = Timelines!FilesOf(x)
  BY <1>6, <1>7, <1>9 DEF Timelines!FilesOf
<1>10. AllInOrder'
  <2>1. SUFFICES ASSUME NEW x \in Timelines!Entries
                 PROVE  /\ (entries[x] # None => Placed(x) /\ Speaks(x, {}, {}) /\ Keeps(x, {}))'
                        /\ (budgets[x] # None => x \in {} \/ (entries[x] # None /\ entries[x].kind = "budget"))'
    BY DEF AllInOrder, InOrder
  <2>2. /\ entries[x] # None => Placed(x) /\ Speaks(x, {}, {}) /\ Keeps(x, {})
        /\ budgets[x] # None => x \in {} \/ (entries[x] # None /\ entries[x].kind = "budget")
    BY <1>3 DEF Replaces, AllInOrder, InOrder
  <2>3. ASSUME entries[x] # None PROVE Placed(x)' /\ Speaks(x, {}, {})' /\ Keeps(x, {})'
    <3>1. Placed(x)'
      BY <1>1, <2>2, <2>3 DEF Placed
    <3>2. Timelines!FilesOf(x)' = Timelines!FilesOf(x) \/ Timelines!FilesOf(x)' = (Timelines!FilesOf(x) \ {f}) \cup {g}
      BY <1>8, <1>9
    <3>3. Speaks(x, {}, {})'
      <4>1. Timelines!FilesOf(x) # {} => Timelines!FilesOf(x)' # {}
        BY <3>2
      <4>2. QED
        BY <1>1, <2>2, <2>3, <4>1 DEF Speaks
    <3>4. Keeps(x, {})'
      BY <1>1, <1>3, <2>2, <2>3, <3>2 DEF Keeps, Timelines!Exists
    <3>5. QED
      BY <3>1, <3>3, <3>4
  <2>4. QED
    BY <1>1, <2>2, <2>3
<1>11. tasks' = [tasks EXCEPT ![s] = <<z>>]
  BY <1>1, <1>5, DoneTo
<1>12. Free({f})'
  BY <1>6, <1>7 DEF Free
<1>13. AtUnlink(<<z>>)'
  <2>1. {f} \in SUBSET Timelines!Files
    OBVIOUS
  <2>2. QED
    BY <1>4, <1>10, <1>12, <2>1 DEF AtUnlink
<1>14. QED
  BY <1>11, <1>13 DEF Onward, Planned

LEMMA EntrySaveBudget ==
  ASSUME TimelineParameters, LinkInv, NEW s \in Slots, Planned(tasks[s]), Timelines!SaveBudget(s)
  PROVE  Onward(s)
<1>1. /\ ~ Timelines!Idle(s) /\ Timelines!Now(s).do = "save_budget" /\ Timelines!Done(s)
      /\ budgets' = [budgets EXCEPT ![Timelines!Now(s).id] = Timelines!Now(s).row]
      /\ UNCHANGED <<works, maintenances, entries, rows, stored>>
  BY DEF Timelines!SaveBudget, Timelines!Doing
<1>2. AtNewBudget(tasks[s]) \/ AtBudget(tasks[s])
  BY <1>1, NowAt, PlanAt
<1>3. DOMAIN budgets = Timelines!Entries /\ None \notin Timelines!Budget
  BY DEF LinkInv, TimelineTables, Timelines!TimelineTypeOK, TimelineParameters
\* The entry of the budget is still to come, or to be saved.
<1>4. ASSUME NEW e \in Timelines!Entries, NEW b \in Timelines!Budget, budgets' = [budgets EXCEPT ![e] = b], AllInOrder,
             NEW stale, NEW fresh,
             (entries[e] = None /\ e \in fresh) \/ (entries[e] # None /\ entries[e].kind = "budget" /\ e \in stale)
      PROVE  InOrder({}, stale, fresh, {})' /\ budgets'[e] = b /\ b # None
  <2>1. budgets'[e] = b /\ b # None /\ \A x \in Timelines!Entries : x # e => budgets'[x] = budgets[x]
    BY <1>3, <1>4
  <2>2. SUFFICES ASSUME NEW x \in Timelines!Entries
                 PROVE  /\ (entries[x] # None => Placed(x) /\ Speaks(x, {}, stale) /\ Keeps(x, {}))'
                        /\ (budgets[x] # None => x \in fresh \/ (entries[x] # None /\ entries[x].kind = "budget"))'
    BY <2>1 DEF InOrder
  <2>3. /\ entries[x] # None => Placed(x) /\ Speaks(x, {}, {}) /\ Keeps(x, {})
        /\ budgets[x] # None => entries[x] # None /\ entries[x].kind = "budget"
    BY <1>4 DEF AllInOrder, InOrder
  <2>4. ASSUME entries[x] # None PROVE Placed(x)' /\ Speaks(x, {}, stale)' /\ Keeps(x, {})'
    <3>1. Placed(x)' /\ Keeps(x, {})'
      BY <1>1, <2>3, <2>4, FilesStay DEF Placed, Keeps, Timelines!Exists
    <3>2. CASE x # e
      <4>1. budgets'[x] = budgets[x]
        BY <2>1, <3>2
      <4>2. QED
        BY <1>1, <2>3, <2>4, <3>1, <4>1, FilesStay DEF Speaks
    <3>3. CASE x = e
      <4>1. entries[x].kind = "budget" /\ x \in stale
        BY <1>4, <2>4, <3>3
      <4>2. QED
        BY <1>1, <2>1, <3>1, <3>3, <4>1 DEF Speaks
    <3>4. QED
      BY <3>2, <3>3
  <2>5. ASSUME budgets'[x] # None PROVE x \in fresh \/ (entries'[x] # None /\ entries'[x].kind = "budget")
    <3>1. CASE x # e
      BY <1>1, <2>1, <2>3, <2>5, <3>1
    <3>2. CASE x = e
      BY <1>1, <1>4, <3>2
    <3>3. QED
      BY <3>1, <3>2
  <2>6. QED
    BY <1>1, <2>4, <2>5
<1>5. CASE AtNewBudget(tasks[s])
  <2>1. PICK e \in Timelines!Entries, b \in Timelines!Budget, row \in Timelines!Entry, F \in SUBSET Timelines!Files :
            /\ tasks[s] = << Timelines!Do("save_budget", e, b), Timelines!Do("insert_entry", e, row),
                             Timelines!DoFiles("upload", e, F) >>
            /\ NewEntry(e, row, F) /\ row.kind = "budget" /\ row.says = Timelines!Summary(b) /\ AllInOrder
    BY <1>5 DEF AtNewBudget
  <2>2. PICK x, q : /\ x = Timelines!Do("save_budget", e, b)
                    /\ q = << Timelines!Do("insert_entry", e, row), Timelines!DoFiles("upload", e, F) >>
    OBVIOUS
  <2>3. Timelines!Now(s) = x
    BY <2>1, <2>2, HeadThree DEF Timelines!Now
  <2>4. budgets' = [budgets EXCEPT ![e] = b]
    <3>1. Timelines!Now(s).id = e /\ Timelines!Now(s).row = b
      BY <2>2, <2>3, DoIs
    <3>2. QED
      BY <1>1, <3>1
  <2>5. tasks' = [tasks EXCEPT ![s] = q]
    BY <1>1, <2>1, <2>2, DoneTo
  <2>6. InOrder({}, {}, {e}, {})' /\ budgets'[e] = b /\ b # None
    BY <1>4, <2>1, <2>4 DEF NewEntry
  <2>7. NewEntry(e, row, F)'
    BY <1>1, <2>1, FilesStay, FreeStays DEF NewEntry, Timelines!Exists
  <2>8. AtInsert(q)'
    BY <2>1, <2>2, <2>6, <2>7 DEF AtInsert
  <2>9. QED
    BY <2>5, <2>8 DEF Onward, Planned
<1>6. CASE AtBudget(tasks[s])
  <2>1. PICK e \in Timelines!Entries, b \in Timelines!Budget, row \in Timelines!Entry :
            /\ tasks[s] = << Timelines!Do("save_budget", e, b), Timelines!Do("save_entry", e, row) >>
            /\ Rewrites(e, row) /\ row.kind = "budget" /\ row.says = Timelines!Summary(b) /\ AllInOrder
    BY <1>6 DEF AtBudget
  <2>2. PICK x, q : x = Timelines!Do("save_budget", e, b) /\ q = << Timelines!Do("save_entry", e, row) >>
    OBVIOUS
  <2>3. Timelines!Now(s) = x
    BY <2>1, <2>2, HeadTwo DEF Timelines!Now
  <2>4. budgets' = [budgets EXCEPT ![e] = b]
    <3>1. Timelines!Now(s).id = e /\ Timelines!Now(s).row = b
      BY <2>2, <2>3, DoIs
    <3>2. QED
      BY <1>1, <3>1
  <2>5. tasks' = [tasks EXCEPT ![s] = q]
    BY <1>1, <2>1, <2>2, DoneTo
  <2>6. InOrder({}, {e}, {}, {})' /\ budgets'[e] = b
    BY <1>4, <2>1, <2>4 DEF Rewrites
  <2>7. Rewrites(e, row)'
    BY <1>1, <2>1 DEF Rewrites
  <2>8. AtText(q)'
    BY <2>1, <2>2, <2>6, <2>7 DEF AtText
  <2>9. QED
    BY <2>5, <2>8 DEF Onward, Planned
<1>7. QED
  BY <1>2, <1>5, <1>6

LEMMA EntrySaveEntry ==
  ASSUME TimelineParameters, LinkInv, NEW s \in Slots, Planned(tasks[s]), Timelines!SaveEntry(s)
  PROVE  Onward(s)
<1>1. /\ ~ Timelines!Idle(s) /\ Timelines!Now(s).do = "save_entry" /\ Timelines!Done(s)
      /\ entries' = [entries EXCEPT ![Timelines!Now(s).id] = Timelines!Now(s).row]
      /\ UNCHANGED <<works, maintenances, budgets, rows, stored>>
  BY DEF Timelines!SaveEntry, Timelines!Doing
<1>2. AtText(tasks[s])
  BY <1>1, NowAt, PlanAt
<1>3. PICK e \in Timelines!Entries, row \in Timelines!Entry :
          /\ tasks[s] = << Timelines!Do("save_entry", e, row) >> /\ Rewrites(e, row) /\ InOrder({}, {e}, {}, {})
          /\ row.kind = "note" => row.says = "text" \/ (row.says = "nothing" /\ Timelines!FilesOf(e) # {})
          /\ row.kind = "budget" => row.says = Timelines!Summary(budgets[e])
  BY <1>2 DEF AtText
<1>4. entries' = [entries EXCEPT ![e] = row]
  <2>1. Timelines!Now(s).id = e /\ Timelines!Now(s).row = row
    BY <1>3, HeadOne, DoIs DEF Timelines!Now
  <2>2. QED
    BY <1>1, <2>1
<1>5. DOMAIN entries = Timelines!Entries /\ row # None
  BY DEF LinkInv, TimelineTables, Timelines!TimelineTypeOK, TimelineParameters
<1>6. entries'[e] = row /\ \A x \in Timelines!Entries : x # e => entries'[x] = entries[x]
  BY <1>4, <1>5
<1>7. AllInOrder'
  <2>1. SUFFICES ASSUME NEW x \in Timelines!Entries
                 PROVE  /\ (entries[x] # None => Placed(x) /\ Speaks(x, {}, {}) /\ Keeps(x, {}))'
                        /\ (budgets[x] # None => x \in {} \/ (entries[x] # None /\ entries[x].kind = "budget"))'
    BY DEF AllInOrder, InOrder
  <2>2. /\ entries[x] # None => Placed(x) /\ Speaks(x, {}, {e}) /\ Keeps(x, {})
        /\ budgets[x] # None => x \in {} \/ (entries[x] # None /\ entries[x].kind = "budget")
    BY <1>3 DEF InOrder
  <2>3. CASE x # e
    <3>1. entries'[x] = entries[x]
      BY <1>6, <2>3
    <3>2. QED
      BY <1>1, <2>2, <2>3, <3>1, FilesStay DEF Placed, Speaks, Keeps, Timelines!Exists
  <2>4. CASE x = e
    <3>1. entries'[x] = row /\ entries[x] # None /\ row.of = entries[x].of /\ row.kind = entries[x].kind
      BY <1>3, <1>6, <2>4 DEF Rewrites
    <3>2. Placed(x)' /\ Keeps(x, {})'
      BY <1>1, <1>3, <2>2, <2>4, <3>1, FilesStay DEF Placed, Keeps, Timelines!Exists
    <3>3. Speaks(x, {}, {})'
      BY <1>1, <1>3, <2>2, <2>4, <3>1, FilesStay DEF Speaks, Timelines!Summary
    <3>4. QED
      BY <1>1, <1>5, <2>2, <3>1, <3>2, <3>3
  <2>5. QED
    BY <2>3, <2>4
<1>8. tasks' = [tasks EXCEPT ![s] = << >>]
  BY <1>1, <1>3, DoneTo
<1>9. QED
  BY <1>7, <1>8, PlanDone DEF Onward

LEMMA EntryInsertEntry ==
  ASSUME TimelineParameters, LinkInv, NEW s \in Slots, Planned(tasks[s]), Timelines!InsertEntry(s)
  PROVE  Onward(s)
<1>1. ~ Timelines!Idle(s) /\ Timelines!Now(s).do = "insert_entry"
  BY DEF Timelines!InsertEntry, Timelines!Doing
<1>2. AtInsert(tasks[s])
  BY <1>1, NowAt, PlanAt
<1>3. PICK e \in Timelines!Entries, row \in Timelines!Entry, F \in SUBSET Timelines!Files :
          /\ tasks[s] = << Timelines!Do("insert_entry", e, row), Timelines!DoFiles("upload", e, F) >>
          /\ NewEntry(e, row, F) /\ InOrder({}, {}, {e}, {})
          /\ row.kind = "budget" => budgets[e] # None /\ row.says = Timelines!Summary(budgets[e])
          /\ row.kind # "budget" => budgets[e] = None
  BY <1>2 DEF AtInsert
<1>4. Timelines!Now(s).id = e /\ Timelines!Now(s).row = row
  BY <1>3, HeadTwo, DoIs DEF Timelines!Now
<1>5. /\ entries' = [entries EXCEPT ![e] = row] /\ Timelines!Done(s)
      /\ UNCHANGED <<works, maintenances, budgets, rows, stored>>
  BY <1>3, <1>4 DEF Timelines!InsertEntry, NewEntry
<1>6. DOMAIN entries = Timelines!Entries /\ row # None
  BY DEF LinkInv, TimelineTables, Timelines!TimelineTypeOK, TimelineParameters
<1>7. entries'[e] = row /\ \A x \in Timelines!Entries : x # e => entries'[x] = entries[x]
  BY <1>5, <1>6
<1>8. PICK bare : bare = IF F = {} THEN {} ELSE {e}
  OBVIOUS
<1>9. InOrder(bare, {}, {}, {})'
  <2>1. SUFFICES ASSUME NEW x \in Timelines!Entries
                 PROVE  /\ (entries[x] # None => Placed(x) /\ Speaks(x, bare, {}) /\ Keeps(x, {}))'
                        /\ (budgets[x] # None => x \in {} \/ (entries[x] # None /\ entries[x].kind = "budget"))'
    BY <1>8 DEF InOrder
  <2>2. /\ entries[x] # None => Placed(x) /\ Speaks(x, {}, {}) /\ Keeps(x, {})
        /\ budgets[x] # None => x \in {e} \/ (entries[x] # None /\ entries[x].kind = "budget")
    BY <1>3 DEF InOrder
  <2>3. CASE x # e
    <3>1. entries'[x] = entries[x]
      BY <1>7, <2>3
    <3>2. QED
      BY <1>5, <2>2, <2>3, <3>1, FilesStay DEF Placed, Speaks, Keeps, Timelines!Exists
  <2>4. CASE x = e
    <3>1. entries'[x] = row /\ Timelines!FilesOf(x) = {} /\ Timelines!Exists(row.of) /\ maintenances \subseteq Maintenances
      BY <1>3, <1>7, <2>4 DEF NewEntry, LinkInv, TimelineTables, Timelines!TimelineTypeOK
    <3>2. Placed(x)'
      BY <1>3, <1>5, <2>4, <3>1 DEF Placed, NewEntry, Timelines!Exists, TimelineParameters
    <3>3. Keeps(x, {})'
      BY <1>5, <3>1, FilesStay DEF Keeps
    <3>4. Speaks(x, bare, {})'
      BY <1>3, <1>5, <1>8, <2>4, <3>1 DEF Speaks, NewEntry, Timelines!Summary
    <3>5. budgets'[x] # None => row.kind = "budget"
      BY <1>3, <1>5, <2>4
    <3>6. QED
      BY <1>6, <3>1, <3>2, <3>3, <3>4, <3>5
  <2>5. QED
    BY <2>3, <2>4
<1>10. PICK q : q = << Timelines!DoFiles("upload", e, F) >>
  OBVIOUS
<1>11. Free(F)'
  BY <1>3, <1>5, FreeStays DEF NewEntry
<1>12. InOrder(IF F = {} THEN {} ELSE {e}, {}, {}, {})'
  BY <1>8, <1>9
<1>13. AtUpload(q)'
  BY <1>10, <1>11, <1>12 DEF AtUpload
<1>14. tasks' = [tasks EXCEPT ![s] = q]
  BY <1>3, <1>5, <1>10, DoneTo
<1>15. QED
  BY <1>13, <1>14 DEF Onward, Planned

\* Without an entry that has no budget, with or without its attachments.
LEMMA EntryGone ==
  ASSUME TimelineParameters, NEW e \in Timelines!Entries, NEW L, InOrder({}, {}, {}, L), L \subseteq Timelines!FilesOf(e),
         entries' = Timelines!Without({e}, entries), rows' = rows \/ rows' = Timelines!RowsWithout({e}),
         budgets' = Timelines!Without({e}, budgets) \/ (budgets' = budgets /\ budgets[e] = None),
         UNCHANGED <<works, maintenances, stored>>
  PROVE  AllInOrder' /\ budgets'[e] = None
<1>1. None \notin Timelines!Entries
  BY DEF TimelineParameters
<1>2. entries'[e] = None /\ budgets'[e] = None
  BY DEF Timelines!Without
<1>3. ASSUME NEW x \in Timelines!Entries, x # e
      PROVE  entries'[x] = entries[x] /\ budgets'[x] = budgets[x] /\ Timelines!FilesOf(x)' = Timelines!FilesOf(x)
  <2>1. entries'[x] = entries[x]
    BY <1>3 DEF Timelines!Without
  <2>2. budgets'[x] = budgets[x]
    BY <1>3 DEF Timelines!Without
  <2>3. CASE rows' = rows
    BY <2>1, <2>2, <2>3, FilesStay
  <2>4. CASE rows' = Timelines!RowsWithout({e})
    <3>1. \A f \in Timelines!Files : rows'[f] = x <=> rows[f] = x
      BY <1>1, <1>3, <2>4 DEF Timelines!RowsWithout
    <3>2. Timelines!FilesOf(x)' = Timelines!FilesOf(x)
      BY <3>1 DEF Timelines!FilesOf
    <3>3. QED
      BY <2>1, <2>2, <3>2
  <2>5. QED
    BY <2>3, <2>4
<1>4. SUFFICES ASSUME NEW x \in Timelines!Entries
               PROVE  /\ (entries[x] # None => Placed(x) /\ Speaks(x, {}, {}) /\ Keeps(x, {}))'
                      /\ (budgets[x] # None => x \in {} \/ (entries[x] # None /\ entries[x].kind = "budget"))'
  BY <1>2 DEF AllInOrder, InOrder
<1>5. CASE x = e
  BY <1>2, <1>5
<1>6. CASE x # e
  <2>1. entries'[x] = entries[x] /\ budgets'[x] = budgets[x] /\ Timelines!FilesOf(x)' = Timelines!FilesOf(x)
    BY <1>3, <1>6
  <2>2. /\ entries[x] # None => Placed(x) /\ Speaks(x, {}, {}) /\ Keeps(x, L)
        /\ budgets[x] # None => x \in {} \/ (entries[x] # None /\ entries[x].kind = "budget")
    BY DEF InOrder
  <2>3. Timelines!FilesOf(x) \cap L = {}
    BY <1>6 DEF Timelines!FilesOf
  <2>4. ASSUME entries[x] # None PROVE Placed(x)' /\ Speaks(x, {}, {})' /\ Keeps(x, {})'
    <3>1. Placed(x)' /\ Speaks(x, {}, {})'
      BY <2>1, <2>2, <2>4 DEF Placed, Speaks
    <3>2. Keeps(x, {})'
      BY <2>1, <2>2, <2>3, <2>4 DEF Keeps, Timelines!Exists
    <3>3. QED
      BY <3>1, <3>2
  <2>5. QED
    BY <2>1, <2>2, <2>4
<1>7. QED
  BY <1>5, <1>6

LEMMA EntryDeleteEntry ==
  ASSUME TimelineParameters, LinkInv, NEW s \in Slots, Planned(tasks[s]), Timelines!DeleteEntry(s)
  PROVE  Onward(s)
<1>1. /\ ~ Timelines!Idle(s) /\ Timelines!Now(s).do \in {"delete_budget", "delete_entry"} /\ Timelines!Done(s)
      /\ entries' = Timelines!Without({Timelines!Now(s).id}, entries)
      /\ budgets' = IF Timelines!Now(s).do = "delete_budget" THEN Timelines!Without({Timelines!Now(s).id}, budgets)
                    ELSE budgets
      /\ rows' = rows \/ rows' = Timelines!RowsWithout({Timelines!Now(s).id})
      /\ UNCHANGED <<works, maintenances, stored>>
  BY DEF Timelines!DeleteEntry, Timelines!Doing
<1>2. CASE Timelines!Now(s).do = "delete_budget"
  <2>1. AtBudgetGoes(tasks[s])
    BY <1>1, <1>2, NowAt, PlanAt
  <2>2. PICK e \in Timelines!Entries :
            tasks[s] = << Timelines!Do("delete_budget", e, None), Timelines!Do("delete_entry", e, None) >> /\ AllInOrder
    BY <2>1 DEF AtBudgetGoes
  <2>3. Timelines!Now(s).id = e
    BY <2>2, HeadTwo, DoIs DEF Timelines!Now
  <2>4. PICK q : q = << Timelines!Do("delete_entry", e, None) >>
    OBVIOUS
  <2>5. tasks' = [tasks EXCEPT ![s] = q]
    BY <1>1, <2>2, <2>4, DoneTo
  <2>6. InOrder({}, {}, {}, {})
    BY <2>2 DEF AllInOrder
  <2>7. {} \subseteq Timelines!FilesOf(e)
    OBVIOUS
  <2>8. AllInOrder' /\ budgets'[e] = None
    BY <1>1, <1>2, <2>3, <2>6, <2>7, EntryGone
  <2>9. InOrder({}, {}, {}, Timelines!FilesOf(e))'
    BY <2>8 DEF AllInOrder, InOrder, Speaks, Keeps
  <2>10. AtEntry(q)'
    BY <2>4, <2>8, <2>9 DEF AtEntry
  <2>11. QED
    BY <2>5, <2>10 DEF Onward, Planned
<1>3. CASE Timelines!Now(s).do = "delete_entry"
  <2>1. AtEntry(tasks[s])
    BY <1>1, <1>3, NowAt, PlanAt
  <2>2. PICK e \in Timelines!Entries :
            /\ tasks[s] = << Timelines!Do("delete_entry", e, None) >>
            /\ budgets[e] = None /\ InOrder({}, {}, {}, Timelines!FilesOf(e))
    BY <2>1 DEF AtEntry
  <2>3. Timelines!Now(s).id = e
    BY <2>2, HeadOne, DoIs DEF Timelines!Now
  <2>4. PICK L : L = Timelines!FilesOf(e)
    OBVIOUS
  <2>5. AllInOrder'
    <3>1. InOrder({}, {}, {}, L) /\ L \subseteq Timelines!FilesOf(e) /\ budgets' = budgets
      BY <1>1, <1>3, <2>2, <2>4
    <3>2. QED
      BY <1>1, <2>2, <2>3, <3>1, EntryGone
  <2>6. tasks' = [tasks EXCEPT ![s] = << >>]
    BY <1>1, <2>2, DoneTo
  <2>7. QED
    BY <2>5, <2>6, PlanDone DEF Onward
<1>4. QED
  BY <1>1, <1>2, <1>3

LEMMA EntryDeleteRecord ==
  ASSUME TimelineParameters, LinkInv, NEW s \in Slots, Planned(tasks[s]), Timelines!DeleteRecord(s)
  PROVE  Onward(s)
<1>1. ~ Timelines!Idle(s) /\ Timelines!Now(s).do = "delete_record" /\ Timelines!Done(s)
  BY DEF Timelines!DeleteRecord, Timelines!Doing
<1>2. AtRecord(tasks[s])
  BY <1>1, NowAt, PlanAt
<1>3. PICK r \in Works \cup Maintenances :
          tasks[s] = << Timelines!Do("delete_record", r, None) >> /\ InOrder({}, {}, {}, FilesAt(r))
  BY <1>2 DEF AtRecord
<1>4. Timelines!Now(s).id = r
  BY <1>3, HeadOne, DoIs DEF Timelines!Now
<1>5. PICK side, gone, L :
          /\ side = (IF r \in Works THEN "work" ELSE "maintenance")
          /\ gone = {e \in Timelines!Entries : entries[e] # None /\ entries[e].of = r} /\ L = FilesAt(r)
  OBVIOUS
<1>6. /\ works' = IF r \in Works THEN [works EXCEPT ![r] = None] ELSE works
      /\ maintenances' = maintenances \ {r} /\ stored' = stored
  BY <1>4 DEF Timelines!DeleteRecord
<1>7. \/ /\ entries' = Timelines!Without(gone, entries) /\ budgets' = Timelines!Without(gone, budgets)
         /\ rows' = Timelines!RowsWithout(gone)
      \/ UNCHANGED <<entries, budgets, rows>> /\ side = "maintenance"
  <2>1. CASE Timelines!Keyed(side)
    BY <1>4, <1>5, <2>1 DEF Timelines!DeleteRecord
  <2>2. CASE ~ Timelines!Keyed(side)
    <3>1. side = "maintenance"
      BY <1>5, <2>2 DEF Timelines!Keyed
    <3>2. UNCHANGED <<entries, budgets, rows>>
      BY <1>4, <1>5, <2>2 DEF Timelines!DeleteRecord
    <3>3. QED
      BY <3>1, <3>2
  <2>3. QED
    BY <2>1, <2>2
<1>8. /\ DOMAIN works = Works /\ Works \cap Maintenances = {} /\ None \notin Timelines!Entries
      /\ maintenances \subseteq Maintenances
  BY DEF LinkInv, TimelineTables, Timelines!TimelineTypeOK, TimelineParameters
<1>9. ~ Timelines!Exists(r)'
  BY <1>6, <1>8 DEF Timelines!Exists
<1>10. ASSUME NEW x, x # r, x \in Works PROVE works'[x] = works[x]
  BY <1>6, <1>8, <1>10
<1>11. ASSUME NEW x, x # r PROVE Timelines!Exists(x)' <=> Timelines!Exists(x)
  BY <1>6, <1>10, <1>11 DEF Timelines!Exists
\* What stays of the entries, the budgets and the attachments.
<1>12. ASSUME NEW x \in Timelines!Entries, x \notin gone
       PROVE  entries'[x] = entries[x] /\ budgets'[x] = budgets[x] /\ Timelines!FilesOf(x)' = Timelines!FilesOf(x)
  <2>1. CASE UNCHANGED <<entries, budgets, rows>>
    BY <2>1, FilesStay
  <2>2. CASE /\ entries' = Timelines!Without(gone, entries) /\ budgets' = Timelines!Without(gone, budgets)
             /\ rows' = Timelines!RowsWithout(gone)
    <3>1. entries'[x] = entries[x] /\ budgets'[x] = budgets[x]
      BY <1>12, <2>2 DEF Timelines!Without
    <3>2. \A f \in Timelines!Files : rows'[f] = x <=> rows[f] = x
      BY <1>8, <1>12, <2>2 DEF Timelines!RowsWithout
    <3>3. Timelines!FilesOf(x)' = Timelines!FilesOf(x)
      BY <3>2 DEF Timelines!FilesOf
    <3>4. QED
      BY <3>1, <3>3
  <2>3. QED
    BY <1>7, <2>1, <2>2
<1>13. AllInOrder'
  <2>1. SUFFICES ASSUME NEW x \in Timelines!Entries
                 PROVE  /\ (entries[x] # None => Placed(x) /\ Speaks(x, {}, {}) /\ Keeps(x, {}))'
                        /\ (budgets[x] # None => x \in {} \/ (entries[x] # None /\ entries[x].kind = "budget"))'
    BY DEF AllInOrder, InOrder
  <2>2. /\ entries[x] # None => Placed(x) /\ Speaks(x, {}, {}) /\ Keeps(x, L)
        /\ budgets[x] # None => x \in {} \/ (entries[x] # None /\ entries[x].kind = "budget")
    BY <1>3, <1>5 DEF InOrder
  <2>3. CASE x \in gone
    <3>1. entries[x] # None /\ entries[x].of = r
      BY <1>5, <2>3
    <3>2. CASE entries' = Timelines!Without(gone, entries) /\ budgets' = Timelines!Without(gone, budgets)
      <4>1. entries'[x] = None /\ budgets'[x] = None
        BY <2>3, <3>2 DEF Timelines!Without
      <4>2. QED
        BY <4>1
    <3>3. CASE UNCHANGED <<entries, budgets, rows>> /\ side = "maintenance"
      <4>1. r \notin Works
        BY <1>5, <3>3
      <4>2. works' = works
        BY <1>6, <4>1
      <4>3. Placed(x)' /\ Speaks(x, {}, {})'
        BY <2>2, <3>1, <3>3, <4>2, FilesStay DEF Placed, Speaks
      <4>4. Keeps(x, {})'
        BY <1>9, <3>1, <3>3 DEF Keeps
      <4>5. QED
        BY <2>2, <3>3, <4>3, <4>4
    <3>4. QED
      BY <1>7, <3>2, <3>3
  <2>4. CASE x \notin gone
    <3>1. entries'[x] = entries[x] /\ budgets'[x] = budgets[x] /\ Timelines!FilesOf(x)' = Timelines!FilesOf(x)
      BY <1>12, <2>4
    <3>2. ASSUME entries[x] # None PROVE Placed(x)' /\ Speaks(x, {}, {})' /\ Keeps(x, {})'
      <4>1. entries[x].of # r
        BY <1>5, <2>4, <3>2
      <4>2. Placed(x)' /\ Speaks(x, {}, {})'
        BY <1>10, <2>2, <3>1, <3>2, <4>1 DEF Placed, Speaks
      <4>3. Timelines!Exists(entries[x].of)' <=> Timelines!Exists(entries[x].of)
        <5>1. PICK z : z = entries[x].of
          OBVIOUS
        <5>2. Timelines!Exists(z)' <=> Timelines!Exists(z)
          BY <1>11, <4>1, <5>1
        <5>3. z = entries'[x].of
          BY <3>1, <5>1
        <5>4. QED
          BY <5>1, <5>2, <5>3 DEF Timelines!Exists
      <4>4. Timelines!FilesOf(x) \cap L = {}
        BY <1>5, <4>1 DEF Timelines!FilesOf, FilesAt
      <4>5. Timelines!Exists(entries[x].of)' => Timelines!FilesOf(x)' \subseteq stored'
        BY <1>6, <2>2, <3>1, <3>2, <4>3, <4>4 DEF Keeps
      <4>6. QED
        BY <4>2, <4>5 DEF Keeps
    <3>3. QED
      BY <2>2, <3>1, <3>2
  <2>5. QED
    BY <2>3, <2>4
<1>14. tasks' = [tasks EXCEPT ![s] = << >>]
  BY <1>1, <1>3, DoneTo
<1>15. QED
  BY <1>13, <1>14, PlanDone DEF Onward

(***************************************************************************)
(* The statements that leave the entries alone.                            *)
(***************************************************************************)

LEMMA WorksStay ==
  ASSUME AllInOrder, \A w \in Works : works[w] # None => works'[w] # None,
         UNCHANGED <<maintenances, entries, budgets, rows, stored>>
  PROVE  AllInOrder'
<1>1. SUFFICES ASSUME NEW x \in Timelines!Entries
               PROVE  /\ (entries[x] # None => Placed(x) /\ Speaks(x, {}, {}) /\ Keeps(x, {}))'
                      /\ (budgets[x] # None => x \in {} \/ (entries[x] # None /\ entries[x].kind = "budget"))'
  BY DEF AllInOrder, InOrder
<1>2. /\ entries[x] # None => Placed(x) /\ Speaks(x, {}, {}) /\ Keeps(x, {})
      /\ budgets[x] # None => x \in {} \/ (entries[x] # None /\ entries[x].kind = "budget")
  BY DEF AllInOrder, InOrder
<1>3. ASSUME entries[x] # None PROVE Placed(x)' /\ Speaks(x, {}, {})' /\ Keeps(x, {})'
  <2>1. Placed(x)' /\ Speaks(x, {}, {})'
    BY <1>2, <1>3, FilesStay DEF Placed, Speaks
  <2>2. Timelines!Exists(entries[x].of)' => Timelines!Exists(entries[x].of)
    BY <1>2, <1>3 DEF Placed, Timelines!Exists
  <2>3. Keeps(x, {})'
    BY <1>2, <1>3, <2>2, FilesStay DEF Keeps
  <2>4. QED
    BY <2>1, <2>3
<1>4. QED
  BY <1>2, <1>3

LEMMA EntrySaveWork ==
  ASSUME TimelineParameters, LinkInv, NEW s \in Slots, Planned(tasks[s]), Timelines!SaveWork(s)
  PROVE  Onward(s)
<1>1. PICK w, row : w = Timelines!Now(s).id /\ row = Timelines!Now(s).row
  OBVIOUS
<1>2. /\ ~ Timelines!Idle(s) /\ Timelines!Now(s).do = "save_work" /\ works' = [works EXCEPT ![w] = row]
      /\ Timelines!Done(s) /\ UNCHANGED <<maintenances, entries, budgets, rows, stored>>
  BY <1>1 DEF Timelines!SaveWork, Timelines!Doing
<1>3. AtQuiet(tasks[s])
  BY <1>2, NowAt, PlanAt DEF Quiets
<1>4. w \in Works /\ row \in Timelines!Work
  BY <1>1, <1>2, QueueHead DEF QueueProgram
<1>5. DOMAIN works = Works /\ row # None
  BY <1>4 DEF LinkInv, TimelineTables, Timelines!TimelineTypeOK, TimelineParameters
<1>6. \A v \in Works : works[v] # None => works'[v] # None
  BY <1>2, <1>4, <1>5
<1>7. AllInOrder'
  BY <1>2, <1>3, <1>6, WorksStay DEF AtQuiet
<1>8. QED
  BY <1>2, <1>3, <1>7, QuietRest DEF Timelines!Done, Timelines!Goes

LEMMA EntrySaveQueue ==
  ASSUME TimelineParameters, LinkInv, NEW s \in Slots, Planned(tasks[s]), Timelines!SaveQueue(s)
  PROVE  Onward(s)
<1>1. PICK queue : queue = Timelines!Now(s).row
  OBVIOUS
<1>2. /\ ~ Timelines!Idle(s) /\ Timelines!Now(s).do = "reorder" /\ Timelines!Done(s)
      /\ works' = [w \in Works |->
                    IF works[w] = None \/ \A i \in DOMAIN queue : queue[i] # w THEN works[w]
                    ELSE [works[w] EXCEPT !.order = (CHOOSE i \in DOMAIN queue : queue[i] = w) - 1]]
      /\ UNCHANGED <<maintenances, entries, budgets, rows, stored>>
  BY <1>1 DEF Timelines!SaveQueue, Timelines!Doing
<1>3. AtQuiet(tasks[s])
  BY <1>2, NowAt, PlanAt DEF Quiets
<1>4. queue \in Seq(Works)
  BY <1>1, <1>2, QueueHead DEF QueueProgram
<1>5. ASSUME NEW w \in Works, works[w] # None PROVE works'[w] # None
  <2>1. works[w] \in Timelines!Work /\ None \notin Timelines!Work
    BY <1>5 DEF LinkInv, TimelineTables, Timelines!TimelineTypeOK, TimelineParameters
  <2>2. CASE \A i \in DOMAIN queue : queue[i] # w
    BY <1>2, <1>5, <2>2
  <2>3. CASE \E i \in DOMAIN queue : queue[i] = w
    <3>1. PICK k, n : k = (CHOOSE i \in DOMAIN queue : queue[i] = w) /\ n = k - 1
      OBVIOUS
    <3>2. k \in DOMAIN queue
      BY <2>3, <3>1
    <3>3. k \in Nat \ {0}
      BY <1>4, <3>2
    <3>4. n \in Nat
      BY <3>1, <3>3
    <3>5. works'[w] = [works[w] EXCEPT !.order = n]
      BY <1>2, <1>5, <2>3, <3>1
    <3>6. works'[w] \in Timelines!Work
      BY <2>1, <3>4, <3>5 DEF Timelines!Work
    <3>7. QED
      BY <2>1, <3>6
  <2>4. QED
    BY <2>2, <2>3
<1>6. AllInOrder'
  BY <1>2, <1>3, <1>5, WorksStay DEF AtQuiet
<1>7. QED
  BY <1>2, <1>3, <1>6, QuietRest DEF Timelines!Done, Timelines!Goes

LEMMA EntryAssign ==
  ASSUME TimelineParameters, LinkInv, NEW s \in Slots, Planned(tasks[s]), Timelines!Assign(s)
  PROVE  Onward(s)
<1>1. PICK n : n = Timelines!Now(s)
  OBVIOUS
<1>2. ~ Timelines!Idle(s) /\ n.do = "assign" /\ UNCHANGED <<works, maintenances, entries, budgets, rows, stored>>
  BY <1>1 DEF Timelines!Assign, Timelines!Doing, Timelines!tables
<1>3. AtQuiet(tasks[s])
  BY <1>1, <1>2, NowAt, PlanAt DEF Quiets
<1>4. PICK t \in DOMAIN n.row :
        Timelines!Goes(s, << Timelines!Do("commit", t, n.row[t]), Timelines!Find(n.side, t, n.row[t]),
                             [n EXCEPT !.row = [x \in DOMAIN n.row \ {t} |-> n.row[x]]] >>)
  BY <1>1 DEF Timelines!Assign
<1>5. PICK rest : rest = [x \in DOMAIN n.row \ {t} |-> n.row[x]]
  OBVIOUS
<1>6. PICK x, y, z : /\ x = Timelines!Do("commit", t, n.row[t]) /\ y = Timelines!Find(n.side, t, n.row[t])
                     /\ z = [n EXCEPT !.row = rest]
  OBVIOUS
<1>7. DOMAIN n = Columns
  BY <1>1, <1>2, LinkHead DEF Linking, LinkProgram
<1>8. x.do = "commit" /\ y.do = "find" /\ z.do = "assign"
  BY <1>2, <1>6, <1>7, DoFields, FindFields DEF Columns
<1>9. PICK first : first = <<x, y, z>>
  OBVIOUS
<1>10. first \in Seq({x, y, z}) /\ Len(first) = 3 /\ first[1] = x /\ first[2] = y /\ first[3] = z
  BY <1>9
<1>11. \A i \in 1..Len(first) : first[i].do \in Quiets
  BY <1>8, <1>10 DEF Quiets
<1>12. tasks' = [tasks EXCEPT ![s] = first \o Tail(tasks[s])]
  BY <1>4, <1>5, <1>6, <1>9 DEF Timelines!Goes
<1>13. AllInOrder'
  BY <1>2, <1>3, AllSame DEF AtQuiet
<1>14. QED
  BY <1>2, <1>3, <1>10, <1>11, <1>12, <1>13, QuietOn DEF Timelines!Idle

LEMMA EntryLoad ==
  ASSUME TimelineParameters, LinkInv, NEW s \in Slots, Planned(tasks[s]), Timelines!Load(s)
  PROVE  Onward(s)
<1>1. PICK u, sides : u = Timelines!Now(s).id /\ sides = Timelines!Now(s).row
  OBVIOUS
<1>2. PICK x, y : x = Timelines!Find("work", u, txs[u]) /\ y = Timelines!Find("maintenance", u, txs[u])
  OBVIOUS
<1>3. PICK a, b : /\ a = (IF "work" \in sides \/ txs[u]["work"] # None THEN <<x>> ELSE << >>)
                  /\ b = (IF "maintenance" \in sides \/ txs[u]["maintenance"] # None THEN <<y>> ELSE << >>)
  OBVIOUS
<1>4. PICK first : first = a \o b
  OBVIOUS
<1>5. /\ ~ Timelines!Idle(s) /\ Timelines!Now(s).do = "load" /\ Timelines!Goes(s, first)
      /\ UNCHANGED <<works, maintenances, entries, budgets, rows, stored>>
  BY <1>1, <1>2, <1>3, <1>4 DEF Timelines!Load, Timelines!Doing, Timelines!tables
<1>6. AtQuiet(tasks[s])
  BY <1>5, NowAt, PlanAt DEF Quiets
<1>7. first \in Seq({x, y}) /\ \A i \in 1..Len(first) : first[i] \in {x, y}
  BY <1>3, <1>4, Joined
<1>8. \A i \in 1..Len(first) : first[i].do \in Quiets
  BY <1>2, <1>7, FindFields DEF Quiets
<1>9. tasks' = [tasks EXCEPT ![s] = first \o Tail(tasks[s])]
  BY <1>5 DEF Timelines!Goes
<1>10. AllInOrder'
  BY <1>5, <1>6, AllSame DEF AtQuiet
<1>11. QED
  BY <1>5, <1>6, <1>7, <1>8, <1>9, <1>10, QuietOn DEF Timelines!Idle

LEMMA EntryCommit ==
  ASSUME TimelineParameters, LinkInv, NEW s \in Slots, Planned(tasks[s]),
         Timelines!Commit(s) \/ Timelines!DeleteTransactions(s)
  PROVE  Onward(s)
<1>1. /\ ~ Timelines!Idle(s) /\ Timelines!Now(s).do \in {"commit", "delete_txs"} /\ Timelines!Done(s)
      /\ UNCHANGED <<works, maintenances, entries, budgets, rows, stored>>
  BY DEF Timelines!Commit, Timelines!DeleteTransactions, Timelines!Doing
<1>2. AtQuiet(tasks[s])
  BY <1>1, NowAt, PlanAt DEF Quiets
<1>3. QED
  BY <1>1, <1>2, QuietDone

LEMMA EntrySync ==
  ASSUME TimelineParameters, LinkInv, NEW s \in Slots, Planned(tasks[s]), NEW side, Timelines!Sync(s, side)
  PROVE  Onward(s)
<1>1. PICK n : n = Timelines!Now(s)
  OBVIOUS
<1>2. ~ Timelines!Idle(s) /\ n.do = "find" /\ UNCHANGED <<works, maintenances, entries, budgets, rows, stored>>
  BY <1>1 DEF Timelines!Sync, Timelines!Doing, Timelines!tables
<1>3. AtQuiet(tasks[s])
  BY <1>1, <1>2, NowAt, PlanAt DEF Quiets
<1>4. DOMAIN n = Columns
  BY <1>1, <1>2, LinkHead DEF Linking, Syncing, LinkProgram
<1>5. ASSUME NEW what \in Quiets, Timelines!Goes(s, << [n EXCEPT !.do = what] >>) PROVE Onward(s)
  <2>1. PICK x : x = [n EXCEPT !.do = what]
    OBVIOUS
  <2>2. x.do = what
    BY <1>4, <2>1 DEF Columns
  <2>3. PICK first : first = <<x>>
    OBVIOUS
  <2>4. first \in Seq({x}) /\ Len(first) = 1 /\ first[1] = x
    BY <2>3
  <2>5. \A i \in 1..Len(first) : first[i].do \in Quiets
    BY <2>2, <2>4
  <2>6. tasks' = [tasks EXCEPT ![s] = first \o Tail(tasks[s])]
    BY <1>5, <2>1, <2>3 DEF Timelines!Goes
  <2>7. AllInOrder'
    BY <1>2, <1>3, AllSame DEF AtQuiet
  <2>8. QED
    BY <1>2, <1>3, <2>4, <2>5, <2>6, <2>7, QuietOn DEF Timelines!Idle
<1>6. \/ Timelines!Synchronised(s) \/ Timelines!Ends(s)
      \/ \E what \in {"hide", "show", "show_again"} : Timelines!Goes(s, << [n EXCEPT !.do = what] >>)
  <2>1. PICK what : what = IF shown[side][n.id] = None THEN "show" ELSE "show_again"
    OBVIOUS
  <2>2. what \in {"hide", "show", "show_again"}
    BY <2>1
  <2>3. \/ Timelines!Synchronised(s) \/ Timelines!Ends(s)
        \/ Timelines!Goes(s, << [n EXCEPT !.do = "hide"] >>) \/ Timelines!Goes(s, << [n EXCEPT !.do = what] >>)
    BY <1>1, <2>1 DEF Timelines!Sync
  <2>4. QED
    BY <2>2, <2>3
<1>7. QED
  BY <1>2, <1>3, <1>5, <1>6, QuietDone, QuietEnds DEF Quiets

LEMMA EntryShow ==
  ASSUME TimelineParameters, LinkInv, NEW s \in Slots, Planned(tasks[s]), Timelines!Show(s) \/ Timelines!Hide(s)
  PROVE  Onward(s)
<1>1. /\ ~ Timelines!Idle(s) /\ Timelines!Now(s).do \in {"show", "show_again", "hide"}
      /\ Timelines!Synchronised(s) \/ Timelines!Ends(s)
      /\ UNCHANGED <<works, maintenances, entries, budgets, rows, stored>>
  BY DEF Timelines!Show, Timelines!Hide, Timelines!Doing, Timelines!Refused, Timelines!tables
<1>2. AtQuiet(tasks[s])
  BY <1>1, NowAt, PlanAt DEF Quiets
<1>3. QED
  BY <1>1, <1>2, QuietDone, QuietEnds

(***************************************************************************)
(* What is planned stays planned as long as the tables stay.               *)
(***************************************************************************)

LEMMA SameFields ==
  ASSUME UNCHANGED <<works, maintenances, entries, budgets, rows, stored>>
  PROVE  /\ \A e, row, F : NewEntry(e, row, F) => NewEntry(e, row, F)'
         /\ \A e, row : Rewrites(e, row) => Rewrites(e, row)'
         /\ \A r : FilesAt(r)' = FilesAt(r)
         /\ \A e, f : Spares(e, f) => Spares(e, f)'
         /\ \A e, f, g : Replaces(e, f, g) => Replaces(e, f, g)'
<1>1. ASSUME NEW e, NEW row, NEW F, NewEntry(e, row, F) PROVE NewEntry(e, row, F)'
  BY <1>1, FilesStay, FreeStays DEF NewEntry, Timelines!Exists
<1>2. ASSUME NEW e, NEW row, Rewrites(e, row) PROVE Rewrites(e, row)'
  BY <1>2 DEF Rewrites
<1>3. ASSUME NEW r PROVE FilesAt(r)' = FilesAt(r)
  BY DEF FilesAt
<1>4. ASSUME NEW e, NEW f, Spares(e, f) PROVE Spares(e, f)'
  <2>1. InOrder({}, {}, {}, {f})'
    BY <1>4, OrderSame DEF Spares
  <2>2. QED
    BY <1>4, <2>1 DEF Spares, Timelines!Spare, Timelines!FilesOf
<1>5. ASSUME NEW e, NEW f, NEW g, Replaces(e, f, g) PROVE Replaces(e, f, g)'
  BY <1>5, AllSame, FreeStays DEF Replaces
<1>6. QED
  BY <1>1, <1>2, <1>3, <1>4, <1>5

LEMMA PlanSame ==
  ASSUME NEW p, Planned(p), UNCHANGED <<works, maintenances, entries, budgets, rows, stored>>
  PROVE  Planned(p)'
<1>1. CASE AtQuiet(p)
  <2>1. AtQuiet(p)'
    BY <1>1, AllSame DEF AtQuiet
  <2>2. QED
    BY <2>1 DEF Planned
<1>2. CASE AtMaintenance(p)
  <2>1. PICK m \in Maintenances :
            /\ p = << Timelines!Do("save_maintenance", m, None) >> /\ AllInOrder
            /\ \A e \in Timelines!Entries : entries[e] # None => entries[e].of # m
    BY <1>2 DEF AtMaintenance
  <2>2. AllInOrder' /\ \A e \in Timelines!Entries : entries'[e] # None => entries'[e].of # m
    BY <2>1, AllSame
  <2>3. AtMaintenance(p)'
    BY <2>1, <2>2 DEF AtMaintenance
  <2>4. QED
    BY <2>3 DEF Planned
<1>3. CASE AtNewBudget(p)
  <2>1. PICK e \in Timelines!Entries, b \in Timelines!Budget, row \in Timelines!Entry, F \in SUBSET Timelines!Files :
            /\ p = << Timelines!Do("save_budget", e, b), Timelines!Do("insert_entry", e, row),
                      Timelines!DoFiles("upload", e, F) >>
            /\ NewEntry(e, row, F) /\ row.kind = "budget" /\ row.says = Timelines!Summary(b) /\ AllInOrder
    BY <1>3 DEF AtNewBudget
  <2>2. AllInOrder' /\ NewEntry(e, row, F)'
    BY <2>1, AllSame, SameFields
  <2>3. AtNewBudget(p)'
    BY <2>1, <2>2 DEF AtNewBudget
  <2>4. QED
    BY <2>3 DEF Planned
<1>4. CASE AtInsert(p)
  <2>1. PICK e \in Timelines!Entries, row \in Timelines!Entry, F \in SUBSET Timelines!Files :
            /\ p = << Timelines!Do("insert_entry", e, row), Timelines!DoFiles("upload", e, F) >>
            /\ NewEntry(e, row, F) /\ InOrder({}, {}, {e}, {})
            /\ row.kind = "budget" => budgets[e] # None /\ row.says = Timelines!Summary(budgets[e])
            /\ row.kind # "budget" => budgets[e] = None
    BY <1>4 DEF AtInsert
  <2>2. InOrder({}, {}, {e}, {})' /\ NewEntry(e, row, F)'
    BY <2>1, OrderSame, SameFields
  <2>3. AtInsert(p)'
    BY <2>1, <2>2 DEF AtInsert
  <2>4. QED
    BY <2>3 DEF Planned
<1>5. CASE AtUpload(p)
  <2>1. PICK e \in Timelines!Entries, F \in SUBSET Timelines!Files :
            /\ p = << Timelines!DoFiles("upload", e, F) >> /\ Free(F)
            /\ InOrder(IF F = {} THEN {} ELSE {e}, {}, {}, {})
    BY <1>5 DEF AtUpload
  <2>2. InOrder(IF F = {} THEN {} ELSE {e}, {}, {}, {})' /\ Free(F)'
    BY <2>1, OrderSame, FreeStays
  <2>3. AtUpload(p)'
    BY <2>1, <2>2 DEF AtUpload
  <2>4. QED
    BY <2>3 DEF Planned
<1>6. CASE AtInsertRow(p)
  <2>1. PICK e \in Timelines!Entries, f \in Timelines!Files, F \in SUBSET Timelines!Files :
            /\ p = << Timelines!DoFiles("insert_row", e, {f}), Timelines!DoFiles("upload", e, F) >>
            /\ Free(F) /\ Free({f}) /\ f \in stored \ F /\ InOrder({e}, {}, {}, {})
    BY <1>6 DEF AtInsertRow
  <2>2. InOrder({e}, {}, {}, {})' /\ Free(F)' /\ Free({f})'
    BY <2>1, OrderSame, FreeStays
  <2>3. AtInsertRow(p)'
    BY <2>1, <2>2 DEF AtInsertRow
  <2>4. QED
    BY <2>3 DEF Planned
<1>7. CASE AtRecordFiles(p)
  <2>1. PICK r \in Works \cup Maintenances, F \in SUBSET Timelines!Files :
            /\ p = << Timelines!DoFiles("unlink", None, F), Timelines!Do("delete_record", r, None) >>
            /\ F \subseteq FilesAt(r) /\ InOrder({}, {}, {}, FilesAt(r))
    BY <1>7 DEF AtRecordFiles
  <2>2. PICK L : L = FilesAt(r)
    OBVIOUS
  <2>3. InOrder({}, {}, {}, L)' /\ FilesAt(r)' = L
    BY <2>1, <2>2, OrderSame, SameFields
  <2>4. AtRecordFiles(p)'
    BY <2>1, <2>2, <2>3 DEF AtRecordFiles
  <2>5. QED
    BY <2>4 DEF Planned
<1>8. CASE AtRecord(p)
  <2>1. PICK r \in Works \cup Maintenances :
            /\ p = << Timelines!Do("delete_record", r, None) >> /\ InOrder({}, {}, {}, FilesAt(r))
    BY <1>8 DEF AtRecord
  <2>2. PICK L : L = FilesAt(r)
    OBVIOUS
  <2>3. InOrder({}, {}, {}, L)' /\ FilesAt(r)' = L
    BY <2>1, <2>2, OrderSame, SameFields
  <2>4. AtRecord(p)'
    BY <2>1, <2>3 DEF AtRecord
  <2>5. QED
    BY <2>4 DEF Planned
<1>9. CASE AtAttachment(p)
  <2>1. PICK e \in Timelines!Entries, f \in Timelines!Files, F \in SUBSET Timelines!Files :
            /\ p = << Timelines!DoFiles("unlink", e, F), Timelines!DoFiles("delete_row", e, {f}) >>
            /\ F \subseteq {f} /\ Spares(e, f)
    BY <1>9 DEF AtAttachment
  <2>2. Spares(e, f)'
    BY <2>1, SameFields
  <2>3. AtAttachment(p)'
    BY <2>1, <2>2 DEF AtAttachment
  <2>4. QED
    BY <2>3 DEF Planned
<1>10. CASE AtRow(p)
  <2>1. PICK e \in Timelines!Entries, f \in Timelines!Files :
            p = << Timelines!DoFiles("delete_row", e, {f}) >> /\ Spares(e, f)
    BY <1>10 DEF AtRow
  <2>2. Spares(e, f)'
    BY <2>1, SameFields
  <2>3. AtRow(p)'
    BY <2>1, <2>2 DEF AtRow
  <2>4. QED
    BY <2>3 DEF Planned
<1>11. CASE AtStore(p)
  <2>1. PICK e \in Timelines!Entries, f \in Timelines!Files, g \in Timelines!Files :
            /\ p = << Timelines!DoFiles("store", e, {g}), [Timelines!DoFiles("save_row", e, {g}) EXCEPT !.row = f],
                      Timelines!DoFiles("unlink", e, {f}) >>
            /\ Replaces(e, f, g)
    BY <1>11 DEF AtStore
  <2>2. Replaces(e, f, g)'
    BY <2>1, SameFields
  <2>3. AtStore(p)'
    BY <2>1, <2>2 DEF AtStore
  <2>4. QED
    BY <2>3 DEF Planned
<1>12. CASE AtSaveRow(p)
  <2>1. PICK e \in Timelines!Entries, f \in Timelines!Files, g \in Timelines!Files :
            /\ p = << [Timelines!DoFiles("save_row", e, {g}) EXCEPT !.row = f], Timelines!DoFiles("unlink", e, {f}) >>
            /\ Replaces(e, f, g) /\ g \in stored
    BY <1>12 DEF AtSaveRow
  <2>2. Replaces(e, f, g)' /\ g \in stored'
    BY <2>1, SameFields
  <2>3. AtSaveRow(p)'
    BY <2>1, <2>2 DEF AtSaveRow
  <2>4. QED
    BY <2>3 DEF Planned
<1>13. CASE AtUnlink(p)
  <2>1. PICK e \in Timelines!Entries, F \in SUBSET Timelines!Files :
            p = << Timelines!DoFiles("unlink", e, F) >> /\ Free(F) /\ AllInOrder
    BY <1>13 DEF AtUnlink
  <2>2. Free(F)' /\ AllInOrder'
    BY <2>1, AllSame, FreeStays
  <2>3. AtUnlink(p)'
    BY <2>1, <2>2 DEF AtUnlink
  <2>4. QED
    BY <2>3 DEF Planned
<1>14. CASE AtText(p)
  <2>1. PICK e \in Timelines!Entries, row \in Timelines!Entry :
            /\ p = << Timelines!Do("save_entry", e, row) >> /\ Rewrites(e, row) /\ InOrder({}, {e}, {}, {})
            /\ row.kind = "note" => row.says = "text" \/ (row.says = "nothing" /\ Timelines!FilesOf(e) # {})
            /\ row.kind = "budget" => row.says = Timelines!Summary(budgets[e])
    BY <1>14 DEF AtText
  <2>2. InOrder({}, {e}, {}, {})' /\ Rewrites(e, row)' /\ Timelines!FilesOf(e)' = Timelines!FilesOf(e)
    BY <2>1, OrderSame, SameFields, FilesStay
  <2>3. AtText(p)'
    BY <2>1, <2>2 DEF AtText
  <2>4. QED
    BY <2>3 DEF Planned
<1>15. CASE AtBudget(p)
  <2>1. PICK e \in Timelines!Entries, b \in Timelines!Budget, row \in Timelines!Entry :
            /\ p = << Timelines!Do("save_budget", e, b), Timelines!Do("save_entry", e, row) >>
            /\ Rewrites(e, row) /\ row.kind = "budget" /\ row.says = Timelines!Summary(b) /\ AllInOrder
    BY <1>15 DEF AtBudget
  <2>2. AllInOrder' /\ Rewrites(e, row)'
    BY <2>1, AllSame, SameFields
  <2>3. AtBudget(p)'
    BY <2>1, <2>2 DEF AtBudget
  <2>4. QED
    BY <2>3 DEF Planned
<1>16. CASE AtBudgetGoes(p)
  <2>1. AtBudgetGoes(p)'
    BY <1>16, AllSame DEF AtBudgetGoes
  <2>2. QED
    BY <2>1 DEF Planned
<1>17. CASE AtEntryFiles(p)
  <2>1. PICK e \in Timelines!Entries, F \in SUBSET Timelines!Files :
            /\ p = << Timelines!DoFiles("unlink", e, F), Timelines!Do("delete_entry", e, None) >>
            /\ F \subseteq Timelines!FilesOf(e) /\ budgets[e] = None /\ InOrder({}, {}, {}, Timelines!FilesOf(e))
    BY <1>17 DEF AtEntryFiles
  <2>2. PICK L : L = Timelines!FilesOf(e)
    OBVIOUS
  <2>3. InOrder({}, {}, {}, L)' /\ Timelines!FilesOf(e)' = L
    BY <2>1, <2>2, OrderSame, FilesStay
  <2>4. AtEntryFiles(p)'
    BY <2>1, <2>2, <2>3 DEF AtEntryFiles
  <2>5. QED
    BY <2>4 DEF Planned
<1>18. CASE AtEntry(p)
  <2>1. PICK e \in Timelines!Entries :
            /\ p = << Timelines!Do("delete_entry", e, None) >>
            /\ budgets[e] = None /\ InOrder({}, {}, {}, Timelines!FilesOf(e))
    BY <1>18 DEF AtEntry
  <2>2. PICK L : L = Timelines!FilesOf(e)
    OBVIOUS
  <2>3. InOrder({}, {}, {}, L)' /\ Timelines!FilesOf(e)' = L
    BY <2>1, <2>2, OrderSame, FilesStay
  <2>4. AtEntry(p)'
    BY <2>1, <2>3 DEF AtEntry
  <2>5. QED
    BY <2>4 DEF Planned
<1>19. QED
  BY <1>1, <1>2, <1>3, <1>4, <1>5, <1>6, <1>7, <1>8, <1>9, <1>10, <1>11, <1>12, <1>13, <1>14, <1>15, <1>16, <1>17,
     <1>18 DEF Planned

LEMMA EntryAsks ==
  ASSUME NEW s, Planned(tasks[s]), NEW p, Timelines!Asks(s, p), AllInOrder => Planned(p)
  PROVE  Onward(s)
<1>1. /\ tasks[s] = << >> /\ tasks' = [tasks EXCEPT ![s] = p]
      /\ UNCHANGED <<works, maintenances, entries, budgets, rows, stored>>
  BY DEF Timelines!Asks, Timelines!Idle, Timelines!tables
<1>2. AllInOrder
  BY <1>1, PlanEmpty
<1>3. Planned(p)'
  BY <1>1, <1>2, PlanSame
<1>4. QED
  BY <1>1, <1>3 DEF Onward

LEMMA QuietPlan ==
  ASSUME NEW T, NEW p \in Seq(T), \A i \in 1..Len(p) : p[i].do \in Quiets, AllInOrder PROVE Planned(p)
BY DEF AtQuiet, Planned

LEMMA QuietAsks ==
  ASSUME NEW p
  PROVE  /\ \A x : p = <<x>> /\ x.do \in Quiets => (AllInOrder => Planned(p))
         /\ \A x, y : p = <<x, y>> /\ x.do \in Quiets /\ y.do \in Quiets => (AllInOrder => Planned(p))
         /\ \A x, y, z : p = <<x, y, z>> /\ x.do \in Quiets /\ y.do \in Quiets /\ z.do \in Quiets
                            => (AllInOrder => Planned(p))
<1>1. ASSUME NEW x, p = <<x>>, x.do \in Quiets, AllInOrder PROVE Planned(p)
  <2>1. \E T : p \in Seq(T) /\ \A i \in 1..Len(p) : p[i].do \in Quiets
    <3>1. p \in Seq({x}) /\ Len(p) = 1 /\ p[1] = x
      BY <1>1
    <3>2. \A i \in 1..Len(p) : p[i].do \in Quiets
      BY <1>1, <3>1
    <3>3. QED
      BY <3>1, <3>2
  <2>2. QED
    BY ONLY <1>1, <2>1, QuietPlan
<1>2. ASSUME NEW x, NEW y, p = <<x, y>>, x.do \in Quiets, y.do \in Quiets, AllInOrder PROVE Planned(p)
  <2>1. \E T : p \in Seq(T) /\ \A i \in 1..Len(p) : p[i].do \in Quiets
    <3>1. p \in Seq({x, y}) /\ Len(p) = 2 /\ p[1] = x /\ p[2] = y
      BY <1>2
    <3>2. \A i \in 1..Len(p) : p[i].do \in Quiets
      BY <1>2, <3>1
    <3>3. QED
      BY <3>1, <3>2
  <2>2. QED
    BY ONLY <1>2, <2>1, QuietPlan
<1>3. ASSUME NEW x, NEW y, NEW z, p = <<x, y, z>>, x.do \in Quiets, y.do \in Quiets, z.do \in Quiets, AllInOrder
      PROVE  Planned(p)
  <2>1. \E T : p \in Seq(T) /\ \A i \in 1..Len(p) : p[i].do \in Quiets
    <3>1. p \in Seq({x, y, z}) /\ Len(p) = 3 /\ p[1] = x /\ p[2] = y /\ p[3] = z
      BY <1>3
    <3>2. \A i \in 1..Len(p) : p[i].do \in Quiets
      BY <1>3, <3>1
    <3>3. QED
      BY <3>1, <3>2
  <2>2. QED
    BY ONLY <1>3, <2>1, QuietPlan
<1>4. QED
  BY <1>1, <1>2, <1>3

(***************************************************************************)
(* The requests.                                                           *)
(***************************************************************************)

LEMMA EntryRecordRequests ==
  ASSUME TimelineParameters, LinkInv, NEW s \in Slots, Planned(tasks[s]), Timelines!RecordRequests(s)
  PROVE  Onward(s)
<1>1. ASSUME NEW what \in Quiets, NEW id, NEW row, Timelines!Asks(s, << Timelines!Do(what, id, row) >>) PROVE Onward(s)
  <2>1. PICK x, p : x = Timelines!Do(what, id, row) /\ p = <<x>>
    OBVIOUS
  <2>2. AllInOrder => Planned(p)
    BY <2>1, DoIs, QuietAsks
  <2>3. QED
    BY <1>1, <2>1, <2>2, EntryAsks
<1>2. CASE \E w \in Works, active \in BOOLEAN : Timelines!CreateWork(s, w, active) \/ Timelines!UpdateWork(s, w, active)
  <2>1. \E w, row : Timelines!Asks(s, << Timelines!Do("save_work", w, row) >>)
    BY <1>2 DEF Timelines!CreateWork, Timelines!UpdateWork
  <2>2. QED
    BY <1>1, <2>1 DEF Quiets
<1>3. CASE \E queue \in [1..Timelines!QueueLength -> Works] : Timelines!ReorderQueue(s, queue)
  <2>1. \E queue : Timelines!Asks(s, << Timelines!Do("reorder", None, queue) >>)
    BY <1>3 DEF Timelines!ReorderQueue
  <2>2. QED
    BY <1>1, <2>1 DEF Quiets
<1>4. CASE \E m \in Maintenances : Timelines!CreateMaintenance(s, m)
  <2>1. PICK m \in Maintenances : Timelines!CreateMaintenance(s, m)
    BY <1>4
  <2>2. PICK p : p = << Timelines!Do("save_maintenance", m, None) >>
    OBVIOUS
  <2>3. Timelines!Asks(s, p) /\ \A e \in Timelines!Entries : entries[e] # None => entries[e].of # m
    BY <2>1, <2>2 DEF Timelines!CreateMaintenance, Timelines!Unused
  <2>4. AllInOrder => AtMaintenance(p)
    BY <2>2, <2>3 DEF AtMaintenance
  <2>5. QED
    BY <2>3, <2>4, EntryAsks DEF Planned
<1>5. CASE \/ \E m \in Maintenances : Timelines!RemoveMaintenance(s, m)
           \/ \E w \in Works : Timelines!RemoveWork(s, w)
  <2>1. PICK r \in Works \cup Maintenances : Timelines!RemoveMaintenance(s, r) \/ Timelines!RemoveWork(s, r)
    BY <1>5
  <2>2. PICK F : F = UNION {Timelines!FilesOf(e) : e \in {x \in Timelines!Entries : entries[x] # None /\ entries[x].of = r}}
    OBVIOUS
  <2>3. PICK p : p = << Timelines!DoFiles("unlink", None, F), Timelines!Do("delete_record", r, None) >>
    OBVIOUS
  <2>4. Timelines!Asks(s, p)
    BY <2>1, <2>2, <2>3 DEF Timelines!RemoveMaintenance, Timelines!RemoveWork
  <2>5. F \in SUBSET Timelines!Files /\ F \subseteq FilesAt(r)
    <3>1. SUFFICES ASSUME NEW f \in F PROVE f \in Timelines!Files /\ f \in FilesAt(r)
      OBVIOUS
    <3>2. PICK x \in Timelines!Entries : entries[x] # None /\ entries[x].of = r /\ f \in Timelines!FilesOf(x)
      BY <2>2
    <3>3. f \in Timelines!Files /\ rows[f] = x
      BY <3>2 DEF Timelines!FilesOf
    <3>4. x # None
      BY <3>2 DEF TimelineParameters
    <3>5. QED
      BY <3>2, <3>3, <3>4 DEF FilesAt
  <2>6. ASSUME AllInOrder PROVE AtRecordFiles(p)
    <3>1. PICK L : L = FilesAt(r)
      OBVIOUS
    <3>2. InOrder({}, {}, {}, L)
      BY <2>6, OrderMore DEF AllInOrder
    <3>3. QED
      BY <2>3, <2>5, <3>1, <3>2 DEF AtRecordFiles
  <2>7. QED
    BY <2>4, <2>6, EntryAsks DEF Planned
<1>6. QED
  BY <1>2, <1>3, <1>4, <1>5 DEF Timelines!RecordRequests, Timelines!QueueLength

\* A new entry takes a number that nothing has.
LEMMA NewNumber ==
  ASSUME TimelineParameters, NEW e, e = Timelines!Least(Timelines!NewEntries), Timelines!NewEntries # {}
  PROVE  e \in Timelines!Entries /\ entries[e] = None /\ budgets[e] = None /\ Timelines!FilesOf(e) = {}
<1>1. e \in Timelines!NewEntries
  BY LeastOf DEF Timelines!NewEntries, Timelines!Entries, TimelineParameters
<1>2. QED
  BY <1>1 DEF Timelines!NewEntries, Timelines!FilesOf

LEMMA EntryAdds ==
  ASSUME TimelineParameters, LinkInv, NEW s \in Slots, Planned(tasks[s]), NEW row \in Timelines!Entry,
         NEW batch \in Timelines!Uploads, Timelines!Exists(row.of), row.of \in Maintenances => row.kind = "note",
         row.kind = "note" => row.says = "text" \/ (row.says = "nothing" /\ batch # {}),
         row.kind = "legal" => batch # {},
         \/ row.kind # "budget" /\ Timelines!Adds(s, row, batch, << >>)
         \/ \E b \in Timelines!Budget :
                /\ row.kind = "budget" /\ row.says = Timelines!Summary(b)
                /\ Timelines!Adds(s, row, batch, << Timelines!Do("save_budget", Timelines!Least(Timelines!NewEntries), b) >>)
  PROVE  Onward(s)
<1>1. PICK e : e = Timelines!Least(Timelines!NewEntries)
  OBVIOUS
<1>2. e \in Timelines!Entries /\ entries[e] = None /\ budgets[e] = None /\ Timelines!FilesOf(e) = {}
  BY <1>1, NewNumber DEF Timelines!Adds
<1>3. batch \in SUBSET Timelines!Files /\ Free(batch)
  BY DEF Timelines!Uploads, Timelines!NewFiles, Free
<1>4. NewEntry(e, row, batch)
  BY <1>2, <1>3 DEF NewEntry
<1>5. PICK x, y : x = Timelines!Do("insert_entry", e, row) /\ y = Timelines!DoFiles("upload", e, batch)
  OBVIOUS
<1>6. CASE row.kind # "budget" /\ Timelines!Adds(s, row, batch, << >>)
  <2>1. << >> \o <<x, y>> = <<x, y>>
    BY JoinTwo
  <2>2. Timelines!Asks(s, << >> \o <<x, y>>)
    BY <1>1, <1>5, <1>6 DEF Timelines!Adds
  <2>3. PICK p : p = <<x, y>>
    OBVIOUS
  <2>4. Timelines!Asks(s, p)
    BY <2>1, <2>2, <2>3
  <2>5. ASSUME AllInOrder PROVE AtInsert(p)
    <3>1. InOrder({}, {}, {e}, {})
      BY <2>5, OrderMore DEF AllInOrder
    <3>2. QED
      BY <1>2, <1>3, <1>4, <1>5, <1>6, <2>3, <3>1 DEF AtInsert
  <2>6. QED
    BY <2>4, <2>5, EntryAsks DEF Planned
<1>7. ASSUME NEW b \in Timelines!Budget, row.kind = "budget", row.says = Timelines!Summary(b),
             Timelines!Adds(s, row, batch, << Timelines!Do("save_budget", e, b) >>)
      PROVE  Onward(s)
  <2>1. PICK w : w = Timelines!Do("save_budget", e, b)
    OBVIOUS
  <2>2. <<w>> \o <<x, y>> = <<w, x, y>>
    BY JoinTwo
  <2>3. Timelines!Asks(s, <<w>> \o <<x, y>>)
    BY <1>1, <1>5, <1>7, <2>1 DEF Timelines!Adds
  <2>4. PICK p : p = <<w, x, y>>
    OBVIOUS
  <2>5. Timelines!Asks(s, p)
    BY <2>2, <2>3, <2>4
  <2>6. ASSUME AllInOrder PROVE AtNewBudget(p)
    BY <1>2, <1>3, <1>4, <1>5, <1>7, <2>1, <2>4, <2>6 DEF AtNewBudget
  <2>7. QED
    BY <2>5, <2>6, EntryAsks DEF Planned
<1>8. QED
  BY <1>1, <1>6, <1>7

LEMMA EntryAddRequests ==
  ASSUME TimelineParameters, LinkInv, NEW s \in Slots, Planned(tasks[s]), NEW batch \in Timelines!Uploads,
         \/ \E text \in BOOLEAN : \/ \E w \in Works : Timelines!AddNote(s, w, text, batch)
                                  \/ \E m \in Maintenances : Timelines!AddMaintenanceNote(s, m, text, batch)
         \/ \E w \in Works : \/ Timelines!AddLegal(s, w, batch)
                             \/ \E budget \in Budgets : Timelines!AddBudget(s, w, budget, batch)
  PROVE  Onward(s)
<1>1. ASSUME NEW text \in BOOLEAN, NEW r \in Works \cup Maintenances,
             \/ r \in Works /\ Timelines!AddNote(s, r, text, batch)
             \/ Timelines!AddMaintenanceNote(s, r, text, batch)
      PROVE  Onward(s)
  <2>1. PICK row : row = [of |-> r, kind |-> "note", says |-> Timelines!Says(text)]
    OBVIOUS
  <2>2. Timelines!Says(text) \in {"nothing", "text"} /\ (text \/ batch # {}) /\ (text => Timelines!Says(text) = "text")
    BY <1>1 DEF Timelines!AddNote, Timelines!AddMaintenanceNote, Timelines!Says
  <2>3. /\ row \in Timelines!Entry /\ row.of = r /\ row.kind = "note"
        /\ row.says = "text" \/ (row.says = "nothing" /\ batch # {})
    BY <2>1, <2>2 DEF Timelines!Entry
  <2>4. Timelines!Exists(r)
    BY <1>1 DEF Timelines!AddNote, Timelines!AddMaintenanceNote, Timelines!Exists
  <2>5. Timelines!Adds(s, row, batch, << >>)
    BY <1>1, <2>1 DEF Timelines!AddNote, Timelines!AddMaintenanceNote
  <2>6. row.kind # "budget" /\ row.kind # "legal"
    BY <2>3
  <2>7. QED
    BY <2>3, <2>4, <2>5, <2>6, EntryAdds
<1>2. ASSUME NEW w \in Works, Timelines!AddLegal(s, w, batch) PROVE Onward(s)
  <2>1. PICK row : row = [of |-> w, kind |-> "legal", says |-> "text"]
    OBVIOUS
  <2>2. row \in Timelines!Entry /\ row.of = w /\ row.kind = "legal"
    BY <2>1 DEF Timelines!Entry
  <2>3. Timelines!Exists(w) /\ batch # {} /\ w \notin Maintenances
    BY <1>2 DEF Timelines!AddLegal, Timelines!Exists, TimelineParameters
  <2>4. Timelines!Adds(s, row, batch, << >>)
    BY <1>2, <2>1 DEF Timelines!AddLegal
  <2>5. QED
    BY <2>2, <2>3, <2>4, EntryAdds
<1>3. ASSUME NEW w \in Works, NEW budget \in Budgets, Timelines!AddBudget(s, w, budget, batch) PROVE Onward(s)
  <2>1. PICK row : row = [of |-> w, kind |-> "budget", says |-> Timelines!Summary(budget)]
    OBVIOUS
  <2>2. row \in Timelines!Entry /\ row.of = w /\ row.kind = "budget" /\ row.says = Timelines!Summary(budget)
    BY <2>1 DEF Timelines!Entry, Timelines!Summary
  <2>3. Timelines!Exists(w) /\ budget \in Timelines!Budget /\ w \notin Maintenances
    BY <1>3 DEF Timelines!AddBudget, Timelines!Exists, TimelineParameters
  <2>4. Timelines!Adds(s, row, batch, << Timelines!Do("save_budget", Timelines!Least(Timelines!NewEntries), budget) >>)
    BY <1>3, <2>1 DEF Timelines!AddBudget
  <2>5. QED
    BY <2>2, <2>3, <2>4, EntryAdds
<1>4. QED
  BY <1>1, <1>2, <1>3

LEMMA EntryFileRequests ==
  ASSUME TimelineParameters, LinkInv, NEW s \in Slots, Planned(tasks[s]), NEW e \in Timelines!Entries,
         \/ \E batch \in Timelines!Uploads : Timelines!AddTimelineEntryAttachments(s, e, batch)
         \/ \E f \in Timelines!Files : \/ Timelines!RemoveTimelineAttachment(s, e, f)
                                       \/ Timelines!ReplaceTimelineAttachment(s, e, f)
  PROVE  Onward(s)
<1>1. ASSUME NEW batch \in Timelines!Uploads, Timelines!AddTimelineEntryAttachments(s, e, batch) PROVE Onward(s)
  <2>1. PICK p : p = << Timelines!DoFiles("upload", e, batch) >>
    OBVIOUS
  <2>2. batch \in SUBSET Timelines!Files /\ Free(batch)
    BY DEF Timelines!Uploads, Timelines!NewFiles, Free
  <2>3. ASSUME AllInOrder PROVE AtUpload(p)
    <3>1. PICK bare : bare = IF batch = {} THEN {} ELSE {e}
      OBVIOUS
    <3>2. InOrder(bare, {}, {}, {})
      BY <2>3, OrderMore DEF AllInOrder
    <3>3. InOrder(IF batch = {} THEN {} ELSE {e}, {}, {}, {})
      BY <3>1, <3>2
    <3>4. QED
      BY <2>1, <2>2, <3>3 DEF AtUpload
  <2>4. Timelines!Asks(s, p)
    BY <1>1, <2>1 DEF Timelines!AddTimelineEntryAttachments
  <2>5. QED
    BY <2>3, <2>4, EntryAsks DEF Planned
<1>2. ASSUME NEW f \in Timelines!Files, Timelines!RemoveTimelineAttachment(s, e, f) PROVE Onward(s)
  <2>1. PICK F, p : F = {f} /\ p = << Timelines!DoFiles("unlink", e, F), Timelines!DoFiles("delete_row", e, {f}) >>
    OBVIOUS
  <2>2. rows[f] = e /\ entries[e] # None /\ Timelines!Spare(e, f) /\ Timelines!Asks(s, p)
    BY <1>2, <2>1 DEF Timelines!RemoveTimelineAttachment, Timelines!OnWork
  <2>3. ASSUME AllInOrder PROVE AtAttachment(p)
    <3>1. InOrder({}, {}, {}, {f})
      BY <2>3, OrderMore DEF AllInOrder
    <3>2. Spares(e, f)
      BY <2>2, <3>1 DEF Spares
    <3>3. F \in SUBSET Timelines!Files /\ F \subseteq {f}
      BY <2>1
    <3>4. QED
      BY <2>1, <3>2, <3>3 DEF AtAttachment
  <2>4. QED
    BY <2>2, <2>3, EntryAsks DEF Planned
<1>3. ASSUME NEW f \in Timelines!Files, Timelines!ReplaceTimelineAttachment(s, e, f) PROVE Onward(s)
  <2>1. PICK g : g = Timelines!Least(Timelines!NewFiles)
    OBVIOUS
  <2>2. g \in Timelines!NewFiles
    BY <1>3, <2>1, LeastOf DEF Timelines!ReplaceTimelineAttachment, Timelines!NewFiles, Timelines!Files,
       TimelineParameters
  <2>3. g \in Timelines!Files /\ Free({g})
    BY <2>2 DEF Timelines!NewFiles, Free
  <2>4. PICK p : p = << Timelines!DoFiles("store", e, {g}), [Timelines!DoFiles("save_row", e, {g}) EXCEPT !.row = f],
                        Timelines!DoFiles("unlink", e, {f}) >>
    OBVIOUS
  <2>5. Timelines!Asks(s, p) /\ rows[f] = e
    BY <1>3, <2>1, <2>4 DEF Timelines!ReplaceTimelineAttachment
  <2>6. ASSUME AllInOrder PROVE AtStore(p)
    <3>1. Replaces(e, f, g)
      BY <2>3, <2>5, <2>6 DEF Replaces
    <3>2. QED
      BY <2>3, <2>4, <3>1 DEF AtStore
  <2>7. QED
    BY <2>5, <2>6, EntryAsks DEF Planned
<1>4. QED
  BY <1>1, <1>2, <1>3

LEMMA EntryTextRequests ==
  ASSUME TimelineParameters, LinkInv, NEW s \in Slots, Planned(tasks[s]), NEW e \in Timelines!Entries,
         \/ \E text \in BOOLEAN : Timelines!UpdateNote(s, e, text) \/ Timelines!UpdateMaintenanceNote(s, e, text)
         \/ \E budget \in Budgets : Timelines!UpdateBudget(s, e, budget)
         \/ Timelines!RemoveTimelineEntry(s, e) \/ Timelines!RemoveMaintenanceEntry(s, e)
  PROVE  Onward(s)
<1>1. /\ maintenances \subseteq Maintenances /\ Works \cap Maintenances = {}
      /\ entries[e] # None => entries[e] \in Timelines!Entry
  BY DEF LinkInv, TimelineTables, Timelines!TimelineTypeOK, TimelineParameters
\* What the order of the timelines says of the entry.
<1>2. ASSUME AllInOrder, entries[e] # None
      PROVE  /\ entries[e].of \in maintenances => entries[e].kind = "note"
             /\ budgets[e] # None => entries[e].kind = "budget"
  BY <1>1, <1>2 DEF AllInOrder, InOrder, Placed
<1>3. ASSUME entries[e] # None, NEW said \in {"nothing", "text", "waiting", "amount"}, NEW row,
             row = [entries[e] EXCEPT !.says = said]
      PROVE  row \in Timelines!Entry /\ Rewrites(e, row) /\ row.says = said /\ row.kind = entries[e].kind
  BY <1>1, <1>3 DEF Timelines!Entry, Rewrites
<1>4. ASSUME NEW text \in BOOLEAN, Timelines!UpdateNote(s, e, text) \/ Timelines!UpdateMaintenanceNote(s, e, text)
      PROVE  Onward(s)
  <2>1. PICK row : row = [entries[e] EXCEPT !.says = Timelines!Says(text)]
    OBVIOUS
  <2>2. /\ entries[e] # None /\ Timelines!Says(text) = (IF text THEN "text" ELSE "nothing")
        /\ \/ entries[e].kind \in {"note", "legal"} /\ (entries[e].kind = "note" => text \/ Timelines!FilesOf(e) # {})
           \/ entries[e].of \in maintenances /\ (text \/ Timelines!FilesOf(e) # {})
    BY <1>4 DEF Timelines!UpdateNote, Timelines!UpdateMaintenanceNote, Timelines!OnWork, Timelines!Says
  <2>3. /\ row \in Timelines!Entry /\ Rewrites(e, row) /\ row.kind = entries[e].kind
        /\ row.says = IF text THEN "text" ELSE "nothing"
    BY <1>3, <2>1, <2>2
  <2>4. PICK p : p = << Timelines!Do("save_entry", e, row) >>
    OBVIOUS
  <2>5. Timelines!Asks(s, p)
    BY <1>4, <2>1, <2>4 DEF Timelines!UpdateNote, Timelines!UpdateMaintenanceNote
  <2>6. ASSUME AllInOrder PROVE AtText(p)
    <3>1. InOrder({}, {e}, {}, {})
      BY <2>6, OrderMore DEF AllInOrder
    <3>2. row.kind = "note" => row.says = "text" \/ (row.says = "nothing" /\ Timelines!FilesOf(e) # {})
      BY <2>2, <2>3
    <3>3. row.kind # "budget"
      BY <1>2, <2>2, <2>3, <2>6
    <3>4. QED
      BY <2>3, <2>4, <3>1, <3>2, <3>3 DEF AtText
  <2>7. QED
    BY <2>5, <2>6, EntryAsks DEF Planned
<1>5. ASSUME NEW budget \in Budgets, Timelines!UpdateBudget(s, e, budget) PROVE Onward(s)
  <2>1. PICK row : row = [entries[e] EXCEPT !.says = Timelines!Summary(budget)]
    OBVIOUS
  <2>2. /\ entries[e] # None /\ budgets[e] # None /\ budget \in Timelines!Budget
        /\ Timelines!Summary(budget) \in {"nothing", "text", "waiting", "amount"}
    BY <1>5 DEF Timelines!UpdateBudget, Timelines!OnWork, Timelines!Summary, TimelineParameters
  <2>3. row \in Timelines!Entry /\ Rewrites(e, row) /\ row.says = Timelines!Summary(budget) /\ row.kind = entries[e].kind
    BY <1>3, <2>1, <2>2
  <2>4. PICK p : p = << Timelines!Do("save_budget", e, budget), Timelines!Do("save_entry", e, row) >>
    OBVIOUS
  <2>5. Timelines!Asks(s, p)
    BY <1>5, <2>1, <2>4 DEF Timelines!UpdateBudget
  <2>6. ASSUME AllInOrder PROVE AtBudget(p)
    <3>1. row.kind = "budget"
      BY <1>2, <2>2, <2>3, <2>6
    <3>2. QED
      BY <2>2, <2>3, <2>4, <2>6, <3>1 DEF AtBudget
  <2>7. QED
    BY <2>5, <2>6, EntryAsks DEF Planned
<1>6. ASSUME Timelines!RemoveTimelineEntry(s, e) PROVE Onward(s)
  <2>1. PICK p, q : /\ p = << Timelines!Do("delete_budget", e, None), Timelines!Do("delete_entry", e, None) >>
                    /\ q = << Timelines!Do("delete_entry", e, None) >>
    OBVIOUS
  <2>2. entries[e] # None /\ Timelines!Asks(s, IF entries[e].kind = "budget" THEN p ELSE q)
    BY <1>6, <2>1 DEF Timelines!RemoveTimelineEntry, Timelines!OnWork
  <2>3. CASE entries[e].kind = "budget"
    <3>1. Timelines!Asks(s, p)
      BY <2>2, <2>3
    <3>2. AllInOrder => AtBudgetGoes(p)
      BY <2>1 DEF AtBudgetGoes
    <3>3. QED
      BY <3>1, <3>2, EntryAsks DEF Planned
  <2>4. CASE entries[e].kind # "budget"
    <3>1. Timelines!Asks(s, q)
      BY <2>2, <2>4
    <3>2. ASSUME AllInOrder PROVE AtEntry(q)
      <4>1. PICK L : L = Timelines!FilesOf(e)
        OBVIOUS
      <4>2. InOrder({}, {}, {}, L) /\ budgets[e] = None
        BY <1>2, <2>2, <2>4, <3>2, OrderMore DEF AllInOrder
      <4>3. QED
        BY <2>1, <4>1, <4>2 DEF AtEntry
    <3>3. QED
      BY <3>1, <3>2, EntryAsks DEF Planned
  <2>5. QED
    BY <2>3, <2>4
<1>7. ASSUME Timelines!RemoveMaintenanceEntry(s, e) PROVE Onward(s)
  <2>1. PICK L : L = Timelines!FilesOf(e)
    OBVIOUS
  <2>2. PICK p : p = << Timelines!DoFiles("unlink", e, L), Timelines!Do("delete_entry", e, None) >>
    OBVIOUS
  <2>3. entries[e] # None /\ entries[e].of \in maintenances /\ Timelines!Asks(s, p)
    BY <1>7, <2>1, <2>2 DEF Timelines!RemoveMaintenanceEntry
  <2>4. ASSUME AllInOrder PROVE AtEntryFiles(p)
    <3>1. InOrder({}, {}, {}, L)
      BY <2>4, OrderMore DEF AllInOrder
    <3>2. budgets[e] = None
      BY <1>2, <2>3, <2>4
    <3>3. L \in SUBSET Timelines!Files
      BY <2>1 DEF Timelines!FilesOf
    <3>4. QED
      BY <2>1, <2>2, <3>1, <3>2, <3>3 DEF AtEntryFiles
  <2>5. QED
    BY <2>3, <2>4, EntryAsks DEF Planned
<1>8. QED
  BY <1>4, <1>5, <1>6, <1>7

LEMMA EntryTransactionRequests ==
  ASSUME TimelineParameters, LinkInv, NEW s \in Slots, Planned(tasks[s]), Timelines!TransactionRequests(s)
  PROVE  Onward(s)
<1>1. ASSUME NEW t, NEW row, NEW sides,
             Timelines!Asks(s, << Timelines!Do("commit", t, row), Timelines!Do("load", t, sides) >>)
      PROVE  Onward(s)
  <2>1. PICK x, y, p : x = Timelines!Do("commit", t, row) /\ y = Timelines!Do("load", t, sides) /\ p = <<x, y>>
    OBVIOUS
  <2>2. x.do \in Quiets /\ y.do \in Quiets
    BY <2>1, DoIs DEF Quiets
  <2>3. AllInOrder => Planned(p)
    BY <2>1, <2>2, QuietAsks
  <2>4. QED
    BY <1>1, <2>1, <2>3, EntryAsks
<1>2. ASSUME NEW t, Timelines!RemoveTransaction(s, t) PROVE Onward(s)
  <2>1. PICK x, y, z, p : /\ x = Timelines!Find("work", t, Timelines!Unlinked)
                          /\ y = Timelines!Find("maintenance", t, Timelines!Unlinked)
                          /\ z = Timelines!Do("delete_txs", t, {t}) /\ p = <<x, y, z>>
    OBVIOUS
  <2>2. x.do \in Quiets /\ y.do \in Quiets /\ z.do \in Quiets
    BY <2>1, DoIs, FindFields DEF Quiets
  <2>3. AllInOrder => Planned(p)
    BY <2>1, <2>2, QuietAsks
  <2>4. Timelines!Asks(s, p)
    BY <1>2, <2>1 DEF Timelines!RemoveTransaction
  <2>5. QED
    BY <2>3, <2>4, EntryAsks
<1>3. ASSUME NEW ts, Timelines!RemoveRecurringSeries(s, ts) PROVE Onward(s)
  <2>1. PICK x, p : x = Timelines!Do("delete_txs", None, ts) /\ p = <<x>>
    OBVIOUS
  <2>2. AllInOrder => Planned(p)
    BY <2>1, DoIs, QuietAsks DEF Quiets
  <2>3. Timelines!Asks(s, p)
    BY <1>3, <2>1 DEF Timelines!RemoveRecurringSeries
  <2>4. QED
    BY <2>2, <2>3, EntryAsks
<1>4. ASSUME NEW side, NEW ts, NEW r, Timelines!BulkAssign(s, side, ts, r) PROVE Onward(s)
  <2>1. PICK row : row = [t \in ts |-> [txs[t] EXCEPT ![side] = r]]
    OBVIOUS
  <2>2. PICK w, x, p : w = Timelines!Do("assign", None, row) /\ x = [w EXCEPT !.side = side] /\ p = <<x>>
    OBVIOUS
  <2>3. x.do = "assign"
    BY <2>2, DoFields DEF Columns
  <2>4. AllInOrder => Planned(p)
    BY <2>2, <2>3, QuietAsks DEF Quiets
  <2>5. Timelines!Asks(s, p)
    BY <1>4, <2>1, <2>2 DEF Timelines!BulkAssign
  <2>6. QED
    BY <2>4, <2>5, EntryAsks
<1>5. QED
  BY <1>1, <1>2, <1>3, <1>4 DEF Timelines!TransactionRequests, Timelines!CreateTransaction, Timelines!UpdateTransaction,
     Timelines!Settle, Timelines!Cancel, Timelines!Reopen, Timelines!ChangeStatus, Timelines!BulkAssignWork,
     Timelines!BulkAssignMaintenance

LEMMA EntryInit == ASSUME TimelineParameters, Timelines!Init PROVE EntryInv
<1>1. PICK w \in Works : entries = [e \in Timelines!Entries |-> IF e = 1 THEN [of |-> w, kind |-> "legal", says |-> "text"]
                                                                 ELSE None]
  BY DEF Timelines!Init
<1>2. /\ budgets = [e \in Timelines!Entries |-> None] /\ rows = [f \in Timelines!Files |-> IF f = 1 THEN 1 ELSE None]
      /\ stored = {1} /\ tasks = [s \in Slots |-> << >>] /\ stops = 0
  BY DEF Timelines!Init
<1>3. 1 \in Timelines!Files /\ None \notin Timelines!Entries /\ w \notin Maintenances
  BY DEF TimelineParameters
<1>4. works[w] # None
  <2>1. Cardinality(Works) \in Nat
    BY FS_CardinalityType DEF TimelineParameters
  <2>2. PICK n : n = Timelines!Cardinality(Works) - 1
    OBVIOUS
  <2>3. works \in [Works -> [active : {TRUE}, order : 0..n]] /\ n = Cardinality(Works) - 1
    BY <2>2 DEF Timelines!Init, Timelines!Cardinality, Cardinality
  <2>4. PICK x : x = works[w]
    OBVIOUS
  <2>5. x \in [active : {TRUE}, order : 0..n]
    BY <2>3, <2>4
  <2>6. x = [active |-> x.active, order |-> x.order] /\ x.active \in BOOLEAN /\ x.order \in Nat
    <3>1. x = [active |-> x.active, order |-> x.order] /\ x.active \in {TRUE} /\ x.order \in 0..n
      BY <2>5
    <3>2. n \in Int
      BY <2>1, <2>3
    <3>3. x.active \in BOOLEAN
      BY <3>1, Zenon
    <3>4. PICK k : k = x.order
      OBVIOUS
    <3>5. k \in 0..n
      BY <3>1, <3>4
    <3>6. k \in Nat
      BY ONLY <3>2, <3>5
    <3>7. x.order \in Nat
      BY <3>4, <3>6
    <3>8. QED
      BY <3>1, <3>3, <3>7
  <2>7. x \in Timelines!Work
    BY <2>6 DEF Timelines!Work
  <2>8. QED
    BY <2>4, <2>7 DEF TimelineParameters
<1>5. AllInOrder
  <2>1. SUFFICES ASSUME NEW e \in Timelines!Entries
                 PROVE  /\ entries[e] # None => Placed(e) /\ Speaks(e, {}, {}) /\ Keeps(e, {})
                        /\ budgets[e] # None => e \in {} \/ (entries[e] # None /\ entries[e].kind = "budget")
    BY DEF AllInOrder, InOrder
  <2>2. ASSUME entries[e] # None PROVE Placed(e) /\ Speaks(e, {}, {}) /\ Keeps(e, {})
    <3>1. e = 1 /\ entries[e].of = w /\ entries[e].kind = "legal"
      BY <1>1, <2>2
    <3>2. Timelines!FilesOf(e) = {1}
      BY <1>2, <1>3, <3>1 DEF Timelines!FilesOf
    <3>3. QED
      BY <1>2, <1>3, <1>4, <3>1, <3>2 DEF Placed, Speaks, Keeps
  <2>3. QED
    BY <1>2, <2>2
<1>6. \A s \in Slots : Planned(tasks[s])
  BY <1>2, <1>5, PlanDone
<1>7. QED
  BY <1>2, <1>5, <1>6 DEF EntryInv

\* No statement or request but a cut counts as one.
LEMMA StopsStay ==
  ASSUME NEW s, \/ Timelines!RecordRequests(s) \/ Timelines!EntryRequests(s) \/ Timelines!TransactionRequests(s)
                \/ Timelines!Steps(s)
  PROVE  stops' = stops
<1>1. ASSUME NEW p, Timelines!Asks(s, p) PROVE stops' = stops
  BY <1>1 DEF Timelines!Asks
<1>2. CASE Timelines!RecordRequests(s)
  BY <1>1, <1>2 DEF Timelines!RecordRequests, Timelines!CreateWork, Timelines!UpdateWork, Timelines!ReorderQueue,
     Timelines!CreateMaintenance, Timelines!RemoveWork, Timelines!RemoveMaintenance
<1>3. CASE Timelines!EntryRequests(s)
  BY <1>1, <1>3 DEF Timelines!EntryRequests, Timelines!Adds, Timelines!AddNote, Timelines!AddMaintenanceNote,
     Timelines!AddLegal, Timelines!AddBudget, Timelines!AddTimelineEntryAttachments,
     Timelines!RemoveTimelineAttachment, Timelines!ReplaceTimelineAttachment, Timelines!UpdateNote,
     Timelines!UpdateMaintenanceNote, Timelines!UpdateBudget, Timelines!RemoveTimelineEntry,
     Timelines!RemoveMaintenanceEntry
<1>4. CASE Timelines!TransactionRequests(s)
  BY <1>1, <1>4 DEF Timelines!TransactionRequests, Timelines!CreateTransaction, Timelines!UpdateTransaction,
     Timelines!Settle, Timelines!Cancel, Timelines!Reopen, Timelines!ChangeStatus, Timelines!RemoveTransaction,
     Timelines!RemoveRecurringSeries, Timelines!BulkAssignWork, Timelines!BulkAssignMaintenance, Timelines!BulkAssign
<1>5. ASSUME NEW first, Timelines!Goes(s, first) PROVE stops' = stops
  BY <1>5 DEF Timelines!Goes, Timelines!control
<1>6. Timelines!Done(s) => stops' = stops
  BY <1>5 DEF Timelines!Done
<1>7. Timelines!Synchronised(s) => stops' = stops
  BY DEF Timelines!Synchronised
<1>8. CASE \/ Timelines!SaveWork(s) \/ Timelines!SaveQueue(s) \/ Timelines!SaveMaintenance(s) \/ Timelines!DeleteRecord(s)
           \/ Timelines!InsertEntry(s) \/ Timelines!Upload(s) \/ Timelines!InsertRow(s) \/ Timelines!Unlink(s)
           \/ Timelines!Through(s) \/ Timelines!DeleteRow(s) \/ Timelines!Store(s) \/ Timelines!SaveRow(s)
           \/ Timelines!SaveBudget(s) \/ Timelines!SaveEntry(s) \/ Timelines!DeleteEntry(s)
  BY <1>5, <1>6, <1>8 DEF Timelines!SaveWork, Timelines!SaveQueue, Timelines!SaveMaintenance, Timelines!DeleteRecord,
     Timelines!InsertEntry, Timelines!Upload, Timelines!InsertRow, Timelines!Unlink, Timelines!Through,
     Timelines!DeleteRow, Timelines!Store, Timelines!SaveRow, Timelines!SaveBudget, Timelines!SaveEntry,
     Timelines!DeleteEntry, Timelines!Refused
<1>9. CASE \/ Timelines!Assign(s) \/ Timelines!Commit(s) \/ Timelines!Load(s) \/ Timelines!DeleteTransactions(s)
           \/ Timelines!SyncWork(s) \/ Timelines!SyncMaintenance(s) \/ Timelines!Show(s) \/ Timelines!Hide(s)
  BY <1>5, <1>6, <1>7, <1>9 DEF Timelines!Assign, Timelines!Commit, Timelines!Load, Timelines!DeleteTransactions,
     Timelines!SyncWork, Timelines!SyncMaintenance, Timelines!Sync, Timelines!Show, Timelines!Hide, Timelines!Refused
<1>10. QED
  BY <1>2, <1>3, <1>4, <1>8, <1>9 DEF Timelines!Steps

LEMMA EntryStep ==
  ASSUME TimelineParameters, OneForm, LinkInv, EntryInv, Timelines!Next PROVE EntryInv'
<1>1. PICK s \in Slots : \/ Timelines!RecordRequests(s) \/ Timelines!EntryRequests(s)
                         \/ Timelines!TransactionRequests(s) \/ Timelines!Steps(s) \/ Timelines!Stop(s)
  BY DEF Timelines!Next
<1>2. CASE Timelines!Stop(s)
  <2>1. stops' = stops + 1 /\ stops \in Nat
    BY <1>2 DEF Timelines!Stop, EntryInv
  <2>2. stops' \in Nat /\ stops' # 0
    BY <2>1
  <2>3. QED
    BY <2>2 DEF EntryInv
<1>3. CASE ~ Timelines!Stop(s)
  <2>1. stops' = stops
    BY <1>1, <1>3, StopsStay
  <2>2. ASSUME Planned(tasks[s]) PROVE Onward(s)
    <3>1. CASE Timelines!RecordRequests(s)
      BY <2>2, <3>1, EntryRecordRequests
    <3>2. CASE Timelines!EntryRequests(s)
      BY <2>2, <3>2, EntryAddRequests, EntryFileRequests, EntryTextRequests DEF Timelines!EntryRequests
    <3>3. CASE Timelines!TransactionRequests(s)
      BY <2>2, <3>3, EntryTransactionRequests
    <3>4. CASE \/ Timelines!SaveWork(s) \/ Timelines!SaveQueue(s) \/ Timelines!SaveMaintenance(s)
               \/ Timelines!DeleteRecord(s) \/ Timelines!InsertEntry(s)
      BY <2>2, <3>4, EntrySaveWork, EntrySaveQueue, EntrySaveMaintenance, EntryDeleteRecord, EntryInsertEntry
    <3>5. CASE Timelines!Upload(s) \/ Timelines!InsertRow(s) \/ Timelines!Unlink(s) \/ Timelines!Through(s)
      BY <2>2, <3>5, EntryUpload, EntryInsertRow, EntryUnlink, EntryThrough
    <3>6. CASE \/ Timelines!DeleteRow(s) \/ Timelines!Store(s) \/ Timelines!SaveRow(s) \/ Timelines!SaveBudget(s)
               \/ Timelines!SaveEntry(s) \/ Timelines!DeleteEntry(s)
      BY <2>2, <3>6, EntryDeleteRow, EntryStore, EntrySaveRow, EntrySaveBudget, EntrySaveEntry, EntryDeleteEntry
    <3>7. CASE Timelines!Assign(s) \/ Timelines!Commit(s) \/ Timelines!Load(s) \/ Timelines!DeleteTransactions(s)
      BY <2>2, <3>7, EntryAssign, EntryCommit, EntryLoad
    <3>8. CASE Timelines!SyncWork(s) \/ Timelines!SyncMaintenance(s) \/ Timelines!Show(s) \/ Timelines!Hide(s)
      BY <2>2, <3>8, EntrySync, EntryShow DEF Timelines!SyncWork, Timelines!SyncMaintenance
    <3>9. QED
      BY <1>1, <1>3, <3>1, <3>2, <3>3, <3>4, <3>5, <3>6, <3>7, <3>8 DEF Timelines!Steps
  <2>3. stops = 0 => Planned(tasks[s])
    BY DEF EntryInv
  <2>4. QED
    BY <2>1, <2>2, <2>3, EntryMove
<1>4. QED
  BY <1>2, <1>3

LEMMA EntryStutter == ASSUME EntryInv, UNCHANGED Timelines!timelineVars PROVE EntryInv'
<1>1. /\ UNCHANGED <<works, maintenances, entries, budgets, rows, stored>> /\ tasks' = tasks /\ stops' = stops
  BY DEF Timelines!timelineVars
<1>2. AllInOrder => AllInOrder'
  BY <1>1, AllSame
<1>3. \A p : Planned(p) => Planned(p)'
  BY <1>1, PlanSame
<1>4. QED
  BY <1>1, <1>2, <1>3 DEF EntryInv

LEMMA EntryInductive == TimelineParameters /\ OneForm /\ Timelines!Spec => []EntryInv
<1>1. ASSUME TimelineParameters, OneForm PROVE Timelines!Spec => []EntryInv
  <2>1. Timelines!Spec => []LinkInv
    BY <1>1, LinkInductive, PTL
  <2>2. Timelines!Init => EntryInv
    BY <1>1, EntryInit
  <2>3. LinkInv /\ EntryInv /\ [Timelines!Next]_Timelines!timelineVars => EntryInv'
    BY <1>1, EntryStep, EntryStutter
  <2>4. QED
    BY <2>1, <2>2, <2>3, PTL DEF Timelines!Spec
<1>2. QED
  BY <1>1

\* The timelines of works and maintenances, whatever requests were made one after the other, if
\* none was cut short: a note says something or has an attachment (updateNote, removeTimelineAttachment),
\* a legal record has one, a budget has its entry, which says what the budget does (updateBudget),
\* and the file of an attachment is stored as long as the work or maintenance exists, though files
\* are written before their rows and deleted before them.
THEOREM EntriesKept == TimelineParameters /\ OneForm /\ Timelines!Spec => []Timelines!TimelineInOrder
<1>1. LinkInv /\ EntryInv => Timelines!TimelineInOrder
  <2>1. SUFFICES ASSUME LinkInv, EntryInv, Timelines!AtRest, stops = 0 PROVE
            /\ \A e \in Timelines!Entries : entries[e] # None =>
                  CASE entries[e].kind = "note"  -> entries[e].says = "text" \/ Timelines!FilesOf(e) # {}
                    [] entries[e].kind = "legal" -> Timelines!FilesOf(e) # {}
                    [] OTHER -> budgets[e] # None /\ entries[e].says = Timelines!Summary(budgets[e])
            /\ \A e \in Timelines!Entries : budgets[e] # None => entries[e] # None
            /\ \A e \in Timelines!Entries : entries[e] # None /\ Timelines!Exists(entries[e].of)
                  => Timelines!FilesOf(e) \subseteq stored
    BY DEF Timelines!TimelineInOrder
  <2>2. AllInOrder
    <3>1. \A s \in Slots : tasks[s] = << >> /\ Planned(tasks[s])
      BY <2>1 DEF EntryInv, Timelines!AtRest, Timelines!Idle
    <3>2. QED
      BY <2>1, <3>1, PlanEmpty DEF EntryInv
  <2>3. \A e \in Timelines!Entries : entries[e] # None => entries[e].kind \in {"note", "legal", "budget"}
    BY <2>1 DEF LinkInv, TimelineTables, Timelines!TimelineTypeOK, Timelines!Entry
  <2>4. \A e \in Timelines!Entries : entries[e] # None => Speaks(e, {}, {}) /\ Keeps(e, {})
    BY <2>2 DEF AllInOrder, InOrder
  <2>5. \A e \in Timelines!Entries : entries[e] # None =>
              CASE entries[e].kind = "note"  -> entries[e].says = "text" \/ Timelines!FilesOf(e) # {}
                [] entries[e].kind = "legal" -> Timelines!FilesOf(e) # {}
                [] OTHER -> budgets[e] # None /\ entries[e].says = Timelines!Summary(budgets[e])
    BY <2>3, <2>4 DEF Speaks
  <2>6. \A e \in Timelines!Entries : budgets[e] # None => entries[e] # None
    BY <2>2 DEF AllInOrder, InOrder
  <2>7. QED
    BY <2>4, <2>5, <2>6 DEF Keeps
<1>2. QED
  BY <1>1, LinkInductive, EntryInductive, PTL

===============================================================================
