----------------------------- MODULE FundAccruals -----------------------------
(***************************************************************************)
(* The monthly income of the funds of one condominium (FundAccrualService).*)
(* Closing a month looks, fund by fund, for the accrual of the month; where*)
(* there is none it makes a paid income and then the accrual that refers   *)
(* to it.  Rows of earlier releases were pending expenses: they are turned *)
(* into income when they are met.  Regenerating first removes what is      *)
(* still pending.                                                          *)
(*                                                                         *)
(* A call of closeMonthInternal or regenerateMonth is split at its awaits; *)
(* the charges themselves are those of FeeCharges.                         *)
(***************************************************************************)
EXTENDS Integers, FiniteSets, Sequences

CONSTANTS
    Funds,        \* the funds
    Setups,       \* how they may be set up: members of Fund
    Legacy,       \* funds that may start with an expense of an earlier release for month 1
    MaxMonth,     \* bound: months that are closed
    MaxUnits,     \* bound: units of the condominium
    MaxCents,     \* bound: what a fund asks of a unit
    MaxIds,       \* bound: identifiers given to transactions and sets of shares
    MaxCalls,     \* bound: closings and regenerations
    MaxFaults,    \* bound: crashes and errors of the database
    Slots,        \* requests that run at once
    None

Months == 1..MaxMonth
Ids == 1..MaxIds

\* What decides the income of a fund: per unit each month, or from `start` to `end`.  A
\* rule that excludes every unit is as none.
Fund == [rule : BOOLEAN, permanent : BOOLEAN, start : Months, end : Months, cents : 0..MaxCents]

\* The shares of the units, by their sign; `set` tells rows written anew from old ones.
Shares == [signs : {"none", "charged", "credited"}, set : 0..MaxIds]

NoShares == [signs |-> "none", set |-> 0]

Tx == [fund : Funds, month : Months, cents : Nat,
       kind : {"income", "expense"}, status : {"paid", "pending", "cancelled"},
       shares : Shares]

Task == [step : {"idle", "find", "read", "drop", "share", "turn", "units", "make", "mark",
                 "list", "paid", "clear"},
         month : Months \cup {None},
         left  : SUBSET Funds,                     \* funds still to be looked at
         fund  : Funds \cup {None},
         tx    : Ids \cup {None},
         ent   : Tx \cup {None},                   \* the transaction as it was read
         ids   : SUBSET Ids]

Idle == [step |-> "idle", month |-> None, left |-> {}, fund |-> None, tx |-> None,
         ent |-> None, ids |-> {}]

VARIABLES
    plans,     \* table financial_funds
    units,     \* fund -> how many units its rule resolves to; None: it cannot be resolved
    txs,       \* table financial_transactions, by identifier
    accruals,  \* table fund_monthly_accruals: the transaction of a fund and month
    closed,    \* months the last completed call closed, and nothing has changed since
    made,      \* identifiers given so far
    tasks, calls, faults, overlaps

accrualVars == <<plans, units, txs, accruals, closed, made, tasks, calls, faults, overlaps>>

Range(f) == {f[x] : x \in DOMAIN f}
Keys == Funds \X Months
Counts == 1..MaxUnits \cup {None}

Put(f, k, v) == [x \in DOMAIN f \cup {k} |-> IF x = k THEN v ELSE f[x]]
Without(f, ks) == [x \in DOMAIN f \ ks |-> f[x]]

LegacyTx(f) == [fund |-> f, month |-> 1, cents |-> 1, kind |-> "expense",
                status |-> "pending", shares |-> [signs |-> "charged", set |-> 0]]

Init ==
    /\ plans \in [Funds -> Setups]
    /\ units \in [Funds -> Counts]
    /\ \E old \in SUBSET Legacy : \E id \in [old -> Ids] :
        /\ \A f, g \in old : f # g => id[f] # id[g]
        /\ \A i \in Range(id) : i <= Cardinality(old)
        /\ txs = [i \in Range(id) |-> LegacyTx(CHOOSE f \in old : id[f] = i)]
        /\ accruals = [k \in old \X {1} |-> id[k[1]]]
        /\ made = Cardinality(old)
    /\ closed = {}
    /\ tasks = [w \in Slots |-> Idle]
    /\ calls = 0 /\ faults = 0 /\ overlaps = FALSE

(***************************************************************************)
(* The steps of a request.                                                 *)
(***************************************************************************)

Become(w, t) == tasks' = [tasks EXCEPT ![w] = t]
Advance(w, step) == Become(w, [tasks[w] EXCEPT !.step = step])

\* On to the next fund; after the last one the month is closed.
NextFund(w) ==
    LET t == tasks[w] IN
    IF t.left = {}
      THEN Become(w, Idle) /\ closed' = closed \cup {t.month}
      ELSE /\ \E f \in t.left :
                Become(w, [Idle EXCEPT !.step = "find", !.month = t.month, !.fund = f,
                                       !.left = t.left \ {f}])
           /\ UNCHANGED closed

Start(w, task) ==
    /\ tasks[w] = Idle /\ calls < MaxCalls
    /\ Become(w, task)
    /\ calls' = calls + 1
    /\ overlaps' = (overlaps \/ \E v \in Slots \ {w} : tasks[v] # Idle)
    /\ UNCHANGED <<made, plans, units, txs, accruals, closed, faults>>

\* ensureAccrualsForCompetence, by the cron on the first of the month or a manager.
CloseMonth(w, m) ==
    \E f \in Funds :
        Start(w, [Idle EXCEPT !.step = "find", !.month = m, !.fund = f, !.left = Funds \ {f}])

\* regenerateMonth: removeAccrualsForCompetence, then the same.
RegenerateMonth(w, m) == Start(w, [Idle EXCEPT !.step = "list", !.month = m])

ListAccruals(w) ==
    /\ tasks[w].step = "list"
    /\ Become(w, [tasks[w] EXCEPT
                    !.step = "paid",
                    !.ids = {accruals[k] : k \in {x \in DOMAIN accruals : x[2] = tasks[w].month}}])
    /\ UNCHANGED <<made, plans, units, txs, accruals, closed, calls, faults, overlaps>>

\* Only pending transactions may be removed.
ReadStatus(w) ==
    /\ tasks[w].step = "paid"
    /\ Become(w, [tasks[w] EXCEPT
                    !.step = "clear",
                    !.ids = {i \in @ \cap DOMAIN txs : txs[i].status = "pending"}])
    /\ UNCHANGED <<made, plans, units, txs, accruals, closed, calls, faults, overlaps>>

\* mutant: without the foreign key
OnlyTxs(ids) == txs' = Without(txs, ids) /\ UNCHANGED accruals

\* The database deletes accruals with their transaction.
RemoveTxs(ids) ==
    /\ txs' = Without(txs, ids)
    /\ accruals' = Without(accruals, {k \in DOMAIN accruals : accruals[k] \in ids})

ClearPending(w) ==
    /\ tasks[w].step = "clear"
    /\ RemoveTxs(tasks[w].ids)
    /\ closed' = closed \ {tasks[w].month}
    /\ \E f \in Funds :
        Become(w, [Idle EXCEPT !.step = "find", !.month = tasks[w].month, !.fund = f,
                               !.left = Funds \ {f}])
    /\ UNCHANGED <<made, plans, units, calls, faults, overlaps>>

FindAccrual(w) ==
    LET t == tasks[w]
        k == <<t.fund, t.month>> IN
    /\ t.step = "find"
    /\ Become(w, IF k \in DOMAIN accruals
                   THEN [t EXCEPT !.step = "read", !.tx = accruals[k]]
                   ELSE [t EXCEPT !.step = "units"])
    /\ UNCHANGED <<made, plans, units, txs, accruals, closed, calls, faults, overlaps>>

\* mutant: expenses are left as they are
NothingOld(row) == FALSE

IsLegacy(row) == row.kind = "expense" /\ row.status = "pending" /\ row.shares.signs # "none"

\* normalizeLegacyAccrualTransaction.
ReadAccrued(w) ==
    LET t == tasks[w]
        row == txs[t.tx] IN
    /\ t.step = "read"
    /\ IF t.tx \in DOMAIN txs /\ IsLegacy(row)
         THEN Become(w, [t EXCEPT !.step = "drop", !.ent = row]) /\ UNCHANGED closed
       ELSE IF t.tx \in DOMAIN txs /\ row.kind = "income" /\ row.status # "paid"
         THEN Become(w, [t EXCEPT !.step = "turn", !.ent = row]) /\ UNCHANGED closed
       ELSE NextFund(w)
    /\ UNCHANGED <<made, plans, units, txs, accruals, calls, faults, overlaps>>

DropShares(w) ==
    LET t == tasks[w] IN
    /\ t.step = "drop"
    /\ txs' = IF t.tx \in DOMAIN txs THEN [txs EXCEPT ![t.tx].shares = NoShares] ELSE txs
    /\ Advance(w, "share")
    /\ UNCHANGED <<made, plans, units, accruals, closed, calls, faults, overlaps>>

\* The foreign key refuses shares of a transaction that was removed meanwhile.
CreditShares(w) ==
    LET t == tasks[w] IN
    /\ t.step = "share"
    /\ IF t.tx \in DOMAIN txs
         THEN /\ made < MaxIds /\ made' = made + 1
              /\ txs' = [txs EXCEPT ![t.tx].shares = [signs |-> "credited", set |-> made']]
              /\ Advance(w, "turn")
         ELSE Become(w, Idle) /\ UNCHANGED <<made, txs>>
    /\ UNCHANGED <<plans, units, accruals, closed, calls, faults, overlaps>>

\* txRepo.save of a transaction with the shares it was loaded with: TypeORM clears
\* transaction_id of the shares stored since, which the column refuses, so the call
\* fails.  A row that was removed meanwhile is inserted again, without shares.
TurnIntoIncome(w) ==
    LET t == tasks[w]
        gone == t.tx \notin DOMAIN txs
        row == IF gone THEN [t.ent EXCEPT !.shares = NoShares] ELSE txs[t.tx] IN
    /\ t.step = "turn"
    /\ IF gone \/ row.shares = t.ent.shares \/ row.shares = NoShares
         THEN /\ txs' = Put(txs, t.tx, [row EXCEPT !.kind = "income", !.status = "paid"])
              /\ NextFund(w)
         ELSE Become(w, Idle) /\ UNCHANGED <<txs, closed>>
    /\ UNCHANGED <<made, plans, units, accruals, calls, faults, overlaps>>

\* Nothing is due without a rule, an amount, or outside the period.
Due(f, m) ==
    LET p == plans[f] IN
    /\ p.rule /\ units[f] # None /\ p.cents > 0
    /\ ~p.permanent => p.start <= m /\ m <= p.end

\* resolveUnitIds throws where a rule leads to no unit or names one that is gone, and
\* nobody catches it: the closing ends.
Unresolved(f) == plans[f].rule /\ units[f] = None

ResolveUnits(w) ==
    LET t == tasks[w] IN
    /\ t.step = "units"
    /\ \/ Unresolved(t.fund) /\ Become(w, Idle) /\ UNCHANGED closed
       \/ ~Unresolved(t.fund) /\ ~Due(t.fund, t.month) /\ NextFund(w)
       \/ /\ Due(t.fund, t.month)
          /\ Become(w, [t EXCEPT !.step = "make",
                          !.ent = [fund |-> t.fund, month |-> t.month,
                                   cents |-> plans[t.fund].cents * units[t.fund], kind |-> "income",
                                   status |-> "paid", shares |-> NoShares]])
          /\ UNCHANGED closed
    /\ UNCHANGED <<made, plans, units, txs, accruals, calls, faults, overlaps>>

\* createInternal writes the transaction and its shares in one transaction.
MakeIncome(w) ==
    LET t == tasks[w] IN
    /\ t.step = "make"
    /\ made < MaxIds
    /\ made' = made + 1
    /\ txs' = Put(txs, made', [t.ent EXCEPT !.shares = [signs |-> "credited", set |-> made']])
    /\ Become(w, [t EXCEPT !.step = "mark", !.tx = made'])
    /\ UNCHANGED <<plans, units, accruals, closed, calls, faults, overlaps>>

\* The unique key refuses a second accrual of the fund and month, and the foreign
\* key one of a transaction that is gone; the error is only logged.
MarkAccrued(w) ==
    LET t == tasks[w]
        k == <<t.fund, t.month>>
        refused == k \in DOMAIN accruals \/ t.tx \notin DOMAIN txs IN
    /\ t.step = "mark"
    /\ accruals' = IF refused THEN accruals ELSE Put(accruals, k, t.tx)
    /\ NextFund(w)
    /\ UNCHANGED <<made, plans, units, txs, calls, faults, overlaps>>

(***************************************************************************)
(* Faults and other requests.                                              *)
(***************************************************************************)

\* A crash, or an error of the database: inside the try of ensureSingleFundAccrual
\* it is logged and the next fund follows.
Fault(w) ==
    /\ tasks[w] # Idle /\ faults < MaxFaults
    /\ faults' = faults + 1
    /\ \/ Become(w, Idle) /\ UNCHANGED closed
       \/ tasks[w].step \in {"make", "mark"} /\ NextFund(w)
    /\ UNCHANGED <<made, plans, units, txs, accruals, calls, overlaps>>

\* A manager handles the transaction of an accrual like any other.
Handles(i) ==
    /\ calls < MaxCalls /\ calls' = calls + 1
    /\ closed' = closed \ {txs[i].month}
    /\ overlaps' = (overlaps \/ \E v \in Slots : tasks[v] # Idle)
    /\ UNCHANGED <<made, plans, units, tasks, faults>>

ChangeStatus(i, from, to) ==
    /\ i \in DOMAIN txs /\ txs[i].status = from
    /\ Handles(i)
    /\ txs' = [txs EXCEPT ![i].status = to]
    /\ UNCHANGED accruals

\* settlePayment, cancelPaymentStatus and reopenSettlement
SettleTransaction(i) == ChangeStatus(i, "pending", "paid")
CancelTransaction(i) == ChangeStatus(i, "pending", "cancelled")
ReopenTransaction(i) == ChangeStatus(i, "paid", "pending")

\* FinancialTransactionsService.remove, of one that is not paid.
RemoveTransaction(i) ==
    /\ i \in DOMAIN txs /\ txs[i].status # "paid"
    /\ Handles(i)
    /\ RemoveTxs({i})

\* A manager changes what the fund asks.
UpdateFund(f, c) ==
    /\ calls < MaxCalls /\ c # plans[f].cents
    /\ plans' = [plans EXCEPT ![f].cents = c]
    /\ closed' = {}
    /\ calls' = calls + 1
    /\ overlaps' = (overlaps \/ \E v \in Slots : tasks[v] # Idle)
    /\ UNCHANGED <<made, units, txs, accruals, tasks, faults>>

Next ==
    \/ \E w \in Slots :
        \/ \E m \in Months : CloseMonth(w, m) \/ RegenerateMonth(w, m)
        \/ ListAccruals(w) \/ ReadStatus(w) \/ ClearPending(w)
        \/ FindAccrual(w) \/ ReadAccrued(w)
        \/ DropShares(w) \/ CreditShares(w) \/ TurnIntoIncome(w)
        \/ ResolveUnits(w) \/ MakeIncome(w) \/ MarkAccrued(w)
        \/ Fault(w)
    \/ \E i \in Ids : \/ SettleTransaction(i) \/ CancelTransaction(i)
                      \/ ReopenTransaction(i) \/ RemoveTransaction(i)
    \/ \E f \in Funds, c \in 0..MaxCents : UpdateFund(f, c)

Spec == Init /\ [][Next]_accrualVars

(***************************************************************************)
(* Properties.                                                             *)
(***************************************************************************)

\* Rows and requests have their types, and an accrual refers to a transaction of its
\* own fund and month.
AccrualTypeOK ==
    /\ plans \in [Funds -> Fund] /\ units \in [Funds -> Counts]
    /\ DOMAIN txs \subseteq Ids /\ Range(txs) \subseteq Tx
    /\ DOMAIN accruals \subseteq Keys
    /\ \A k \in DOMAIN accruals :
        accruals[k] \in DOMAIN txs /\ k = <<txs[accruals[k]].fund, txs[accruals[k]].month>>
    /\ tasks \in [Slots -> Task]
    /\ closed \subseteq Months /\ made \in 0..MaxIds /\ calls \in 0..MaxCalls /\ faults \in 0..MaxFaults

Incomes(k) == {i \in DOMAIN txs : <<txs[i].fund, txs[i].month>> = k}

\* The months of a fund are accrued at most once, whatever is closed, regenerated and
\* removed in whatever order, as long as calls do not overlap and none is interrupted.
AccruedOnce ==
    (~overlaps /\ faults = 0) => \A k \in Keys : Cardinality(Incomes(k)) <= 1

\* A closing that reached its end leaves the month accrued: each fund that owes has
\* an accrual, and what the accruals refer to is income paid and shared as credit.  An
\* expense of an earlier release whose conversion fails keeps its month from closing;
\* one that was settled or cancelled by hand is passed over and stays an expense, and so
\* is one whose shares an interrupted call deleted.
ClosedIsAccrued ==
    (~overlaps /\ \A w \in Slots : tasks[w] = Idle) =>
        \A m \in closed, f \in Funds :
            /\ faults = 0 /\ Due(f, m) => <<f, m>> \in DOMAIN accruals
            /\ <<f, m>> \in DOMAIN accruals =>
                LET row == txs[accruals[<<f, m>>]] IN
                \/ row.kind = "income" /\ row.status = "paid" /\ row.shares.signs = "credited"
                \/ row.kind = "expense" /\ row.status # "pending"
                \/ faults > 0 /\ row.shares = NoShares
=============================================================================
