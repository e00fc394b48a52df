------------------------------- MODULE FeeShares -------------------------------
(***************************************************************************)
(* From the expenses of a month to the fee of a unit: the rows an expense  *)
(* is split into when it is saved (AllocationResolverService, buildShares),*)
(* the units and groupings that come and go afterwards, and the amount     *)
(* each unit is charged when the month is closed (sumSharesByUnit,         *)
(* condominium-fee-shares.util, equalizeAmountPerGrouping).                *)
(*                                                                         *)
(* The requests about expenses follow one another: TransactionSettlement   *)
(* is about those that overlap.  Units and groupings change at any moment, *)
(* also between the choice of the units of an expense and its transaction. *)
(* Units are numbered in the order of their identifiers; amounts are cents.*)
(***************************************************************************)
EXTENDS Sums

CONSTANTS
    Units,
    Groupings,
    Names,       \* names of groupings; Blank is one of spaces only
    Blank,
    Expenses,    \* expenses of the month
    Amounts,
    Rules,       \* allocation rules a request may carry
    WorkRule,    \* that of the work an expense may be linked to
    MaxMoves,    \* 10 000 in the code
    MaxCalls,    \* bound: changes of units, groupings and expenses
    None

\* all_units_equal, all_units_except, unit_ids or grouping_ids
Rule == [kind : {"all", "except", "units", "groupings"},
         units : SUBSET Units, groupings : SUBSET Groupings]

VARIABLES
    home,        \* unit -> its grouping, "new" before it exists and "gone" afterwards
    name,        \* grouping -> its name, or "new" or "gone" likewise
    expenses,    \* expense -> None or [amount, rule, status, work, shares]; shares are the
                 \* rows of transaction_unit_shares, a function of the units that have one
    job,         \* None, or the request whose transaction has still to run
    calls

shareVars == <<home, name, expenses, job, calls>>

Existing == {u \in Units : home[u] \in Groupings}
Open == {g \in Groupings : name[g] \in Names}
Stored == {t \in Expenses : expenses[t] # None}

(***************************************************************************)
(* Splitting an expense.                                                   *)
(***************************************************************************)

\* distributePositiveCents: the first units get the cents that remain.
Distribute(total, S) ==
    [u \in S |-> total \div Cardinality(S)
                 + IF Cardinality({v \in S : v < u}) < total % Cardinality(S) THEN 1 ELSE 0]

\* resolveUnitIds
Selected(rule) ==
    CASE rule.kind = "all"       -> Existing
      [] rule.kind = "except"    -> Existing \ rule.units
      [] rule.kind = "units"     -> rule.units
      [] rule.kind = "groupings" -> {u \in Existing : home[u] \in rule.groupings}

Resolvable(rule) ==
    /\ rule.units \subseteq Existing /\ rule.groupings \subseteq Open
    /\ Selected(rule) # {}

\* An expense that is linked to a work is split as the work is.
RuleFor(rule, work) == IF work THEN WorkRule ELSE rule

Begin(t, amount, rule, status, work) ==
    /\ job = None /\ calls < MaxCalls
    /\ Resolvable(rule)
    /\ job' = [expense |-> t,
               row |-> [amount |-> amount, rule |-> rule, status |-> status, work |-> work,
                        shares |-> Distribute(amount, Selected(rule))]]
    /\ calls' = calls + 1
    /\ UNCHANGED <<home, name, expenses>>

Create(t, amount, rule, work) ==
    expenses[t] = None /\ Begin(t, amount, RuleFor(rule, work), "pending", work)

\* Of a paid expense neither amount nor rule can be asked for, but the rows are
\* written again, for the units there are now.  The work that is asked for decides the
\* rule, but a work that was linked before stays: TypeORM writes the one it loaded.
Update(t, amount, rule, work) ==
    LET row == expenses[t] IN
    /\ row # None /\ row.status # "cancelled"
    /\ row.status = "paid" => amount = row.amount /\ rule = row.rule
    /\ Begin(t, amount, RuleFor(rule, work), row.status, row.work \/ work)

\* bulkAssignWork: a pending expense is split as the work is.
LinkWork(t, work) ==
    LET row == expenses[t] IN
    /\ row # None
    /\ IF work /\ row.status = "pending" THEN Begin(t, row.amount, WorkRule, "pending", TRUE)
       ELSE /\ job = None /\ calls < MaxCalls
            /\ expenses' = [expenses EXCEPT ![t].work = work]
            /\ calls' = calls + 1
            /\ UNCHANGED <<home, name, job>>

\* The transaction: rows deleted, the expense saved, rows inserted.  A row of a unit that
\* was removed meanwhile violates its foreign key, and all is rolled back.
Store ==
    /\ job # None
    /\ expenses' = IF DOMAIN job.row.shares \subseteq Existing
                   THEN [expenses EXCEPT ![job.expense] = job.row] ELSE expenses
    /\ job' = None
    /\ UNCHANGED <<home, name, calls>>

SetStatus(t, from, to) ==
    /\ job = None /\ expenses[t] # None /\ expenses[t].status = from
    /\ expenses' = [expenses EXCEPT ![t].status = to]
    /\ UNCHANGED <<home, name, job, calls>>

Remove(t) ==
    /\ job = None /\ expenses[t] # None /\ expenses[t].status # "paid"
    /\ expenses' = [expenses EXCEPT ![t] = None]
    /\ UNCHANGED <<home, name, job, calls>>

(***************************************************************************)
(* Units and groupings.                                                    *)
(***************************************************************************)

Change ==
    /\ calls < MaxCalls
    /\ calls' = calls + 1
    /\ UNCHANGED job

AddUnit(u, g) ==
    /\ Change /\ home[u] = "new" /\ g \in Open
    /\ home' = [home EXCEPT ![u] = g]
    /\ UNCHANGED <<name, expenses>>

\* The rows of a unit go with it (ON DELETE CASCADE).
Drop(S) ==
    /\ home' = [u \in Units |-> IF u \in S THEN "gone" ELSE home[u]]
    /\ expenses' = [t \in Expenses |->
        IF expenses[t] = None THEN None
        ELSE [expenses[t] EXCEPT !.shares = [u \in DOMAIN @ \ S |-> @[u]]]]

RemoveUnit(u) ==
    /\ Change /\ u \in Existing
    /\ Drop({u})
    /\ UNCHANGED name

CreateGrouping(g, n) ==
    /\ Change /\ name[g] = "new"
    /\ name' = [name EXCEPT ![g] = n]
    /\ UNCHANGED <<home, expenses>>

RenameGrouping(g, n) ==
    /\ Change /\ g \in Open
    /\ name' = [name EXCEPT ![g] = n]
    /\ UNCHANGED <<home, expenses>>

RemoveGrouping(g) ==
    /\ Change /\ g \in Open /\ Cardinality(Open) > 1
    /\ name' = [name EXCEPT ![g] = "gone"]
    /\ Drop({u \in Existing : home[u] = g})

(***************************************************************************)
(* The fees.                                                               *)
(***************************************************************************)

\* groupingFeeEquivalenceKey: groupings of one name count as one.
Class(u) == IF name[home[u]] = Blank THEN <<home[u]>> ELSE <<name[home[u]], "named">>
Alike(u, S) == {v \in S : Class(v) = Class(u)}

\* isExpenseIncludedInCondominiumFee.  Transfers and what a temporary fund or the reserve
\* pays are left out of the fee too and of this module.
Counted == {t \in Stored : expenses[t].status # "cancelled" /\ ~expenses[t].work}

Sharers(row) ==
    LET charged == {u \in DOMAIN row.shares : row.shares[u] > 0} IN
    IF charged # {} THEN charged
    ELSE IF DOMAIN row.shares # {} THEN DOMAIN row.shares ELSE Existing

\* Sharers of one class pay the largest of their shares.
Levelled(row) ==
    [u \in Existing |->
        IF u \in Sharers(row) /\ DOMAIN row.shares # {}
        THEN Max({row.shares[v] : v \in Alike(u, Sharers(row))}) ELSE 0]

\* addExtratoRowDeltaPreservingGroups: as long as what is missing suffices, every unit of
\* the smallest class of sharers, the first of several, gets a cent more.  The rest, and
\* what MaxMoves rounds did not place, is spread over all who pay.
AddMissing(level, sharers, missing) ==
    LET classes  == {Alike(u, sharers) : u \in sharers}
        smallest == CHOOSE c \in classes : \A d \in classes :
                        \/ Cardinality(c) < Cardinality(d)
                        \/ Cardinality(c) = Cardinality(d) /\ Min(c) <= Min(d)
        size     == Cardinality(smallest)
        moves    == Min({MaxMoves, missing \div size})
        lifted   == [u \in Existing |-> level[u] + IF u \in smallest THEN moves ELSE 0]
        paying   == {u \in Existing : lifted[u] > 0}
        rest     == Distribute(missing - moves * size, IF paying = {} THEN Existing ELSE paying)
    IN  [u \in Existing |-> lifted[u] + IF u \in DOMAIN rest THEN rest[u] ELSE 0]

Equalized(row) ==
    LET level == Levelled(row)
        missing == row.amount - Sum(level, Existing) IN
    IF missing <= 0 THEN level ELSE AddMissing(level, Sharers(row), missing)

\* sumEqualizedFeeSharesByUnit
Raw(u) == Sum([t \in Counted |-> Equalized(expenses[t])[u]], Counted)

\* equalizeAmountPerGrouping: the amount of the charge of a unit.
Due(u) == Max({Raw(v) : v \in Alike(u, Existing)})

(***************************************************************************)
(* The specification.                                                      *)
(***************************************************************************)

\* Any condominium, before the first expense of the month.
Init ==
    /\ name \in [Groupings -> Names \cup {"new"}] /\ Open # {}
    /\ home \in [Units -> Open \cup {"new"}]
    /\ expenses = [t \in Expenses |-> None]
    /\ job = None /\ calls = 0

Next ==
    \/ \E t \in Expenses :
        \/ \E amount \in Amounts, rule \in Rules, work \in BOOLEAN :
            Create(t, amount, rule, work)
        \/ /\ expenses[t] # None   \* a request may leave the rule as it is
           /\ \E amount \in Amounts, rule \in Rules \cup {expenses[t].rule}, work \in BOOLEAN :
                  Update(t, amount, rule, work)
        \/ \E work \in BOOLEAN : LinkWork(t, work)
        \/ SetStatus(t, "pending", "paid") \/ SetStatus(t, "paid", "pending")
        \/ SetStatus(t, "pending", "cancelled")
        \/ Remove(t)
    \/ Store
    \/ \E u \in Units : RemoveUnit(u) \/ \E g \in Groupings : AddUnit(u, g)
    \/ \E g \in Groupings :
        \/ \E n \in Names : CreateGrouping(g, n) \/ RenameGrouping(g, n)
        \/ RemoveGrouping(g)

Spec == Init /\ [][Next]_shareVars

(***************************************************************************)
(* Properties.                                                             *)
(***************************************************************************)

ShareTypeOK ==
    /\ home \in [Units -> Groupings \cup {"new", "gone"}]
    /\ name \in [Groupings -> Names \cup {"new", "gone"}]
    /\ \A u \in Existing : home[u] \in Open
    /\ \A t \in Stored :
        /\ expenses[t].amount \in Amounts /\ expenses[t].rule \in Rule
        /\ expenses[t].status \in {"pending", "paid", "cancelled"}
        /\ expenses[t].work \in BOOLEAN
        /\ DOMAIN expenses[t].shares \subseteq Existing
    /\ calls \in 0..MaxCalls

\* The rows of an expense add up to its amount, or a unit that had one was removed.
SharesAddUp ==
    \A t \in Stored :
        LET rows == expenses[t].shares
            sum == Sum(rows, DOMAIN rows) IN
        \/ sum = expenses[t].amount
        \/ sum < expenses[t].amount /\ \E u \in Units : home[u] = "gone"

\* As long as the condominium has a unit the fees of the month pay its expenses, whatever
\* units and groupings were added, renamed or removed after the expenses were split.
ExpensesCovered ==
    Existing # {} =>
        Sum([u \in Existing |-> Due(u)], Existing) >= Sum([t \in Counted |-> expenses[t].amount], Counted)

\* What a unit can owe for an expense: nothing if no unit of its class has a row, else an
\* equal part, rounded up to a cent.
Part(u, row) ==
    LET n == Cardinality(DOMAIN row.shares) IN
    IF Alike(u, Existing) \cap DOMAIN row.shares = {} THEN 0
    ELSE (row.amount + n - 1) \div n

\* As long as every unit that was to share an expense exists, levelling the shares within
\* the classes, expense by expense and then once more, charges nobody more than its part.
NobodyOvercharged ==
    (\A t \in Counted :
        Sum(expenses[t].shares, DOMAIN expenses[t].shares) = expenses[t].amount) =>
        \A u \in Existing : Due(u) <= Sum([t \in Counted |-> Part(u, expenses[t])], Counted)
=============================================================================
