------------------------------ MODULE PlanCatalog ------------------------------
(***************************************************************************)
(* The SaaS plans of the platform (SaasPlansService, its price bands) and  *)
(* what points at them: the accounts, which get the default plan when they *)
(* register, and the condominiums, which choose one.                       *)
(*                                                                         *)
(* Requests are split at their awaits and keep the plan they read.  The    *)
(* foreign keys of users and condominiums restrict the deletion of a plan. *)
(* Plans are numbered in the order of their creation; the first is the one *)
(* the migration inserts.                                                  *)
(***************************************************************************)
EXTENDS Integers, Sequences, FiniteSets

CONSTANTS
    Users,
    Condominiums,
    Prices,      \* prices of a unit, in cents
    Bands,       \* lists of price bands a request may carry; max 0 is "no upper limit"
    Patches,     \* what a PATCH may ask for; None leaves a column, <<>> takes the bands away
    MaxPlans,    \* bound: plans ever created
    MaxUnits,    \* bound: units of a condominium, for the properties
    MaxCalls,    \* bound: requests
    MaxStops,    \* bound: interruptions
    Slots,       \* requests that run at once
    None

Band == [min : 0..MaxUnits, max : 0..MaxUnits, price : Prices]

Plan == [price : Prices, bands : Bands \cup {<<>>}, active : BOOLEAN, default : BOOLEAN]

Idle == [step |-> "idle", plan |-> 0, row |-> None, was |-> None, of |-> None]

VARIABLES
    plans,       \* the rows of saas_plans by id; None before creation and after deletion
    made,        \* how many plans were ever created
    planOf,      \* users.plan_id; None before the account exists
    condos,      \* condominiums: None or [owner, plan]
    tasks, calls, stops, overlaps

planVars == <<plans, made, planOf, condos, tasks, calls, stops, overlaps>>

EntitySave == INSTANCE EntitySave

Ids == 1..MaxPlans
Existing == {p \in Ids : plans[p] # None}
Defaults == {p \in Existing : plans[p].default}

(***************************************************************************)
(* saas-plan-unit-pricing.ts                                               *)
(***************************************************************************)

ByMin(bands, i) == {j \in DOMAIN bands : bands[j].min <= bands[i].min}

\* The bands in the order of their first unit; bands of equal minimum are refused.
Sorted(bands) ==
    [n \in DOMAIN bands |->
        bands[CHOOSE i \in DOMAIN bands : Cardinality(ByMin(bands, i)) = n]]

\* mutant: bands need not follow one another
DistinctMinima(bands) == \A i, j \in DOMAIN bands : i # j => bands[i].min # bands[j].min

AssertValid(bands) ==
    bands # <<>> =>
        LET t == Sorted(bands)
            last == Len(bands) IN
        /\ \A i, j \in DOMAIN bands : i # j => bands[i].min # bands[j].min
        /\ t[1].min = 1
        /\ \A i \in 1..last : t[i].max # 0 => t[i].max >= t[i].min
        /\ \A i \in 1..(last - 1) : t[i].max # 0 /\ t[i + 1].min = t[i].max + 1
        /\ t[last].max = 0

Covers(band, n) == band.min <= n /\ (band.max = 0 \/ n <= band.max)

\* The price of a unit of a condominium that has `units` of them.
PricePerUnit(plan, units) ==
    LET n == IF units < 1 THEN 1 ELSE units
        t == Sorted(plan.bands)
        fit == {i \in DOMAIN t : Covers(t[i], n)} IN
    IF plan.bands = <<>> \/ fit = {} THEN plan.price
    ELSE t[CHOOSE i \in fit : \A j \in fit : i <= j].price

(***************************************************************************)
(* Which plan a condominium is billed by.                                  *)
(***************************************************************************)

PlanOfOwner(u) ==
    IF planOf[u] # None /\ plans[planOf[u]] # None /\ plans[planOf[u]].active THEN planOf[u]
    ELSE IF Defaults = {} THEN None ELSE CHOOSE p \in Defaults : TRUE

PlanOfCondominium(c) ==
    LET p == condos[c].plan IN
    IF plans[p] # None /\ plans[p].active THEN p ELSE PlanOfOwner(condos[c].owner)

(***************************************************************************)
(* Requests.                                                               *)
(***************************************************************************)

Init ==
    /\ plans = [p \in Ids |->
        IF p = 1 THEN [price |-> 0, bands |-> <<>>, active |-> TRUE, default |-> TRUE] ELSE None]
    /\ made = 1
    /\ planOf = [u \in Users |-> None]
    /\ condos = [c \in Condominiums |-> None]
    /\ tasks = [w \in Slots |-> Idle]
    /\ calls = 0 /\ stops = 0 /\ overlaps = FALSE

Become(w, t) == tasks' = [tasks EXCEPT ![w] = t]

\* A request whose first read succeeded goes on as `task`.
Start(w, task) ==
    /\ tasks[w] = Idle /\ calls < MaxCalls
    /\ calls' = calls + 1
    /\ overlaps' = (overlaps \/ \E v \in Slots \ {w} : tasks[v] # Idle)
    /\ Become(w, task)
    /\ UNCHANGED <<plans, made, planOf, condos, stops>>

CreatePlan(w, bands, price) ==
    /\ tasks[w] = Idle /\ calls < MaxCalls /\ made < MaxPlans
    /\ AssertValid(bands)
    /\ calls' = calls + 1
    /\ made' = made + 1
    /\ plans' = [plans EXCEPT ![made + 1] =
        [price |-> IF bands = <<>> THEN price ELSE bands[1].price,
         bands |-> bands, active |-> TRUE, default |-> FALSE]]
    /\ overlaps' = (overlaps \/ \E v \in Slots \ {w} : tasks[v] # Idle)
    /\ UNCHANGED <<planOf, condos, tasks, stops>>

Patched(row, q) ==
    LET bands == IF q.bands = None THEN row.bands ELSE q.bands IN
    [row EXCEPT
        !.bands = bands,
        !.price = IF q.price # None THEN q.price
                  ELSE IF q.bands \notin {None, <<>>} THEN bands[1].price ELSE @,
        !.active = IF q.active = None THEN @ ELSE q.active]

PatchPlan(w, p, q) ==
    /\ p \in Existing
    /\ q.bands # None => AssertValid(q.bands)
    /\ q.price # None => Patched(plans[p], q).bands = <<>>
    /\ Start(w, [Idle EXCEPT !.step = "select", !.plan = p, !.row = Patched(plans[p], q)])

SetDefaultPlan(w, p) ==
    p \in Existing /\ Start(w, [Idle EXCEPT !.step = "mark", !.plan = p])

DeletePlan(w, p) ==
    /\ p \in Existing /\ ~plans[p].default
    /\ Start(w, [Idle EXCEPT !.step = "condos", !.plan = p])

Register(w, u) ==
    /\ planOf[u] = None
    /\ \E p \in Defaults : Start(w, [Idle EXCEPT !.step = "account", !.plan = p, !.of = u])

\* Without a plan of its own choice a new condominium gets the default one.
CreateCondominium(w, c, u, chosen) ==
    /\ condos[c] = None /\ planOf[u] # None
    /\ chosen # None => chosen \in Existing /\ plans[chosen].active
    /\ \E p \in IF chosen = None THEN Defaults ELSE {chosen} :
        Start(w, [Idle EXCEPT !.step = "assign", !.plan = p, !.of = c,
                              !.row = [owner |-> u, plan |-> p]])

\* A change of the plan, or of other columns only.
UpdateCondominium(w, c, chosen) ==
    /\ condos[c] # None
    /\ chosen # None => chosen \in Existing /\ plans[chosen].active
    /\ LET row == [condos[c] EXCEPT !.plan = IF chosen = None THEN @ ELSE chosen] IN
       Start(w, [Idle EXCEPT !.step = "pick", !.plan = row.plan, !.of = c, !.row = row])

RemoveCondominium(c) ==
    /\ condos[c] # None
    /\ condos' = [condos EXCEPT ![c] = None]
    /\ UNCHANGED <<plans, made, planOf, tasks, calls, stops, overlaps>>

(***************************************************************************)
(* The later steps of a request.                                           *)
(***************************************************************************)

At(w, step) == tasks[w].step = step
Move(w, step) == Become(w, [tasks[w] EXCEPT !.step = step])

\* save(plan): the SELECT, then the UPDATE or INSERT.
SelectPlan(w) ==
    /\ At(w, "select")
    /\ Become(w, [tasks[w] EXCEPT !.step = "write", !.was = plans[tasks[w].plan]])
    /\ UNCHANGED <<plans, made, planOf, condos, calls, stops, overlaps>>

WritePlan(w) ==
    LET t == tasks[w] IN
    /\ At(w, "write")
    /\ plans' = [plans EXCEPT ![t.plan] = EntitySave!Saved(@, t.was, t.row)]
    /\ Become(w, Idle)
    /\ UNCHANGED <<made, planOf, condos, calls, stops, overlaps>>

\* One transaction of two UPDATEs.
MarkDefault(w) ==
    /\ At(w, "mark")
    /\ plans' = [p \in Ids |->
        IF p \in Existing THEN [plans[p] EXCEPT !.default = (p = tasks[w].plan)] ELSE None]
    /\ Become(w, Idle)
    /\ UNCHANGED <<made, planOf, condos, calls, stops, overlaps>>

CountCondominiums(w) ==
    /\ At(w, "condos")
    /\ IF \E c \in Condominiums : condos[c] # None /\ condos[c].plan = tasks[w].plan
       THEN Become(w, Idle) ELSE Move(w, "users")
    /\ UNCHANGED <<plans, made, planOf, condos, calls, stops, overlaps>>

CountUsers(w) ==
    /\ At(w, "users")
    /\ IF \E u \in Users : planOf[u] = tasks[w].plan THEN Become(w, Idle) ELSE Move(w, "delete")
    /\ UNCHANGED <<plans, made, planOf, condos, calls, stops, overlaps>>

Restricted(p) ==
    \/ \E u \in Users : planOf[u] = p
    \/ \E c \in Condominiums : condos[c] # None /\ condos[c].plan = p

Delete(w) ==
    /\ At(w, "delete")
    /\ plans' = IF Restricted(tasks[w].plan) THEN plans
                ELSE [plans EXCEPT ![tasks[w].plan] = None]
    /\ Become(w, Idle)
    /\ UNCHANGED <<made, planOf, condos, calls, stops, overlaps>>

\* The foreign key refuses a plan that was deleted meanwhile.
InsertAccount(w) ==
    LET t == tasks[w] IN
    /\ At(w, "account")
    /\ planOf' = IF t.plan \in Existing /\ planOf[t.of] = None
                 THEN [planOf EXCEPT ![t.of] = t.plan] ELSE planOf
    /\ Become(w, Idle)
    /\ UNCHANGED <<plans, made, condos, calls, stops, overlaps>>

InsertCondominium(w) ==
    LET t == tasks[w] IN
    /\ At(w, "assign")
    /\ condos' = IF t.plan \in Existing /\ condos[t.of] = None
                 THEN [condos EXCEPT ![t.of] = t.row] ELSE condos
    /\ Become(w, Idle)
    /\ UNCHANGED <<plans, made, planOf, calls, stops, overlaps>>

SelectCondominium(w) ==
    /\ At(w, "pick")
    /\ Become(w, [tasks[w] EXCEPT !.step = "store", !.was = condos[tasks[w].of]])
    /\ UNCHANGED <<plans, made, planOf, condos, calls, stops, overlaps>>

StoreCondominium(w) ==
    LET t == tasks[w]
        row == EntitySave!Saved(condos[t.of], t.was, t.row) IN
    /\ At(w, "store")
    /\ condos' = IF row # None /\ row.plan \notin Existing THEN condos
                 ELSE [condos EXCEPT ![t.of] = row]
    /\ Become(w, Idle)
    /\ UNCHANGED <<plans, made, planOf, calls, stops, overlaps>>

Interrupt(w) ==
    /\ tasks[w] # Idle /\ stops < MaxStops
    /\ stops' = stops + 1
    /\ Become(w, Idle)
    /\ UNCHANGED <<plans, made, planOf, condos, calls, overlaps>>

Next ==
    \/ \E w \in Slots :
        \/ \E bands \in Bands \cup {<<>>}, price \in Prices : CreatePlan(w, bands, price)
        \/ \E p \in Ids : \E q \in Patches : PatchPlan(w, p, q)
        \/ \E p \in Ids : SetDefaultPlan(w, p) \/ DeletePlan(w, p)
        \/ \E u \in Users :
            \/ Register(w, u)
            \/ \E c \in Condominiums, p \in Ids \cup {None} : CreateCondominium(w, c, u, p)
        \/ \E c \in Condominiums, p \in Ids \cup {None} : UpdateCondominium(w, c, p)
        \/ SelectPlan(w) \/ WritePlan(w) \/ MarkDefault(w)
        \/ CountCondominiums(w) \/ CountUsers(w) \/ Delete(w)
        \/ InsertAccount(w) \/ InsertCondominium(w)
        \/ SelectCondominium(w) \/ StoreCondominium(w)
        \/ Interrupt(w)
    \/ \E c \in Condominiums : RemoveCondominium(c)

Spec == Init /\ [][Next]_planVars

(***************************************************************************)
(* Properties.                                                             *)
(***************************************************************************)

PlanTypeOK ==
    /\ plans \in [Ids -> Plan \cup {None}]
    /\ made \in Ids /\ \A p \in Existing : p <= made
    /\ planOf \in [Users -> Ids \cup {None}]
    /\ \A c \in Condominiums :
        condos[c] # None => condos[c].owner \in Users /\ condos[c].plan \in Ids
    /\ \A w \in Slots : tasks[w].plan \in Ids \cup {0}
    /\ calls \in 0..MaxCalls /\ stops \in 0..MaxStops /\ overlaps \in BOOLEAN

\* While requests do not overlap, exactly one plan is the default of the platform, also
\* after an interruption: it can be neither deleted nor left without a successor.
OneDefault == ~overlaps => Cardinality(Defaults) = 1

\* No account and no condominium refers to a plan that is gone, however requests overlap.
PlansKept ==
    /\ \A u \in Users : planOf[u] # None => planOf[u] \in Existing
    /\ \A c \in Condominiums : condos[c] # None => condos[c].plan \in Existing

\* A stored plan with price bands prices every number of units by exactly one of them,
\* whatever order they were sent in; a plan without bands by its own price.
EveryUnitPriced ==
    \A p \in Existing : \A n \in 1..MaxUnits :
        LET bands == plans[p].bands
            fit == {i \in DOMAIN bands : Covers(bands[i], n)} IN
        IF bands = <<>> THEN PricePerUnit(plans[p], n) = plans[p].price
        ELSE \E i \in fit : fit = {i} /\ PricePerUnit(plans[p], n) = bands[i].price

\* While requests do not overlap, every condominium can be billed: a plan is found for it.
EveryCondominiumBilled ==
    ~overlaps => \A c \in Condominiums : condos[c] # None => PlanOfCondominium(c) \in Existing
=============================================================================
