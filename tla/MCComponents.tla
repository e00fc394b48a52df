----------------------------- MODULE MCComponents -----------------------------
(***************************************************************************)
(* Small instances for TLC of the components of Parts and of SchemaUpgrade,*)
(* explored in one run: the initial state chooses one of them, and only    *)
(* that one moves.  SchemaUpgrade has its own variables; it moves when the *)
(* part is "elsewhere", and they are None when it is not.  The bounds of   *)
(* each instance are the fields of its record.                             *)
(***************************************************************************)
EXTENDS SchemaUpgrade, Parts

CONSTANTS w1, w2, m1, t1, g1, g2, e1, e2

\* Contacts for one person more than there are accounts.
MCPeople == [
    Emails |-> {"e1"}, Phones |-> {"p1"}, Units |-> {"u1"}, Slots |-> {"request"},
    MaxAccounts |-> 2, MaxPeople |-> 2, MaxInvites |-> 2, MaxRequests |-> 4, MaxCrashes |-> 1]

\* The owner, a resident who may be elected and a stranger.
MCGovernance == [
    Users |-> {"owner", "resident", "stranger"}, Owner |-> "owner", Responsible |-> {"resident"},
    Docs |-> {"minutes"}, Polls |-> {"ordinary", "election", "none"}, Slots |-> {"request"},
    MaxRequests |-> 3, MaxStops |-> 1]

\* A budget of each kind of status.
Budget(status, amount) == [status |-> status, amount |-> amount]
MCTimelines == [
    Engines |-> {"mariadb", "postgres"}, Works |-> {w1, w2}, Maintenances |-> {m1}, Txs |-> {t1},
    Budgets |-> {Budget("awaiting_budget", FALSE), Budget("received", TRUE),
                 Budget("under_review", TRUE), Budget("approved", FALSE)},
    MaxEntries |-> 2, MaxFiles |-> 2, MaxUpload |-> 1, Slots |-> {"request"}, MaxRequests |-> 2,
    MaxStops |-> 1]

\* An account of two units reached by SMS, one of a single unit reached by both channels.
AllChannels == {"anna", "bert"} \X {"email", "sms"}
MCMessages == [
    Users |-> {"anna", "bert"}, Units |-> {"n1", "n2"},
    Linked |-> [u \in {"anna", "bert"} |-> IF u = "anna" THEN {"n1", "n2"} ELSE {"n1"}],
    Contacts |-> AllChannels \ {<<"anna", "email">>},
    Settings |-> {[units |-> {"n2"}, channels |-> AllChannels],
                  [units |-> {}, channels |-> {<<"anna", "email">>}]},
    Files |-> {"f1"}, Managers |-> {"manager"}, Readers |-> {"reader"}, MaxRequests |-> 2,
    MaxReadings |-> 1, MaxStops |-> 1]

\* A fund that is charged every month, one with a term.
MCAccruals == [
    Funds |-> {"f1", "f2"}, Legacy |-> {"f1"},
    Setups |-> {[rule |-> TRUE, permanent |-> TRUE, start |-> 1, end |-> 1, cents |-> 1],
                [rule |-> TRUE, permanent |-> FALSE, start |-> 2, end |-> 2, cents |-> 1]},
    MaxMonth |-> 2, MaxUnits |-> 1, MaxCents |-> 1, MaxIds |-> 6, MaxCalls |-> 3, MaxFaults |-> 1,
    Slots |-> {"request"}]

\* Three units in up to two groupings, which may have one name.
AllocationRule(kind, units, groupings) ==
    [kind |-> kind, units |-> units, groupings |-> groupings]
MCFees == [
    Units |-> {1, 2, 3}, Groupings |-> {g1, g2}, Names |-> {"flats", " "}, Blank |-> " ",
    Expenses |-> {e1, e2}, Amounts |-> {2},
    Rules |-> {AllocationRule("except", {1}, {})}, WorkRule |-> AllocationRule("all", {}, {}),
    MaxMoves |-> 1, MaxCalls |-> 3]

\* One address, two requests at once.
MCCodes == [Addresses |-> {"phone"}, MaxCodes |-> 3, MaxCalls |-> 4, MaxStops |-> 1,
            Slots |-> {"r1", "r2"}]

\* Bands in either order, two requests at once.
PriceBand(min, max, price) == [min |-> min, max |-> max, price |-> price]
BandLists == {<<PriceBand(2, 0, 0), PriceBand(1, 1, 1)>>, <<PriceBand(1, 1, 1), PriceBand(3, 0, 0)>>}
Ask(bands, price, active) == [bands |-> bands, price |-> price, active |-> active]
MCPlans == [
    Users |-> {"u1"}, Condominiums |-> {"c1"}, Prices |-> {0, 1}, Bands |-> BandLists,
    Patches |-> {Ask(bands, None, None) : bands \in BandLists}
                \cup {Ask(<<>>, 1, None), Ask(None, 0, FALSE)},
    MaxPlans |-> 2, MaxUnits |-> 3, MaxCalls |-> 4, MaxStops |-> 1, Slots |-> {"r1", "r2"}]

\* One ticket, two requests at once.
MCTickets == [Tickets |-> {"ticket"}, MaxCalls |-> 3, MaxFiles |-> 1, MaxFaults |-> 1,
              Slots |-> {"r1", "r2"}]

\* Works, groupings and expenses are told apart by nothing but the rows that name them, and
\* what this run checks are safety properties.
Symmetry == Permutations({w1, w2}) \cup Permutations({g1, g2}) \cup Permutations({e1, e2})

(***************************************************************************)
(* The run: a behaviour of Parts, which is one of SchemaUpgrade when it    *)
(* goes on elsewhere.                                                      *)
(***************************************************************************)

NoSchema ==
    /\ engine = None /\ schema = None /\ recorded = None /\ durable = None /\ job = None
    /\ crashes = None /\ reverts = None /\ refused = None

InitAll == InitParts /\ IF part = "elsewhere" THEN Init ELSE NoSchema

NextAll ==
    \/ NextParts /\ UNCHANGED schemaVars
    \/ part = "elsewhere" /\ Next /\ UNCHANGED partVars

SpecAll == InitAll /\ [][NextAll]_<<partVars, schemaVars>>

\* migration:run upgrades the database of every earlier release, migration:revert
\* undoes a migration, and between commands the schema is that of the records.
UpgradesComplete ==
    part = "elsewhere" =>
        /\ SchemaTypeOK /\ UpgradeAccepted /\ RevertAccepted
        /\ SchemaIsRecorded /\ NothingPendingIsComplete

\* An upgraded database has the columns of the entities, those of unlisted migrations
\* apart, and enforces the relations they declare, those of maintenances apart.
SchemaFitsEntities ==
    part = "elsewhere" => OnlyUnlistedMissing /\ RelationsEnforced
=============================================================================
