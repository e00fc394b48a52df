---------------------------- MODULE SchemaUpgrade ----------------------------
(***************************************************************************)
(* npm run migration:run and migration:revert over the migrations of       *)
(* src/migrations, on a database that an earlier release left behind.      *)
(*                                                                         *)
(* migration:run takes the registered migrations that are not recorded, by *)
(* time stamp, sends the statements of up one by one and then records the  *)
(* migration.  migration:revert sends those of down of the last recorded   *)
(* one and removes the record.  Both ask for one transaction around it     *)
(* all; MySQL and MariaDB commit at every statement that changes the       *)
(* schema, so only PostgreSQL rolls back.                                  *)
(***************************************************************************)
EXTENDS Migrations, EntityTables, SequencesExt

CONSTANTS
    Engines,      \* the database servers considered
    MaxCrashes,   \* how often a command is interrupted
    MaxReverts    \* how often migration:revert is called

VARIABLES
    engine,    \* the server
    schema,    \* tables, foreign keys and indexes as the command sees them
    recorded,  \* the table of migrations: those recorded, oldest first
    durable,   \* schema and records that survive a crash or a rollback
    job,       \* the command that is running
    crashes, reverts, refused   \* interruptions and reverts so far; was a statement refused?

schemaVars == <<engine, schema, recorded, durable, job, crashes, reverts, refused>>

NoJob == [kind |-> "none", todo |-> << >>, body |-> << >>, autocommit |-> FALSE]
Idle == job = NoJob

(***************************************************************************)
(* Order: by time stamp, and as registered where the stamps are equal.     *)
(***************************************************************************)

Precedes(i, j) ==
    \/ Registered[i].stamp < Registered[j].stamp
    \/ Registered[i].stamp = Registered[j].stamp /\ i < j

Ordered ==
    [k \in DOMAIN Registered |->
        CHOOSE i \in DOMAIN Registered :
            Cardinality({j \in DOMAIN Registered : Precedes(j, i)}) = k - 1]

Pending(done) == SelectSeq(Ordered, LAMBDA i : i \notin Range(done))

(***************************************************************************)
(* The schema that migrations leave when nothing is refused, and whether   *)
(* something is.                                                           *)
(***************************************************************************)

\* A statement given a condition is replaced by its body or by nothing.
Unfold(s, e, st) == IF IsTrue(s, e, st.when) THEN st.body ELSE << >>

RECURSIVE Send(_, _, _)
Send(s, e, body) ==
    IF body = << >> \/ ~Accepts(s, e, Head(body)) THEN [schema |-> s, unsent |-> body]
    ELSE IF Head(body).op = "given" THEN Send(s, e, Unfold(s, e, Head(body)) \o Tail(body))
    ELSE Send(Effect(s, Head(body)), e, Tail(body))

Upgrade(e, done) ==
    FoldLeft(LAMBDA r, i : IF r.unsent # << >> THEN r ELSE Send(r.schema, e, Registered[i].up),
             [schema |-> EmptySchema, unsent |-> << >>], done)

Upgraded(e, done) == Upgrade(e, done).schema

(***************************************************************************)
(* A database of an earlier release, which registered a prefix of the      *)
(* migrations.                                                             *)
(***************************************************************************)

Init ==
    /\ engine \in Engines
    /\ \E k \in 0..Len(Ordered) : recorded = SubSeq(Ordered, 1, k)
    /\ Upgrade(engine, recorded).unsent = << >>
    /\ schema = Upgraded(engine, recorded)
    /\ durable = [schema |-> schema, recorded |-> recorded]
    /\ job = NoJob
    /\ crashes = 0 /\ reverts = 0 /\ refused = FALSE

(***************************************************************************)
(* The two commands.                                                       *)
(***************************************************************************)

RunStart ==
    /\ Idle /\ Pending(recorded) # << >>
    /\ job' = [NoJob EXCEPT !.kind = "run", !.todo = Pending(recorded),
                            !.body = Registered[Head(Pending(recorded))].up]
    /\ UNCHANGED <<engine, schema, recorded, durable, crashes, reverts, refused>>

RevertStart ==
    /\ Idle /\ recorded # << >> /\ reverts < MaxReverts
    /\ job' = [NoJob EXCEPT !.kind = "revert", !.todo = <<Last(recorded)>>,
                            !.body = Registered[Last(recorded)].down]
    /\ reverts' = reverts + 1
    /\ UNCHANGED <<engine, schema, recorded, durable, crashes, refused>>

\* The transaction of the command is over once MySQL has seen a statement that
\* changes the schema; from then on every statement commits by itself.
Commits == engine \in MySQLFamily

Execute ==
    /\ job.body # << >> /\ Accepts(schema, engine, Head(job.body))
    /\ Head(job.body).op # "given"
    /\ schema' = Effect(schema, Head(job.body))
    /\ job' = [job EXCEPT !.body = Tail(@), !.autocommit = Commits]
    /\ durable' = IF Commits THEN [schema |-> schema', recorded |-> recorded] ELSE durable
    /\ UNCHANGED <<engine, recorded, crashes, reverts, refused>>

Examine ==
    /\ job.body # << >> /\ Accepts(schema, engine, Head(job.body))
    /\ Head(job.body).op = "given"
    /\ job' = [job EXCEPT !.body = Unfold(schema, engine, Head(@)) \o Tail(@)]
    /\ UNCHANGED <<engine, schema, recorded, durable, crashes, reverts, refused>>

\* What an interrupted or refused command leaves.
RollBack ==
    /\ schema' = durable.schema
    /\ recorded' = durable.recorded
    /\ job' = NoJob
    /\ UNCHANGED <<engine, durable, reverts>>

Refuse ==
    /\ job.body # << >> /\ ~Accepts(schema, engine, Head(job.body))
    /\ RollBack
    /\ refused' = TRUE
    /\ UNCHANGED crashes

Crash ==
    /\ ~Idle /\ crashes < MaxCrashes
    /\ RollBack
    /\ crashes' = crashes + 1
    /\ UNCHANGED refused

Saved(done) == IF job.autocommit THEN [durable EXCEPT !.recorded = done] ELSE durable

Record ==
    /\ job.kind = "run" /\ job.todo # << >> /\ job.body = << >>
    /\ recorded' = Append(recorded, Head(job.todo))
    /\ durable' = Saved(recorded')
    /\ job' = [job EXCEPT !.todo = Tail(@),
                          !.body = IF Tail(job.todo) = << >> THEN << >>
                                   ELSE Registered[Head(Tail(job.todo))].up]
    /\ UNCHANGED <<engine, schema, crashes, reverts, refused>>

Unrecord ==
    /\ job.kind = "revert" /\ job.todo # << >> /\ job.body = << >>
    /\ recorded' = Front(recorded)
    /\ durable' = Saved(recorded')
    /\ job' = [job EXCEPT !.todo = << >>]
    /\ UNCHANGED <<engine, schema, crashes, reverts, refused>>

Commit ==
    /\ ~Idle /\ job.todo = << >>
    /\ durable' = [schema |-> schema, recorded |-> recorded]
    /\ job' = NoJob
    /\ UNCHANGED <<engine, schema, recorded, crashes, reverts, refused>>

Next ==
    \/ RunStart \/ RevertStart
    \/ Execute \/ Examine \/ Refuse
    \/ Record \/ Unrecord \/ Commit
    \/ Crash

Spec == Init /\ [][Next]_schemaVars

(***************************************************************************)
(* Properties.                                                             *)
(***************************************************************************)

\* Records are migrations, each at most once, and what survives a crash is never
\* ahead of what the command has done.
SchemaTypeOK ==
    /\ engine \in Engines
    /\ IsInjective(recorded) /\ Range(recorded) \subseteq DOMAIN Registered
    /\ IsPrefix(durable.recorded, recorded) \/ job.kind = "revert"
    /\ job.kind \in {"none", "run", "revert"}
    /\ \A r \in schema.refs : HasColumn(schema, r.from, r.col) /\ HasTable(schema, r.to)
    /\ \A i \in schema.indexes : HasColumn(schema, i.table, i.col)
    /\ crashes \in 0..MaxCrashes /\ reverts \in 0..MaxReverts /\ refused \in BOOLEAN

\* On MariaDB, the server of docker-compose.yml, no statement of migration:run is
\* refused on the database of any earlier release that was never interrupted.
UpgradeAccepted ==
    (engine = "mariadb" /\ job.kind = "run" /\ job.body # << >> /\ crashes = 0 /\ reverts = 0)
        => Accepts(schema, engine, Head(job.body))

\* Migrations that MariaDB cannot revert: they drop the index a foreign key needs
\* before the key.
RefusedReversals == {FinancialTransactionSupplier1751450000000,
                     TransactionBankAccount1751490000000,
                     UnitFeeCreditFinancialTransaction1751850000000}

\* migration:revert undoes the last migration (README.md): no other is refused, on
\* PostgreSQL also when a command was interrupted before.
RevertAccepted ==
    (/\ job.kind = "revert" /\ job.body # << >>
     /\ engine = "mariadb" =>
            crashes = 0 /\ ~refused /\ Registered[Head(job.todo)] \notin RefusedReversals)
        => Accepts(schema, engine, Head(job.body))

\* Migrations whose down says that it does not undo, and two whose down does not
\* bring back the table that up dropped: the voucher catalogue (on MySQL) and the
\* attachments of budgets, which moved to the timeline.
NotUndone == {DropCondominiumDocumentMembersNote1750350000000,
              EnsureTransactionCompetencyColumns1751240000000,
              SaasVouchersCatalog1750240000000,
              CondominiumWorkTimelineAttachments1751470000000}

\* Between commands the schema is the one its recorded migrations build, whatever
\* was run and reverted; PostgreSQL keeps this through crashes and refusals.
SchemaIsRecorded ==
    (/\ Idle
     /\ engine = "postgres" \/ (crashes = 0 /\ ~refused)
     /\ reverts > 0 /\ Pending(recorded) # << >> => Registered[Head(Pending(recorded))] \notin NotUndone)
        => schema = Upgraded(engine, recorded)

\* A database that has nothing pending was upgraded completely, also when
\* migration:run was interrupted and called again.
NothingPendingIsComplete ==
    (Idle /\ Pending(recorded) = << >> /\ reverts = 0) => schema = Upgraded(engine, Ordered)

UpToDate == Idle /\ Pending(recorded) = << >> /\ crashes = 0 /\ reverts = 0

\* The columns of every entity the application loads are there once nothing is
\* pending: queries of TypeORM name all of them.
SchemaServesEntities ==
    UpToDate => \A e \in Entities : \A c \in e.cols : HasColumn(schema, e.table, c)

AddedBy(m) == UNION {{<<m.up[k].table, c>> : c \in m.up[k].cols} : k \in DOMAIN m.up}

\* Nothing is missing but what the unlisted migrations add.
OnlyUnlistedMissing ==
    UpToDate => \A e \in Entities : \A c \in e.cols :
                    HasColumn(schema, e.table, c) \/ \E m \in Unlisted : <<e.table, c>> \in AddedBy(m)

\* On MySQL their tables are made without foreign keys.
MaintenanceTables == {CondominiumMaintenance, CondominiumMaintenanceTimelineEntry,
                      CondominiumMaintenanceTimelineAttachment}

\* The onDelete an entity declares is what the database does, the maintenances
\* apart.
RelationsEnforced ==
    UpToDate =>
        \A e \in Entities \ MaintenanceTables : \A r \in e.relations :
            \/ r.to = CondominiumMaintenance.table
            \/ \E k \in schema.refs :
                  k.from = e.table /\ k.col = r.col /\ k.to = r.to /\ k.rule = r.rule
=============================================================================
