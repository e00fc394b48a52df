# TLA+ models of condo-api

condo-api is a NestJS service with TypeORM over MySQL/MariaDB (PostgreSQL is
optional) for the administration of condominiums: fees and other finances,
assemblies and polls, communications, works, and the billing of the service
itself. The modules in this directory model its core protocols, TLC checks them
on small instances and TLAPS proves theorems about them for every instance.

## How the service executes, and how the models execute

* Every handler is an `async` function of one Node.js process (or of several
  replicas). Another request, a cron job or a crash can come in at every
  `await`; a handler is therefore a sequence of actions of one *worker*, and its
  local variables are fields of the record `req[w]`.
* `repository.save(entity)` of TypeORM is two statements: a SELECT by primary
  key and then an UPDATE of the columns in which the entity differs from the
  row that was selected (an INSERT if there is none). There are no version
  columns and no row locks in the code, so a stale entity writes its stale
  columns back. `Stored`, `Merge` and `RowOf` model this and are marked external.
* `manager.transaction` runs at REPEATABLE READ, the default of the MySQL driver
  the code selects when nothing else is configured
  (`database/connection-credentials.ts`): all its reads come from one snapshot
  (the `*_begin` step), its writes become visible together (the `*_commit`
  step), and an UPDATE applies to the current row. With another isolation level
  the snapshot may be newer; the violations below do not depend on it.
* A request may end at any await, by an exception or a crash (`Fail`).

## Inventory

| Component | State | Operations | Hard behaviour | Correct when |
|---|---|---|---|---|
| Monthly fee charges (`finance/condominium-fees.service.ts`) | charges, payment log | close, regenerate, settle, reopen, replace receipt, due dates | check outside of the transaction, stale saves, delete then insert | a paid charge stays paid until it is reopened; amount, credit and payment agree |
| Credit ledger (`finance/unit-fee-credit.service.ts`) | signed entries of a unit | advance, apply on settle, restore on reopen | sums over rows, repeated restores | credit is conserved, never overspent, used oldest charge first |
| Financial transactions (`finance/financial-transactions.service.ts`) | transactions, unit shares, transfers, recurring series | create, update, settle, cancel, reopen, remove, transfer | stale cancel, file deleted inside a transaction, links synchronised after the commit | a settled expense has exactly the credit it gave |
| Fund accruals (`finance/fund-accrual.service.ts`) | accrual rows, income transactions | ensure, remove, normalise | create before the unique row | one contribution per fund and competence |
| Crons (`finance/*-cron.service.ts`) | recurrences | run due recurrences, close the month | crash between create and advance, overlap with a request | each occurrence once |
| Funds, bank accounts, balances | reference data, sums | CRUD | - | sums equal the transactions |
| Shares and fees (`allocation-resolver.service.ts`, `distribute-cents.ts`, `condominium-fee-shares.util.ts`) | unit shares of a transaction | select units, split, level, sum | units and groupings that change after the split, rounding twice | parts add up to the whole, fees cover the expenses |
| Polls and votes (`planning/planning-polls.service.ts`) | polls, questions, votes | draft, open, vote, abstain, close, decide, postpone | delete-then-insert votes, races with close | one ballot per unit, none after the close |
| Governance (`planning/governance.service.ts`) | participants, audit log | assign, remove, bootstrap | remove-then-insert | at most one syndic, never none |
| Assembly documents (`planning/planning-documents.service.ts`) | documents | draft, upload, publish, elect | election outside a transaction | published implies a stored PDF |
| Platform billing (`platform/platform-billing-asaas.service.ts`) | SaaS charges, suspension | create, webhook, sync, daily job | duplicated and reordered webhooks, stale sync | a paid charge is not turned back |
| Plans and vouchers (`platform/saas-*.service.ts`) | plans, vouchers | CRUD, default plan | count then delete | one default plan |
| People and invitations (`people/people.service.ts`) | people, invitations, links | assign, invite, accept | several statements without a transaction | an invitation is consumed exactly once |
| Users and authentication (`users`, `auth`) | users, one-time codes | register, login, reset | read, compare, delete | a code works once |
| Condominiums, groupings, units | names, units of a grouping | CRUD | cascades into the shares | see shares and fees |
| Communications (`communications`) | drafts, recipients, read links | edit, send, resend, confirm | delete-then-insert recipients, gateways failing | everybody who was sent a link is a recipient |
| Works and maintenances (`condominium-works`, `condominium-maintenances`) | timelines, budgets, queue | CRUD, link of a transaction, reorder | max-plus-one positions, links outside the transaction | one timeline entry per linked transaction |
| Support tickets (`support`) | tickets, messages, files | open, reply, change status | files before rows, stale save of the ticket | an announced reply is there, with its files |
| Database and migrations (`database`, `migrations`) | schema, table of migrations | migration:run, migration:revert | statements that commit on their own, a list kept by hand, two dialects | nothing pending means the schema of the entities |
| Suppliers, library, cep | records and files | CRUD | - | - |
| Storage, mail, SMS, WhatsApp | external | put, get, delete, send | failures | no reference to a missing file |

The components interact through calls inside the process (closing a month calls
the fund accruals, which create transactions; settling a charge calls the credit
ledger inside its transaction; a settled expense may call it too), through rows
they share (an income transaction settles a charge, a transaction appears in the
timeline of a work, the people of a unit are the audience of a communication and
the electorate of a poll) and through files named by storage keys in several
tables.

`PROJECT.json` lists all of them with their status, and under `hazards` the
places where this code is hard to test and the properties aimed at them.

## Modules

| Module | What it is |
|---|---|
| `EntitySave` | what `save` of an entity does to a row (external, TypeORM); used by `TransactionSettlement`, `PollVoting` and `SaasBilling` |
| `FeeCharges` | the handlers of `CondominiumFeesService` and `UnitFeeCreditService` at the granularity of awaits, statements and snapshots |
| `FeeLedger` | its abstract specification: charges that are billed, paid and withdrawn, and credit that is deposited, held by a paid charge and given back |
| `TransactionSettlement` | one-transaction operations of `FinancialTransactionsService`, the credit of an expense paid by a unit, the receipt file |
| `ExpenseBook` | its abstract specification: an expense is open, paid by somebody, or cancelled, and the condominium owes a unit exactly what it paid |
| `PollVoting` | the life of a poll, its questions, votes and abstentions (`PlanningPollsService`) |
| `BallotBox` | its abstract specification: one choice per unit, changed in one step, until the matter is settled |
| `SaasBilling` | the subscription of a condominium: creation of charges, Asaas webhooks, synchronisation, daily cycle |
| `SqlSchema` | what the statements of a migration do to tables, foreign keys and indexes, per engine |
| `Migrations` | the migrations of `src/migrations`, up and down, one definition for each class, and the registered list |
| `EntityTables` | the tables, columns and relations the `*.entity.ts` classes declare |
| `SchemaUpgrade` | `migration:run` and `migration:revert` over these, with crashes, from the database of any earlier release |
| `PeopleInvitations` | accounts, people of the units, invitations to a unit or to the condominium and their acceptance |
| `AssemblyGovernance` | roles, audit log, documents of an assembly and the election their publication puts into force |
| `WorkTimelines` | works, maintenances, their timelines and files, and the transactions linked to them |
| `Communications` | draft, audience, sending, resending, reading links of a communication |
| `FundAccruals` | the monthly income of the funds when a month is closed or regenerated |
| `FeeShares` | units and groupings, the shares of the expenses of a month and the fee of a unit |
| `AccessCodes` | one-time codes for login and password reset |
| `PlanCatalog` | SaaS plans, their price bands, the default plan and what refers to a plan |
| `SupportTickets` | tickets, replies with files, status changes, the mail about a reply |
| `Sums` | the sum of a function over a finite set, for the fees and for properties about ledgers |
| `MCFeeCharges`, `MCTransactionSettlement`, `MCPollVoting`, `MCSaasBilling` | constants and symmetry for TLC |
| `Parts` | the nine components from `PeopleInvitations` to `SupportTickets` side by side, and what is promised of whichever runs |
| `MCComponents` | small instances of those nine and of `SchemaUpgrade`, explored by one run |
| `FeeCharges_proofs`, `PollVoting_proofs`, `SaasBilling_proofs` | theorems about the module each is named after |
| `TransactionSettlement_proofs` | theorems about `TransactionSettlement`, and about `WorkTimelines`, whose works and maintenances transactions are linked to |
| `Messages_proofs` | theorems about `AccessCodes`, `Communications` and `PeopleInvitations` |
| `Components_proofs` | theorems about `SupportTickets`, `PlanCatalog`, `AssemblyGovernance`, `FundAccruals` and `FeeShares` |
| `Parts_proofs` | the properties of `Parts`, from the theorems about each component |
| `Sums_proofs` | lemmas about sums, extremes and images of finite sets that these proofs share |

Components of separate modules share few rows. `FeeCharges` and
`TransactionSettlement` share the credit ledger: each models the rows that belong
to its own charges or transactions. A ledger row names either a charge or a
transaction, and both handlers only add rows, so the balance is the sum of the
two. The fee module takes any income transaction as given. `WorkTimelines` and
`FundAccruals` contain the handlers of `FinancialTransactionsService` that touch
their links or their incomes, with the status of a transaction only, `FeeShares`
those that write the shares of an expense;
`AssemblyGovernance` takes the polls as open or closed. The components
of `Parts` share no rows at all, which is why one run can explore them one at a
time: the initial state chooses the part, and only that part moves. The variables
`x1` to `x13` stand for those of the part, in the order its module declares them; the
parameters of a part are the fields of a record. When the part is "elsewhere" none of
the nine moves; in `MCComponents` the schema does then, with variables of its own.

### FeeCharges and the code

`charge` is the table `condominium_fee_charges`, indexed by its unique key (unit
and competence). The ledger table is kept as the sums the code computes from it:
`balance` (getUnitBalanceCents), `advanced` (its `advance_payment` rows), and per
charge `applied` and `restored` (the rows linked to it; deleting the charge sets
the link to NULL, so these sums restart from 0 while the balance stays).
`reopenLog` counts the `payment_reopened` rows and goes with the charge
(ON DELETE CASCADE). `files` is the receipt storage.

Each handler is a group of actions: `CloseStart, CloseRead, CloseSkip, CloseLoad,
CloseInsert, CloseUpdate` (closeMonthInternal), `RegenStart, RegenDelete,
RegenInsert` (regenerateMonth), `SettleRead, SettleBegin, SettleCommit` (settle
with applyCreditOnSettle), `ReopenRead, ReopenBegin, ReopenCommit`
(reopenPayment with restoreCreditOnReopen), `DueRead, DueLoad, DueWrite`
(updateChargesDueDate), `ReplaceRead, ReplaceBegin, ReplaceCommit,
ReplaceDelete` (replacePaymentReceipt), `Advance` (registerAdvancePayment),
`Upload` and `Fail`. A month closing bills any of `Amounts` to a unit: how the
amount follows from the transactions is in `FeeShares`. Loops over the
units take them in any order, which the code's query does not fix either.

A refused payment needs no action of its own: the transaction rolls back, which
is `Fail` before the commit.

### TransactionSettlement and the code

`tx` is the table `financial_transactions` with the columns a property tells
apart: kind, amount, status and receipt key. `given[t][u]` and `taken[t][u]` are
the sums of the ledger rows of transaction t and unit u; the balance survives the
removal of a transaction, these rows lose their link.

Handlers: `Create`; `UpdateRead, UpdateFile, UpdateBegin, UpdateCommit` (update,
which deletes the old receipt before its transaction); `SettleRead, SettleBegin,
SettleFile, SettleCommit` (settlePayment, which deletes it inside);
`CancelRead, CancelLoad, CancelWrite` (no transaction); `ReopenRead, ReopenBegin,
ReopenCommit`; `RemoveRead, RemoveFile, RemoveRow`.

update replaces the unit shares of the transaction. A cancellation that loaded
the old ones then fails: the cascade of its save tries to detach the new shares,
whose column is NOT NULL. The field `shares` of a request says which it holds.

### PollVoting and the code

There is one poll; polls share no rows. `question` maps a question to Absent,
None (undecided) or its decided option, `votes` and `abstained` are the tables.
No handler of the service uses a transaction, so every statement is an action:
castVote is `CastRead, CastMerge, CastClear, CastDelete, CastInsert`,
registerAbstention `AbstainRead, AbstainVotes, AbstainClear, AbstainInsert`,
decide `DecideRead, DecideQuestion`, a save of the poll and `Refresh`, update
`UpdateRead`, a save or `ReplaceVotes, ReplaceQuestions, ReplaceInsert`. Opening,
closing, finalising an "ata", postponing, withdrawing and resuming are one read
and the save (`SaveLoad, SaveWrite`).

`BallotBox` sees a vote as one step. The refinement mapping puts that step at the
delete of castVote: from there to the insert the unit's choice is taken to be the
set about to be written. When the handler fails in between, the choice is lost;
the abstract specification has a step `Lose` for it because the code really does
lose it. Whether the database accepts the save that follows a replacement of the
questions, with the old questions still attached to the entity, is left open:
both outcomes are covered, the refusal by `Fail`.

Seen while modelling and not claimed as findings: changing the type of a poll to
"ata" leaves its questions in place, although the controller says the type
removes them; update accepts any status, which `Overrides` makes available to an
instance.

### SaasBilling and the code

`charge` is the table `saas_charge` of one condominium (the cycle and the bulk
creation treat condominiums one after the other and share nothing between them),
`billing` its row of `saas_condominium_billing`. `gateway`, `said` and `mail` are
Asaas: the present state of a payment, every state it has been in, and the
webhooks that were not answered yet. createMonthlyCharge is
`CreateStart ... CreateUndo`, ensureAsaasCustomer `CreatePriced`,
runDailySubscriptionBillingCycle `CycleStart, CycleSuspend, CyclePlan` and then
the creation, syncPendingChargesFromAsaas `SyncStart, SyncGet, SyncError,
SyncLoad, SyncWrite`, handleAsaasWebhook `HookRead, HookLoad, HookWrite`,
patchBilling `PatchBilling`. The three saves of the billing row share
`BillingLoad` and `BillingWrite`.

Months are numbered from the first one billed and a month is due at `Period`
times its number, the shape firstSubscriptionDueYmd and nextSubscriptionDueAfter
give; an administrator's charge has the due date of its month. The price decides
only between `CreateFree` and `CreatePriced`. States of Asaas with the same
effect are one: CONFIRMED and RECEIVED, DELETED and REFUNDED; a webhook of the latter two
sets the status and nothing else (`Notified`).

### SchemaUpgrade and the code

`schema` is what the catalogue of the server shows to the command, `durable` what
survives a crash. `RunStart` and `RevertStart` take the pending migrations or the
last one recorded; `Examine` is the decision of a migration that first looks at
the schema (`hasTable`, `hasColumn`, IF EXISTS written by hand), `Execute` sends
the next statement, `Refuse` is its rejection by the server, `Record`, `Unrecord`
and `Commit` end a migration and the command, `Crash` interrupts it. MySQL and
MariaDB commit at every statement; PostgreSQL rolls back. `Init` is the database
left by any earlier release, that is after any prefix of the registered list.

Every class of `src/migrations` is a definition of `Migrations`, the unregistered
ones included, with the tables, columns, foreign keys and the indexes these keys
need. Types, defaults, rows and other indexes are left out. `EntityTables` is the
other side: what the entities say about the same tables.

### PeopleInvitations and the code

A request is a slot of `calls`. Its `todo` is the list of writes that are still to
come, of `CreateAccount, CreatePerson, SavePerson, LinkPerson, SaveUnit,
ReplaceInvites, SendInvite, ConfirmPhone, Consume, SetPhoneByStaff, Forget`; `Crash`
may come before any of them. The requests are `Register`, `UpdateProfile`,
`AssignToUnit` (of a person, an account or a stranger, who is invited), the
invitations to the condominium and their deletion, `AcceptUnitInvitation` and
`AcceptCondominiumInvitation` (with `Join` for a guest without an account and
`Confirm` for one with), and the smaller changes of a unit. `invites` holds both
tables of invitations. A save writes the row as the request loaded it, so that a
stale `responsibleLinks` or owner is written back as the code does.

### AssemblyGovernance and the code

`roles` is `condominium_participants`. ensureBootstrapParticipants is
`BootstrapCount, BootstrapSave`, createParticipant `CreateParticipant, FindOlds,
RemoveOlds, FindSame, SaveParticipant, Log`, removeParticipant `RemoveParticipant,
RemoveRow, Log`. Documents are made by
`Generate`, replaced by `UploadFinalPdf`, published by `Publish` and `SaveDoc`; the
publication of the minutes of an election runs applyElection: `FindInOffice,
RemoveFromOffice, ElectSyndic, ElectAdmin, LogElection`. `Stop` cuts a request
short. `ReadByResidents` is the condition of list and download.

### WorkTimelines and the code

A request is the sequence of the statements it has left (`tasks`), built when it
starts from what it reads then: `CreateWork, UpdateWork, ReorderQueue, RemoveWork`,
the notes, legal records, budgets and attachments of a timeline, and
`CreateTransaction, UpdateTransaction, BulkAssign, Settle, Cancel, Reopen,
RemoveTransaction, RemoveRecurringSeries` of the transactions. These end in
`Commit` and then `Sync`, which calls the two link services (`Show`, `Hide`) after
the transaction has committed. `BulkAssign` loads its transactions at once; `Assign`
takes them one by one in any order, since the query has none, and saves each as it was
loaded. A maintenance is created under an identifier nothing names yet (`Unused`).
`UpdateTransaction` writes the work the transaction was loaded with (`LoadedWorkKept`);
`Stop` cuts a request short; `interrupted` remembers
which links it left behind. The two engines differ in the foreign keys of the
maintenances.

### Communications and the code

`Update` edits a communication, `Send` is split into `DropLinks, DropRecipients,
Make, InsertRecipients, InsertLinks, Mail, Text, SaveRecipient, Finish`; a link is
a record of sending, account, unit and channel. `OpenLink, MarkReadApp,
LogReading, FindRecipient, TouchRecipient` are the readers. A gateway may refuse a
message; `handed` is what was delivered, which for an SMS may be a part of the links
although the delivery is recorded as failed (`Arrived`).

### FundAccruals and the code

`CloseMonth` and `RegenerateMonth` are the calls of the fee service. For each fund
`FindAccrual, ReadAccrued` look for the accrual of the month, `ResolveUnits,
MakeIncome, MarkAccrued` make it, `DropShares, CreditShares, TurnIntoIncome` turn
an expense of an earlier release into income; `ListAccruals, ReadStatus,
ClearPending` are removeAccrualsForCompetence. `RemoveTransaction`,
`ReopenTransaction` and `UpdateFund` are what happens to the income and the fund
meanwhile, `SettleTransaction` and `CancelTransaction` what happens to an expense of an
earlier release or a reopened income. A rule that leads to no unit, or names one that is
gone, makes resolveUnitIds throw (`Unresolved`), which ends the call. An update of an
accrual may change its links and files only; it writes its shares again with the sign
they have, and is left out.

### FeeShares and the code

`home` and `name` are the tables of units and groupings, `expenses` the expenses of
a month with their rows of `transaction_unit_shares`. `Create`, `Update` and
`LinkWork` resolve the units of the rule and split the amount (`Begin`); `Store` is
the transaction that writes the rows, or is rolled back when a unit of theirs was
removed in between. `AddUnit, RemoveUnit, CreateGrouping, RenameGrouping,
RemoveGrouping` may come at any moment; the rows of a unit go with it (`Drop`).
Requests about expenses follow one another: their races are the subject of
`TransactionSettlement`.

The fee is a chain of definitions over these rows, in the order of the code:
`Counted` (isExpenseIncludedInCondominiumFee), `Sharers`, `Levelled`, `AddMissing`,
`Equalized`, `Raw`, `Due`. The loop of addExtratoRowDeltaPreservingGroups is
given in closed form: the classes do not change while it runs, so when the smallest
one does not fit no other does, and every round goes to the smallest until the money
or the rounds (`MaxMoves`, 10 000) run out. Units are numbered in the order of their
identifiers, which is the order the code sorts them in.

### AccessCodes, PlanCatalog, SupportTickets and the code

`RequestCode` goes through `Clear, Store, Deliver` and, when the gateway refuses,
`Withdraw`; `VerifyCode` through `ReadNewest, DropExpired, UseCode`. A code is the
number of its challenge, so two codes never coincide.

`CreatePlan`, `PatchPlan` (`SelectPlan, WritePlan`), `SetDefaultPlan`
(`MarkDefault`), `DeletePlan` (`CountCondominiums, CountUsers, Delete`), and those
who choose a plan: `Register` (`InsertAccount`), `CreateCondominium`,
`UpdateCondominium` (`SelectCondominium, StoreCondominium`), `RemoveCondominium`.

`Create` and `PostMessage` write their files (`SaveFile`), then `InsertMessage`,
then the ticket as it was loaded (`SelectTicket, WriteTicket`), then the mail
(`Notify`); `PatchStatus` is a load and a save; `Fail` is an exception anywhere.

## Runs

| Run | Instance | What it shows |
|---|---|---|
| `fee_serial` | one worker, one unit, two competences, amounts 0 to 2, advances 1 and 3, two receipts for the first competence, no second reopening | with requests one at a time, and a failure possible at every await, the ledger agrees with the charges, credit is conserved, never overspent and first-in-first-out, no paid charge is deleted, credit is consumed only by the step that pays, the receipt of a paid charge is on file |
| `fee_two_units` | one worker, two units, one competence, charges of zero | charges and ledger implement `FeeLedger` |
| `fee_race` (violation) | two workers | a charge paid between the count and the delete of regenerateMonth is deleted |
| `fee_reopen_twice` (violation) | one worker, two reopenings | the second reopening restores the first credit again |
| `tx_serial` | one worker, two transactions, two units, two receipts | the credit of a unit is exactly what it paid for settled expenses, is given and taken back only by the steps that settle and reopen; transactions implement `ExpenseBook` |
| `tx_receipt_lost` (violation) | one worker | a request that fails after it deleted the old receipt leaves a reference to a missing file |
| `poll_serial` | one worker, a single-choice and a multiple-choice question, two units | one vote per single-choice question, vote or abstention, complete decisions, final results; the tables implement `BallotBox` |
| `poll_election` (violation) | one worker | a draft turned into an election keeps its multiple-choice question |
| `saas_safe` | an administrator beside the crons, two charges, two faults | a month never has two payments that can be paid |
| `saas_live` | webhooks beside the crons and an administrator who reactivates, one charge, one fault | a received payment ends up confirmed; a lasting debtor keeps being suspended; a charge shows only what the gateway said of it |
| `components` | the nine components of `Parts` and the schema, each with the bounds of its instance in `MCComponents` | see below |
| `schema_unregistered` (violation) | `SchemaUpgrade` on both engines | after migration:run has nothing pending, tables lack columns their entities declare |

What `components` shows, property by property:

* `UpgradesComplete`: MariaDB, the server of docker-compose.yml, accepts every
  statement of migration:run on the database of any earlier release;
  migration:revert is accepted but for the three reversals named below; between
  commands the schema is the one its recorded migrations build (PostgreSQL: also
  after crashes); a database with nothing pending was upgraded completely, however
  often the command was interrupted before.
* `SchemaFitsEntities`: an upgraded database lacks no column of an entity but those
  of the six unlisted migrations, and enforces the relations the entities declare
  but for the maintenances on MySQL.
* `ResidentsInOrder`: an invitation is consumed only with its guest linked, a person
  that has an account keeps it, the financial responsible of a unit is one of its
  responsible people, and a guest has one open invitation to the condominium.
* `RolesInOrder`, `ElectionInForce`: the owner keeps the role of owner, an office has
  one holder wherever an assignment or election was cut short, roles are in the
  audit log; minutes of an election are published only with the elected, and nobody
  else, in office, and residents read them only from then on.
* `TimelinesInOrder`: the queue of works orders them, a linked transaction is shown on
  its timeline with its status, and budgets, notes, legal records and files fit.
* `MessagesInOrder`: links that were delivered keep working through resends and changes
  of the audience; a communication becomes sent only when each delivery was tried
  and stored.
* `CostsShared`: a month of a fund is accrued once, and a month that was closed has
  the paid income of every fund that was due, or an expense of an earlier release that
  was settled or cancelled by hand. The rows of an expense add up to it
  unless a unit was removed; as long as there is a unit the fees of a month cover its
  expenses, whatever happened to units and groupings; and unless a unit with a row was
  removed nobody is charged more than its part, rounded up to a cent per expense, or
  that of a unit of its class.
* `CodesInOrder`: a replaced or spent code is dead, one that was reported as sent works.
* `PlansInOrder`: one default plan, no reference to a deleted plan, exactly one price
  for every number of units.
* `TicketsInOrder`: messages have their files, the mail shows the reply, a closed ticket
  takes no later message, an answered one is not shown as untouched.

The `*_serial` runs keep to one request at a time and to one reopening because
that is as far as the code goes. With two workers TLC refutes `LedgerExact` (two
settlements of one charge both consume credit), `PaidUntilReopened` (also by the
stale saves of updateChargesDueDate and closeMonthInternal), `StatusMoves` (a
cancellation overwrites a settlement), `PaidNotRemoved`, `CreditExact` (two
settlements by units both register credit) and `SingleChoice` (two ballots of one
unit). With a second reopening it refutes `CreditExact`, since the credit of the
first settlement is taken back twice. With a receipt key used by two charges it
refutes `ReceiptOnFile` of the fees. To see one, give an instance a second worker
or a `MaxReopens` of 2. What remains under concurrency is what the theorems say.

In the same way the parts of `components` say in their properties where the code
stops: `~overlaps` (no two requests at once), `faults = 0` or `stops = 0` (none cut
short). Removing such a condition makes TLC show the schedule that needs it.

Two more limits of the billing, outside of the runs: with `AnswersLost` TLC
refutes `OnePaymentPerMonth` (the charge of a payment whose answer was lost is
removed, the payment stays); and a RECEIVED delivered after the REFUNDED leaves a
charge confirmed for ever, which is why `PaidIsConfirmed` speaks of payments that
stay received.

### Findings

The five violations are listed in `PROJECT.json` with the text of the repository
they contradict: the deletion of a charge paid in between (`fee_race`), credit
restored twice (`fee_reopen_twice`), a deleted receipt that is still referred to
(`tx_receipt_lost`), elections with several choices (`poll_election`) and the six
migrations `data-source.ts` does not list although it says every file must be
(`schema_unregistered`): 1751430000000-communication-soft-delete,
1751440000000-communication-pdf-channel,
1751530000000-condominium-fee-slip-delivery-logs,
1751600000000-planning-poll-minutes-body,
1751700000000-planning-poll-final-resolution and
1751800000000-planning-poll-archived-at.

### Observations

Behaviour seen while modelling which no text of the repository promises otherwise,
or which a property excludes by name:

* Schema. Three reversals are refused by MariaDB because they drop an index before
  the foreign key that needs it (FinancialTransactionSupplier1751450000000,
  TransactionBankAccount1751490000000, UnitFeeCreditFinancialTransaction1751850000000).
  The MySQL branch of 1751820000000-condominium-maintenances creates its tables
  without the foreign keys the entities declare. Some reversals do not undo:
  `NotUndone`.
* People. A save of a unit whose owner was loaded ignores a changed owner column; a
  save with stale responsible links fails or detaches them. An invitation to a unit
  whose acceptance stopped after the account was created cannot be accepted any more.
* Governance. An election that is cut short leaves the condominium without a syndic;
  an administrator named twice makes it fail halfway. Two overlapping assignments
  leave two syndics. A final PDF uploaded again after the publication is read before
  it is published itself. Publishing checks neither that the poll is closed nor that
  the elected are eligible.
* Communications. A refused resend leaves a sent communication without recipients; a
  stale save of a recipient wipes the time it was read; the SMS of some units arrive although the delivery failed; an update that overlaps a
  sending turns it back into a draft.
* Works. An update of a transaction that is linked to a work leaves it there whatever work
  it names, since findOne loads the work and only `workId` is assigned; bulkAssignWork moves
  it. Links of a paid transaction may change. Files of removed entries stay in the storage; overlapping requests give two
  works one position; a failed upload leaves an empty note.
* Funds. The conversion of a legacy expense always fails on its stale shares, so that
  its month never closes; one that was settled or cancelled by hand is passed over, and its
  month closes with it. An income that was reopened and cancelled is turned paid by the next
  closing. A fund whose rule leads to no unit stops the closing for all funds after it. A call cut short between income and accrual leaves a second
  income. Regenerating does not renew accruals that are paid, and all are created paid.
* Fees. The share of a removed unit falls on the smallest class of those who share the
  expense, in full up to 10 000 rounds of a cent, and on the others only beyond that. A
  unit an expense excludes pays for it all the same when another unit of its class
  shares it (equalizeAmountPerGrouping). Editing a paid expense, though only its
  attachments may change, splits it again among the units there are now. Two charges
  settled with one receipt key lose it when one of them replaces it.
* Codes. Two verifications that overlap both succeed with one code.
* Plans. A patch or deletion that overlaps a change of the default plan leaves two
  default plans or none. The price of a plan with bands is that of the first band as
  it was sent. setDefaultPlan accepts an inactive plan.
* Tickets. A reply saves the ticket as it was loaded and can reopen one closed
  meanwhile; a failed mail is returned as an error although the reply is stored.

### Bounds

* `MaxReopens` limits the reopenings of a charge or a transaction (1 in the
  serial runs, 2 to show the double restore). It guards `ReopenRead`.
* `MaxCredit` limits what a unit pays in, its balance when a charge is reopened
  and what was ever applied to a charge when it is settled. Without the last two
  the double restore and cycles of settling and reopening would let the sums
  grow for ever. 4 is more than the two charges of 2 can consume, so full,
  partial and no cover by credit all occur. `MaxGiven` does the same for the
  credit expenses give.
* `ReceiptsOfFirstMonth` cuts off states in which the charge of the second
  competence has a receipt, so that no key is used by two charges.
* `Ids` are row identifiers; an identifier is free again once no row and no
  entity in memory has it. Enough of them are given for every key and one more
  for a row that is deleted while an entity of it is still held.
* `Txs`, `Forms` and `Charges` are identifiers that are given out once; when they
  run out nothing more can be created, which is why these runs do not check for
  deadlock. In `SaasBilling` a creation that finds none ends
  (`OutOfIdentifiers`).
* `MaxFaults` counts crashes, errors and lost or repeated webhooks (None: no
  bound). It must be finite for liveness: a gateway that always fails never
  converges. `MaxMonth` and `MaxDay` end the calendar after the first charge is
  generated, due and past its days of grace. `saas_safe` stays on the first day,
  where the cycle creates charges and nothing is suspended yet.
* `Admins`, `Hooks` and `Crons` say which workers do what; a run gives each of
  its two workers the handlers whose races it is about.
* Two competences are the least for which first-in-first-out means something, two
  workers the least for a race; more only repeats them, since handlers interact
  pairwise through one row.
* In `components` each part bounds its requests (`MaxRequests`, `MaxCalls`) and its
  interruptions (`MaxStops`, `MaxCrashes`, `MaxFaults`: one). Requests of a part
  are two to four, the length of the shortest sequences its properties tell apart
  (replace and accept an invitation; send, change and send again; close, remove and
  regenerate; create, change the default and delete). Codes, plans and tickets have
  two slots, so that requests overlap; people, governance, works and funds have one,
  since their properties are about requests one at a time. When the requests are
  used up the part stops, hence no check for deadlock. Works, groupings and expenses
  are interchangeable (`Symmetry`), which is sound for the safety properties of this run.
* `FeeShares` has three units in two groupings whose names may be equal, differ or be
  blank, so that classes of one, two and three units occur; two expenses of two cents,
  the least that does not divide by three and is levelled twice, and three changes.
  The rules of the instance are all units (works) and all but one; a list of units or
  groupings differs only in which units it selects. `MaxMoves` is 1, so that both
  the rounds and what is left after them occur.
* `SchemaUpgrade` is not bounded in its data: it has every migration and every entity
  of the repository. One crash and one reversal are enough for a command to resume
  after the other.

### Fairness

Only `SaasBilling` states fairness. A handler that was started goes on (weak
fairness of its steps, faults apart). Both crons keep firing, every two hours and
every day; they are strongly fair because a cron does not wait for a free worker,
which is an artefact of the bound on workers. Both are off unless
`ASAAS_PENDING_SYNC_CRON_ENABLED` and `SAAS_BILLING_DAILY_CRON_ENABLED` are set:
the liveness properties are about a deployment that sets them, and fail for one
that does not. Nothing is assumed of the gateway, of webhooks or of users; in
particular webhooks need not be delivered.

No liveness is claimed for the other components: nothing in the code retries a
request or obliges anybody to pay, vote, accept or read, so no fairness is assumed.

## Proofs

The theorems hold for all constants that satisfy the `ConstantsAssumption` of their
module and any number of workers. `OneAtATime` says that any two workers are the same,
`MaxReopens <= 1` that no charge or transaction is reopened twice; the violation runs and
the paragraph after the table of runs show what happens without them. Neither restricts
failures: a request may stop at any await in every theorem.

`Sums_proofs`: a sum over a finite set does not depend on the order of its elements, can be
split at any of them (`SumRemove`), and is monotone and additive. The library's induction
theorems take an operator, which the provers cannot instantiate, so induction is done in the
form of sets: a set of subsets that has the empty one and is closed under adding an element
has the whole (`SetInduction`), by the well-foundedness of the subset relation; the same for
numbers (`NumberInduction`).

`FeeCharges_proofs`:

* `TypeCorrect`: `Spec => []TypeOK`. `TypeOK` is not inductive: a commit step
  needs a key, and a `save` needs the entity and the row it is compared with to
  be rows. The invariant `TInv` adds `WellFormed` (what each program counter
  implies for the request record). There is one lemma for each group of actions.
* `CreditGoesWithPayment`: `Spec => CreditConsumedOnlyWithPayment`. It needs to
  know that credit in a request comes from an entity that was read open and that
  the row it is compared with is a row with the same identifier, or the charge
  is open in that snapshot (`CreditOnlyForOpen`, `OthersKeepApplied`); then the
  commit writes status `paid` whatever other requests did in between.
* `SerialLedgerExact`, `SerialNoOverspend`, `SerialPaid`, `SerialFreePayment`: the
  properties `LedgerExact`, `NoOverspend`, `PaidUntilReopened` and
  `FreePaymentIsCovered`, for requests one at a time (any two workers are the same) and
  no charge reopened twice; advance payments arrive and requests fail at any moment.
  Both hypotheses are needed: the run `fee_race` shows the first, `fee_reopen_twice`
  the second. The invariant `EInv` says that the credit a charge holds is that of a
  paid charge, or none (`Exact`), and that what a request read still holds (`Fresh`).
  Advance payments change `balance` only upwards, so a credit computed before one is
  still covered after it (`FreshAfterAdvance`). Each step is one of six changes of
  charges and ledger, or none (`Change`: a charge is reworded, billed, paid, reopened,
  charges are withdrawn, a deposit arrives), and the theorems are proved of the changes.
* `SerialLedger`: `ImplementsLedger` with the same hypotheses. Each change is a step of
  `FeeLedger` or invisible in it.
* `SerialCreditConserved`: `CreditConserved`, for any number of competences. The sum over
  the competences of what their charges hold is taken apart at the charge a step is about;
  `Exact` says what that one held before and holds after it.
* `SerialFifo`: `FifoRespected`, for requests one at a time and any number of reopenings. A
  settlement computes what the older open charges are due from the snapshot it commits to,
  and the sums over the months before it agree.
* `SerialReceipts`: `ReceiptOnFile`, in every behaviour in which a file is never the receipt
  of two paid charges (`OneUse`). The code does not see to that by itself: the key is an input
  of the settlement, and a replacement deletes the old file without asking who else names it.
  The invariant says that a key a request is about to write is a stored file and a key it is
  about to delete belongs to no charge any more.

`TransactionSettlement_proofs`:

* `TypeCorrect`: `Spec => []TypeOK`, by the same kind of invariant; `SavedType`
  says that merging a stale entity into a newer row gives a row.
* `CreditFollowsStatus`: `Spec => CreditOnlyWithStatus`. `WellFormed` remembers
  that a settlement saves an entity it read pending in its snapshot, compared
  with that very row, so that the status is among the columns the save writes
  (`StatusWritten`); the same for a reopening and a paid one.
* `SerialCredit`, `SerialStatus` and `SerialRemoval`: `CreditExact`, `StatusMoves` and
  `PaidNotRemoved` for requests one at a time, that may fail between any two steps,
  and no transaction reopened twice: `CreditExact` fails without them, since stale
  saves are possible and a second reopening takes the first credit back again (see
  the runs). The invariant `EInv` says that the
  ledger holds nothing on balance for a transaction, or the amount of a paid one, all
  for one unit (`Booked`), and that what a request read of its transaction still holds
  (`Holds`): its entity and the row it is compared with are the row of the table, so
  that `save` writes exactly the entity (`SavesEntity`).
* `SerialBook`: `ImplementsBook` with the same hypotheses. The payer the book shows of
  an expense is the unit for which the rows of the ledger still hold an amount; the
  lemmas say which step of `ExpenseBook` the last step of each request is (`SettlePays`,
  `CancelAnnuls`, `ReopenUnpays`, ...), and that every other step, failures included,
  leaves the book alone (`OthersInBook`).
* `SerialBalance`: `BalanceIsNet` for finitely many transactions, with the same hypotheses:
  the sum over all transactions is taken apart at the one that is settled, reopened or
  removed; of the last `Booked` says that it holds nothing.
* `TimelineTyped`, `LinksShown`, `QueueOrdered`: `TimelineTypeOK`, `LinkedIsShown` and
  `QueueIsOrder` of `WorkTimelines`, for any works, maintenances, transactions, budgets and
  files, either engine, and requests that do not overlap (`OneForm`) but may stop between any
  two statements. What the request still has to do is part of the state, so the invariant is about such
  programs (`LinkInv`): one only writes entries, budgets and files (`WriteProgram`), writes the queue
  in one statement, with a place nobody has or with all active works (`QueueProgram`), or
  saves and synchronises transactions (`LinkProgram`). In the last kind a transaction is saved at
  most once and every side the save changes is synchronised after it (`Commits`), with the
  row that was saved (`Syncs`); what a bulk assignment has still to save differs from the
  table on the assigned side only (`Assigns`). Then a side of a transaction is shown as the table
  says, or its synchronisation is still due (`Tracked`), and at rest nothing is due. The
  lemmas on splicing say that replacing the first statement of a program by the ones it turns
  into leaves a program of its kind.
* `EntriesKept`: `TimelineInOrder`, with the same hypotheses; it speaks of states in which no
  request was cut short. A request that creates, changes or deletes an entry has one of
  eighteen programs left (`Planned`), and for each the invariant (`EntryInv`) says what its
  remaining writes still repair: the file that was stored before its row, or deleted before it,
  the budget that was deleted before its entry, the entry whose text is still the one before.
  All else is in order (`InOrder`), so with nothing left to do everything is.

`PollVoting_proofs`:

* `TypeCorrect`: `Spec => []TypeOK`, for any number of concurrent requests. The
  constants must give every question an option, as normalizeQuestionInputs demands
  of a form.
* `VoteExcludesAbstention`: `VoteOrAbstain` for requests one at a time, stated as the
  hypothesis that any two workers are the same. The invariant says what a request
  that is about to insert has deleted before (`Cleared`).
* `DecisionComplete`: `DecidedIsComplete`, with the same hypothesis and a second one,
  that no update sets the status "decided" by hand. The invariant says that decided
  options are options of their questions, that what a request read of the poll still
  holds, and that only a request that found the questions complete saves the poll as
  decided (`OwnOptions`, `Kept`).
* `OneVotePerQuestion`: `SingleChoice` for requests one at a time and finitely many
  options. The invariant says that a ballot past its check has at most one
  option of such a question (`OneEach`), that its options belong to questions it read,
  and that it has deleted the votes of its unit when it inserts (`Counted`).
* `ResultStays`: `ResultIsFinal` for requests one at a time, whatever status updates write.
  A request that is about to write votes, abstentions or decisions found the poll open, and
  nobody has changed it since.
* `SerialBallotBox`: `ImplementsBallotBox` for requests one at a time, finitely many options
  and updates that leave the status alone (`Overrides = {}`; with one, a poll that was final
  can be opened again, which no ballot box does). From its delete on a ballot counts with
  what it is about to insert; the lemmas name the step of `BallotBox` each statement is, a
  failure in between being `Lose`.

`SaasBilling_proofs`, all for any number of handlers, charges, months and faults:

* `TypeCorrect`: `Spec => []TypeOK`.
* `StatusIsReported`: `Reported`. A charge in the table, the entity a handler holds and
  the webhooks on their way carry only what was said of that payment (`Told`,
  `RequestTold`, `SaidByGateway`), and a charge whose payment is being asked for is
  pending and in the hands of one handler (`PayingAlone`).
* `MonthPaidOnce`: `OnePaymentPerMonth`, from the hypothesis `~AnswersLost`. In the
  invariant a payment that is not refunded still has its charge and the charge its
  month (`ChargeMonth`), a month has one charge (`UniqueMonths`, from the unique key),
  and the copies handlers hold have the month of the payment, those about to ask for
  one that of a charge still in the table (`PayingMonth`, `RequestMonth`: only a charge
  without a live payment is removed). With answers lost `ChargeMonth` fails.

`Messages_proofs`, for any number of requests that overlap at every await unless a line says
otherwise. The codes need no hypothesis but that the bound `MaxCodes` is a number. For the
communications `MessageParameters` says that an account is linked to units, that an update asks
for units and channels that exist, and that the absent value is no row; for the people
`ResidentParameters` says that the bounds on rows are numbers:

* `ReplacedCodesDie` and `SpentCodesDie`: `ReplacedIsDead` and `SpentIsDead`, two of the
  three parts of `CodesInOrder`. In the invariant the newest challenge of an address is
  the newest code issued to it (`NewestListed`), a verification holds a code of its own
  address (`Holding`), a code exchanged for a token is no challenge (`Spent`), and while
  no two requests overlap the code a verification holds is unused (`Alone`).
* `SentCodesWork`: `SentCodeWorks`, the third. The code an address was last told of is in
  its table unless one of the excuses holds, or is about to be stored (`Working`); while a
  request is alone the code it delivers, withdraws or exchanges is the latest of its address
  and the challenges it drops have expired (`Ready`); codes expire in their order (`Older`).
* `CodesTyped`: `CodeTypeOK`, with `CodeBounds` for the bounds on calls. The tokens got with one
  code and the calls under way are together no more than the calls made (`TokensPaid`), and a code
  that is expired, delivered or about to be is one that was issued (`CodesKnown`).
* `MessagesTyped`: `MessageTypeOK`. What a request carries is of the type its next statement
  needs (`Carries`): the rows it made are those of the accounts it addressed, and a row a
  reader found is written back whole.
* `LinksOpenForGood`: `LinksLast`, from the hypothesis `OneManager` that the management makes
  one request at a time; readers overlap with it and with each other. Links are dropped only
  for a draft, whose links do not count yet, and no link of a sending is handed over before it
  is stored (`Linking`), so those of the sending that ends are all there.
* `SendingsSettle`: `SentIsSettled`, from `OneManager`. The rows in memory skip the channels
  that do not reach and count as sent only what was handed over (`RowsOf`); the rows in the
  database, which nobody reads while it is a draft, are this sending's, with the outcome for
  every recipient that was dealt with (`Outgoing`).
* `PeopleTyped`: `PeopleTypeOK`, however requests overlap. That a row names a person that
  exists depends on what the request that writes it holds: one that has still to create its
  person names the next row, one that is about to link names a row that is there (`Holds`),
  and the writes a request has left are one of the lists of its operation (`Todos`), so that
  a list only ever goes on to its tail (`TodosGoOn`). Rows are never taken away (`Grows`).
* `ResponsibleAnswers`, `OneInvitationEach`, `AccountKeptForGood`, `ConsumptionsLink`:
  `FinancialIsResponsible`, `OneOpenInvite`, `AccountKept` and `ConsumedIsLinked`, the four
  parts of `ResidentsInOrder`, from the hypothesis `OneRequest` that there is one slot. None
  is inductive alone, because a save writes what a request loaded: the invariant
  (`PeopleSerial`) says that the account of the person that was loaded is still that of the
  row or the row has none (`Current`); that an acceptance that got past the save of the
  person, of the unit or of the link left the account, the owner or the link of its invitation
  there (`Accepts`); that an invitation about to be sent has no open rival (`Replacing`); and
  that a responsible without link is about to be removed by the request that took the link
  away (`Forgetting`). Requests may stop before any write in all four; only
  `ResponsibleAnswers` speaks of states without a stopped request.

`Components_proofs`, for any number of requests that overlap at every await and fail, unless
a line below says otherwise. `TicketParameters`, `PlanParameters`, `GovernanceParameters` and
`AccrualParameters` say that the bounds are numbers, that patches, bands and funds have the
columns of their tables, that the owner has an account, and that the absent value is no row.

* `TicketsTyped`: `TicketTypeOK`, with `TicketBounds`, that the bounds on calls and failures are
  numbers.
* `TicketMessagesComplete`, `TicketMailsShowReply`, `ClosedTicketsQuiet`: the parts
  `MessagesComplete`, `MailShowsReply` and `ClosedIsQuiet` of `TicketsInOrder`. The invariant
  says what a request has written so far (`Request`), that messages are of requests that began
  (`Posted`), and that a mail shows what was there when it was sent (`Mailed`).
* `AnsweredTicketsTaken`: `AnsweredIsTaken`, which speaks of requests that do not overlap.
  Then a request is alone, what it read of the ticket still holds (`Serial`), and the last
  reply of the platform has been taken up or its own request is about to (`Awaited`).
* `PlansTyped`: `PlanTypeOK`, with `PlanBounds` in the same way. An identifier is given once and
  within the bound.
* `PlansStay`: `PlansKept`. Only `Delete` removes a plan, and the database then restricts it;
  every other write names a plan that is there when it is made.
* `OneDefaultPlan`, `CondominiumsBilled`: `OneDefault` and `EveryCondominiumBilled`, which
  speak of requests that do not overlap. A request that is alone holds what the plans say
  (`Steady`), so a save leaves the column `default` as it is and a deletion takes a plan that
  is not the default.
* `UnitsPriced`: `EveryUnitPriced`, for any lists of bands. Bands of distinct minima have
  distinct ranks, as many as there are bands, so sorting is a permutation (`SortedBands`);
  bands that start at 1, follow one another and end open hold every number once
  (`OneBandFits`); and no merge of stale saves leaves bands that were never validated
  (`PlanSaved`).
* `GovernanceTyped`, `OwnersStay`: `GovernanceTypeOK` and `OwnerRowStays`. No request names the
  role of owner, and each but the bootstrap goes on only after it found the owner's row
  (`Bound`); nothing takes that row away, so no step needs a request to be alone.
* `OfficesHeldByOne`, `RolesLogged`: `OneHolder` and `RolesAreLogged`, from the hypothesis
  `OneSlot` that there is one slot. The invariant says, for each statement of an assignment
  and of an election, which offices are vacant by now and which rows are still to be written
  (`Relies`, `Vacated`, `Filled`), and that a row of a role has its entry in the log, or was
  written by the request that is about to make the entry (`Accounted`, `Telling`).
* `ElectedInOffice`, `MinutesPublished`: `ElectionInForce` and `MinutesShown`, from `OneSlot`
  and the same invariant: at the save of the minutes an election has filled the offices
  (`InOffice`), and the document is as it was loaded (`Kept`).
* `AccrualsTypedAlways`: `AccrualTypeOK`. That an accrual refers to a transaction of its fund
  and month is no matter of one row: a transaction that was removed is inserted again by a
  request that loaded it before, so requests that hold one identifier have to be at one fund
  and month also while the row is gone (`Agreeing`), and identifiers are not given twice.
* `AccruedAtMostOnce`, `ClosedMonthsAccrued`: `AccruedOnce` and `ClosedIsAccrued`, which speak
  of calls that do not overlap. Then at most one request is under way (`Active`), and what it
  read is still so (`Progress`). A transaction has its accrual or is the one the request is
  about to refer to, of a fund and month without accrual (`Marking`); the funds of the month
  that are no longer `left` are settled, and what a request does to one fund leaves the others
  settled (`OthersSettled`, `SettledStays`); a month that is closed has no expense of an
  earlier release that is waiting for its conversion (one that was settled or cancelled by
  hand waits for none), so no request un-settles it.

The last part of `Components_proofs` is about `FeeShares`; the hypothesis `FeeParameters` says
that units and expenses are finitely many, units are numbered in the order of their
identifiers, amounts are natural numbers, rules are rules, the bounds are any numbers, and no
grouping has one of the two names that stand for units not yet added or removed. Beyond that
units, groupings, expenses, rules and amounts are arbitrary.

* `SharesTyped`: `ShareTypeOK`.
* `RowsAddUp`: `SharesAddUp`. distributePositiveCents gives every unit the quotient and the
  first ones a cent more, as many as the remainder says; a removed unit takes away a row that
  is not negative.
* `FeesCoverExpenses`: `ExpensesCovered`. For each expense levelling within a class raises
  shares only, what the rows lack is added to the cent, as long as the rounds last by the
  smallest class, then by everybody; the sums over units and over expenses are exchanged.
* `NobodyPaysMore`: `NobodyOvercharged`. When no row is missing a share is a quotient or one
  more, so the largest of a class is at most the part rounded up, and the fee, the largest sum
  of a class, at most the sum of the parts.

`Parts_proofs` proves every property of `Parts` from these theorems: `TypesHold` (`TypeOK`),
`ResidentsOrderly`, `RolesOrderly`, `ElectionsInForce`, `TimelinesOrderly`, `MessagesOrderly`,
`CostsAreShared`, `CodesOrderly`, `PlansOrderly` and `TicketsOrderly`, each named after the
property it states. Three kinds of lemmas carry them.

* `PeopleRun`, `GovernanceRun`, ...: in a behaviour of `SpecParts` a part runs from the start and
  for good, as a behaviour of its own specification, or it never does.
* `TypesGiven`, `ResidentsGiven`, ...: so what every behaviour of the part satisfies the whole
  satisfies.
* `SamePeople`, `SameInPeople`, ...: the module with the theorems is instantiated with the
  parameters and variables of the part (`InPeople`, `InTimelines`, ...), and None for those of the
  components it is about besides; the component it reaches this way and the one `Parts` runs are
  two instances of one module with the same arguments, so that their specifications and properties
  are equivalent. They are long because every definition has to be expanded on both sides.

The hypotheses are those of the theorems used, with the parameters of the part:
`PeopleParameters`, `GovernanceParameters`, ... (bounds are numbers, rows are rows, None is
none; `TimelinesParameters` also says that requests on works and maintenances do not overlap)
and `PeopleTakeTurns`, `GovernanceTakeTurns`, `MessagesTakeTurns` (one request at a time, for
messages one of the management). The records of `MCComponents` satisfy all of them. Its
specification reaches a RECURSIVE operator by way of `SchemaUpgrade`, which the prover does
not take; hence `Parts`, whose variables a behaviour of `SpecAll` moves as `SpecParts` allows:
a step of the schema leaves them alone.

What stays with TLC: liveness, which the prover does not reach (`PaidIsConfirmed`,
`DebtorSuspended`); the schema upgrade (`UpgradesComplete`, `SchemaFitsEntities`), whose
statements are data of the repository and not a parameter, and are carried out by a
recursive operator; and what overlapping requests leave of the people and their
invitations. The refinements are proved for one request at a time, which is also
where TLC finds them to hold.

## Plan

Done: fees and credit ledger, transactions, polls, platform billing; the schema and
its migrations; people and invitations; governance and documents; timelines;
communications; accruals; the shares of expenses and the fees; codes; plans; support tickets; the theorems above.

Left, in this order:

1. Vouchers and plan periods; transfers between bank accounts; completePasswordReset;
   the CPF as a second key of people.
2. Pure algorithms against reference definitions: dates of recurrences and
   subscriptions; transactions of funds in `FeeShares`.

## Not modelled

* Statements, the transparency report, fee slips and other PDFs:
  pure functions of the data of the other components. They are a large part of the
  source (monthly-transparency-pdf.service.ts alone has 4 010 lines), have no state and
  nothing that interleaves.
* Funds, bank accounts, suppliers, the library, logos: rows that are created,
  changed and deleted one at a time without a protocol. Their tables are in
  `EntityTables`.
* FinancialRecurrenceCronService is provided by no module of the application and never
  runs, ensureMemberParticipant is never called.
* Mail, SMS and WhatsApp gateways and the postal code lookup are external; where their
  answers matter (codes, communications, tickets) they may fail at any call.
* Transfers, voting from minutes read by AI (it calls castVote), meeting notes and
  attachments of polls, archiving, vouchers, requests to change a plan, passwords.
* `synchronize` of TypeORM: it is on only with `DB_SYNCHRONIZE=true` (app.module.ts), and
  then the schema is that of the entities by definition.
