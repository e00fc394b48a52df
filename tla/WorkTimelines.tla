----------------------------- MODULE WorkTimelines -----------------------------
(***************************************************************************)
(* Works and maintenances, their timelines, and the transactions that are  *)
(* linked to them (CondominiumWorksService, CondominiumMaintenancesService, *)
(* the two TransactionLinkServices and the handlers of                     *)
(* FinancialTransactionsService that call them).                           *)
(*                                                                         *)
(* A request is the sequence of statements it still has to run; it can be  *)
(* cut short before any of them.  What it reads when it starts is read at  *)
(* once.  A save writes the row as it was loaded.  Left out are the audit  *)
(* entries of kind "edit", which nothing reads, dates, suppliers and texts. *)
(*                                                                         *)
(* On MySQL the tables of the maintenances are made without the foreign    *)
(* keys their entities declare (migration 1751820000000).                  *)
(***************************************************************************)
EXTENDS Integers, Sequences, FiniteSets

CONSTANTS
    Engines,              \* "postgres", "mariadb"
    Works, Maintenances, Txs,
    Budgets,              \* the budgets that are entered
    MaxEntries, MaxFiles, \* timeline entries and files, numbered
    MaxUpload,            \* files in one form
    None,                 \* nothing, a row that does not exist
    Slots,                \* how many requests may overlap
    MaxRequests,          \* requests ever made
    MaxStops              \* requests cut short

VARIABLES
    engine,
    works,         \* work -> [active, order] or None
    maintenances,  \* the maintenances that exist
    txs,           \* transaction -> [status, work, maintenance] or None
    shown,         \* side -> transaction -> its entry in a timeline of that side, or None
    entries,       \* the other entries: notes, legal records and budgets
    budgets,       \* entry -> the budget it shows, or None
    rows,          \* file -> the entry whose attachment it is, or None
    stored,        \* the files of the document storage
    tasks,         \* slot -> statements still to run
    asked, stops,  \* requests made, and cut short
    interrupted    \* links a request was cut short on since they were last synchronised

timelineVars == <<engine, works, maintenances, txs, shown, entries, budgets, rows, stored,
                  tasks, asked, stops, interrupted>>
tables == <<works, maintenances, txs, shown, entries, budgets, rows, stored>>
control == <<engine, asked, stops, interrupted>>

Entries == 1..MaxEntries
Files == 1..MaxFiles
Sides == {"work", "maintenance"}
Status == {"pending", "paid", "cancelled"}

Work == [active : BOOLEAN, order : Nat]
Transaction == [status : Status, work : Works \cup {None}, maintenance : Maintenances \cup {None}]
\* What an entry says: a text, the summary of its budget, or nothing.
Entry == [of : Works \cup Maintenances, kind : {"note", "legal", "budget"},
          says : {"nothing", "text", "waiting", "amount"}]
Budget == [status : {"awaiting_budget", "received", "under_review", "approved"},
           amount : BOOLEAN]   \* amountCents > 0

Exists(r) == r \in maintenances \/ (r \in Works /\ works[r] # None)

\* The database enforces what the entities declare onDelete.
Keyed(side) == side = "work" \/ engine = "postgres"

(***************************************************************************)
(* Requests and statements.                                                *)
(***************************************************************************)

Do(what, id, row) == [do |-> what, id |-> id, row |-> row, side |-> None, files |-> {}]
DoFiles(what, id, files) == [Do(what, id, None) EXCEPT !.files = files]

Idle(s) == tasks[s] = << >>
Now(s) == Head(tasks[s])
Doing(s, what) == ~Idle(s) /\ Now(s).do = what

Asks(s, program) ==
    /\ Idle(s) /\ asked < MaxRequests
    /\ asked' = asked + 1
    /\ tasks' = [tasks EXCEPT ![s] = program]
    /\ UNCHANGED <<tables, engine, stops, interrupted>>

Goes(s, first) == tasks' = [tasks EXCEPT ![s] = first \o Tail(@)] /\ UNCHANGED control
Done(s) == Goes(s, << >>)

\* The links of the transactions in what a request did not get to.
CutLinks(s) == Sides \X {t \in Txs : \E i \in DOMAIN tasks[s] : tasks[s][i].id = t}
Ends(s) ==
    /\ tasks' = [tasks EXCEPT ![s] = << >>]
    /\ interrupted' = interrupted \cup CutLinks(s)
    /\ UNCHANGED <<engine, asked>>
Refused(s) == Ends(s) /\ UNCHANGED <<tables, stops>>

Planned == UNION {{tasks[s][i].id : i \in DOMAIN tasks[s]} : s \in Slots}
PlannedFiles == UNION {UNION {tasks[s][i].files : i \in DOMAIN tasks[s]} : s \in Slots}
NewEntries == {e \in Entries : /\ entries[e] = None /\ budgets[e] = None /\ e \notin Planned
                               /\ \A f \in Files : rows[f] # e}
NewFiles == Files \ (stored \cup PlannedFiles \cup {f \in Files : rows[f] # None})
\* randomUUID: the least of those not used.
Least(set) == CHOOSE x \in set : \A y \in set : x <= y
\* What a form may carry: no file, or new ones.
Uploads == {files \in SUBSET NewFiles :
               /\ Cardinality(files) <= MaxUpload
               /\ \A f \in files, g \in NewFiles : g < f => g \in files}

FilesOf(e) == {f \in Files : rows[f] = e}

(***************************************************************************)
(* The queue of works.                                                     *)
(***************************************************************************)

Active == {w \in Works : works[w] # None /\ works[w].active}

\* mutant: as many as there are in the queue
QueueLength == Cardinality(Active)

NextQueueOrder ==
    IF Active = {} THEN 0
    ELSE 1 + CHOOSE n \in {works[w].order : w \in Active} : \A w \in Active : works[w].order <= n

\* A work is created planned or already over; over, it has position 0.
CreateWork(s, w, active) ==
    /\ works[w] = None
    /\ Asks(s, << Do("save_work", w,
                     [active |-> active, order |-> IF active THEN NextQueueOrder ELSE 0]) >>)

UpdateWork(s, w, active) ==
    /\ works[w] # None
    /\ Asks(s, << Do("save_work", w,
                     [active |-> active,
                      order |-> IF active /\ ~works[w].active THEN NextQueueOrder
                                ELSE works[w].order]) >>)

SaveWork(s) ==
    /\ Doing(s, "save_work")
    /\ works' = [works EXCEPT ![Now(s).id] = Now(s).row]
    /\ Done(s)
    /\ UNCHANGED <<maintenances, txs, shown, entries, budgets, rows, stored>>

\* All active works have to be listed, each once.
ReorderQueue(s, queue) ==
    /\ {queue[i] : i \in DOMAIN queue} = Active
    /\ Len(queue) = Cardinality(Active)
    /\ Asks(s, << Do("reorder", None, queue) >>)

SaveQueue(s) ==
    LET queue == Now(s).row IN
    /\ Doing(s, "reorder")
    /\ works' = [w \in Works |->
                    IF works[w] = None \/ \A i \in DOMAIN queue : queue[i] # w THEN works[w]
                    ELSE [works[w] EXCEPT !.order = (CHOOSE i \in DOMAIN queue : queue[i] = w) - 1]]
    /\ Done(s)
    /\ UNCHANGED <<maintenances, txs, shown, entries, budgets, rows, stored>>

\* randomUUID: nothing refers to a record that is new.
Unused(m) ==
    /\ ~Exists(m) /\ \A e \in Entries : entries[e] # None => entries[e].of # m
    /\ \A t \in Txs : /\ txs[t] # None => txs[t].maintenance # m
                      /\ shown["maintenance"][t] # None => shown["maintenance"][t].of # m

CreateMaintenance(s, m) == Unused(m) /\ Asks(s, << Do("save_maintenance", m, None) >>)

SaveMaintenance(s) ==
    /\ Doing(s, "save_maintenance")
    /\ maintenances' = maintenances \cup {Now(s).id}
    /\ Done(s)
    /\ UNCHANGED <<works, txs, shown, entries, budgets, rows, stored>>

\* The files of the entries go first, then the row, and with it what refers to it.
RemoveWork(s, w) ==
    /\ w \in Works /\ Exists(w)
    /\ Asks(s, << DoFiles("unlink", None, UNION {FilesOf(e) : e \in {x \in Entries :
                                                   entries[x] # None /\ entries[x].of = w}}),
                  Do("delete_record", w, None) >>)

RemoveMaintenance(s, m) ==
    /\ m \in maintenances
    /\ Asks(s, << DoFiles("unlink", None, UNION {FilesOf(e) : e \in {x \in Entries :
                                                   entries[x] # None /\ entries[x].of = m}}),
                  Do("delete_record", m, None) >>)

Without(es, f) == [e \in Entries |-> IF e \in es THEN None ELSE f[e]]
RowsWithout(es) == [f \in Files |-> IF rows[f] \in es THEN None ELSE rows[f]]

DeleteRecord(s) ==
    LET r == Now(s).id
        side == IF r \in Works THEN "work" ELSE "maintenance"
        gone == {e \in Entries : entries[e] # None /\ entries[e].of = r} IN
    /\ Doing(s, "delete_record")
    /\ works' = IF r \in Works THEN [works EXCEPT ![r] = None] ELSE works
    /\ maintenances' = maintenances \ {r}
    /\ IF Keyed(side)
       THEN /\ entries' = Without(gone, entries) /\ budgets' = Without(gone, budgets)
            /\ rows' = RowsWithout(gone)
            /\ shown' = [shown EXCEPT ![side] = [t \in Txs |->
                            IF @[t] # None /\ @[t].of = r THEN None ELSE @[t]]]
            /\ txs' = [t \in Txs |-> IF txs[t] # None /\ txs[t][side] = r
                                     THEN [txs[t] EXCEPT ![side] = None] ELSE txs[t]]
       ELSE UNCHANGED <<entries, budgets, rows, shown, txs>>
    /\ Done(s)
    /\ UNCHANGED stored

(***************************************************************************)
(* Entries and their attachments.                                          *)
(***************************************************************************)

Says(text) == IF text THEN "text" ELSE "nothing"
Adds(s, row, files, more) ==
    /\ NewEntries # {}
    /\ LET e == Least(NewEntries) IN
       Asks(s, more \o << Do("insert_entry", e, row), DoFiles("upload", e, files) >>)

AddNote(s, w, text, files) ==
    /\ works[w] # None /\ (text \/ files # {})
    /\ Adds(s, [of |-> w, kind |-> "note", says |-> Says(text)], files, << >>)

AddMaintenanceNote(s, m, text, files) ==
    /\ m \in maintenances /\ (text \/ files # {})
    /\ Adds(s, [of |-> m, kind |-> "note", says |-> Says(text)], files, << >>)

AddLegal(s, w, files) ==
    /\ works[w] # None /\ files # {}
    /\ Adds(s, [of |-> w, kind |-> "legal", says |-> "text"], files, << >>)

\* formatBudgetTimelineSummary
Summary(budget) ==
    IF budget.status = "awaiting_budget" \/ (~budget.amount /\ budget.status # "approved")
    THEN "waiting" ELSE "amount"

AddBudget(s, w, budget, files) ==
    /\ works[w] # None
    /\ (budget.status = "under_review" => budget.amount)
    /\ (budget.status = "awaiting_budget" => files = {})
    /\ NewEntries # {}
    /\ Adds(s, [of |-> w, kind |-> "budget", says |-> Summary(budget)], files,
            << Do("save_budget", Least(NewEntries), budget) >>)

\* The foreign key refuses an entry of a record that was removed.
InsertEntry(s) ==
    LET row == Now(s).row IN
    /\ Doing(s, "insert_entry")
    /\ \/ /\ Exists(row.of) \/ (row.of \in Maintenances /\ ~Keyed("maintenance"))
          /\ entries' = [entries EXCEPT ![Now(s).id] = row]
          /\ Done(s)
          /\ UNCHANGED <<works, maintenances, txs, shown, budgets, rows, stored>>
       \/ /\ ~Exists(row.of) /\ (row.of \in Maintenances => Keyed("maintenance"))
          /\ Refused(s)

\* saveEntryAttachments: one file after the other is stored and its row inserted.
Upload(s) ==
    /\ Doing(s, "upload")
    /\ \E f \in Now(s).files :
        /\ stored' = stored \cup {f}
        /\ Goes(s, << DoFiles("insert_row", Now(s).id, {f}),
                      DoFiles("upload", Now(s).id, Now(s).files \ {f}) >>)
    /\ UNCHANGED <<works, maintenances, txs, shown, entries, budgets, rows>>

InsertRow(s) ==
    /\ Doing(s, "insert_row")
    /\ rows' = [f \in Files |-> IF f \in Now(s).files THEN Now(s).id ELSE rows[f]]
    /\ Done(s)
    /\ UNCHANGED <<works, maintenances, txs, shown, entries, budgets, stored>>

\* Files are deleted one after the other; a failure to delete one is ignored.
Unlink(s) ==
    /\ Doing(s, "unlink")
    /\ \E f \in Now(s).files :
        /\ stored' = stored \ {f}
        /\ Goes(s, << DoFiles("unlink", Now(s).id, Now(s).files \ {f}) >>)
    /\ UNCHANGED <<works, maintenances, txs, shown, entries, budgets, rows>>

Through(s) ==
    /\ \/ (Doing(s, "upload") \/ Doing(s, "unlink")) /\ Now(s).files = {}
       \/ Doing(s, "assign") /\ DOMAIN Now(s).row = {}
    /\ Done(s)
    /\ UNCHANGED tables

OnWork(e) == entries[e] # None /\ entries[e].of \in Works

AddTimelineEntryAttachments(s, e, files) ==
    /\ OnWork(e) /\ files # {}
    /\ Asks(s, << DoFiles("upload", e, files) >>)

\* What may go without leaving a legal record or an empty note without attachment.
Spare(e, f) ==
    \/ FilesOf(e) \ {f} # {}
    \/ entries[e].kind = "budget"
    \/ entries[e].kind = "note" /\ entries[e].says # "nothing"

RemoveTimelineAttachment(s, e, f) ==
    /\ OnWork(e) /\ rows[f] = e /\ Spare(e, f)
    /\ Asks(s, << DoFiles("unlink", e, {f}), DoFiles("delete_row", e, {f}) >>)

DeleteRow(s) ==
    /\ Doing(s, "delete_row")
    /\ rows' = [f \in Files |-> IF f \in Now(s).files THEN None ELSE rows[f]]
    /\ Done(s)
    /\ UNCHANGED <<works, maintenances, txs, shown, entries, budgets, stored>>

\* The new file is stored, the row saved, and only then the old file deleted.
ReplaceTimelineAttachment(s, e, f) ==
    /\ OnWork(e) /\ rows[f] = e /\ NewFiles # {}
    /\ LET g == Least(NewFiles) IN
       Asks(s, << DoFiles("store", e, {g}), [DoFiles("save_row", e, {g}) EXCEPT !.row = f],
                  DoFiles("unlink", e, {f}) >>)

Store(s) ==
    /\ Doing(s, "store")
    /\ stored' = stored \cup Now(s).files
    /\ Done(s)
    /\ UNCHANGED <<works, maintenances, txs, shown, entries, budgets, rows>>

SaveRow(s) ==
    /\ Doing(s, "save_row")
    /\ rows' = [f \in Files |-> IF f \in Now(s).files THEN Now(s).id
                                ELSE IF f = Now(s).row THEN None ELSE rows[f]]
    /\ Done(s)
    /\ UNCHANGED <<works, maintenances, txs, shown, entries, budgets, stored>>

\* A note keeps a text or an attachment; a legal record may lose its title.
UpdateNote(s, e, text) ==
    /\ OnWork(e) /\ entries[e].kind \in {"note", "legal"}
    /\ entries[e].kind = "note" => (text \/ FilesOf(e) # {})
    /\ Asks(s, << Do("save_entry", e, [entries[e] EXCEPT !.says = Says(text)]) >>)

UpdateMaintenanceNote(s, e, text) ==
    /\ entries[e] # None /\ entries[e].of \in maintenances
    /\ text \/ FilesOf(e) # {}
    /\ Asks(s, << Do("save_entry", e, [entries[e] EXCEPT !.says = Says(text)]) >>)

\* A budget whose visit is over needs the amount that was received.
Reviewable(old, new) ==
    (new.status = "under_review" /\ old.status = "awaiting_budget") => new.amount

\* updateBudget; the same fields in updateTimelineEntry
UpdateBudget(s, e, budget) ==
    /\ OnWork(e) /\ budgets[e] # None /\ Reviewable(budgets[e], budget)
    /\ Asks(s, << Do("save_budget", e, budget),
                  Do("save_entry", e, [entries[e] EXCEPT !.says = Summary(budget)]) >>)

SaveBudget(s) ==
    /\ Doing(s, "save_budget")
    /\ budgets' = [budgets EXCEPT ![Now(s).id] = Now(s).row]
    /\ Done(s)
    /\ UNCHANGED <<works, maintenances, txs, shown, entries, rows, stored>>

SaveEntry(s) ==
    /\ Doing(s, "save_entry")
    /\ entries' = [entries EXCEPT ![Now(s).id] = Now(s).row]
    /\ Done(s)
    /\ UNCHANGED <<works, maintenances, txs, shown, budgets, rows, stored>>

\* The files of a removed entry of a work stay in the storage.
RemoveTimelineEntry(s, e) ==
    /\ OnWork(e)
    /\ Asks(s, IF entries[e].kind = "budget"
               THEN << Do("delete_budget", e, None), Do("delete_entry", e, None) >>
               ELSE << Do("delete_entry", e, None) >>)

RemoveMaintenanceEntry(s, e) ==
    /\ entries[e] # None /\ entries[e].of \in maintenances
    /\ Asks(s, << DoFiles("unlink", e, FilesOf(e)), Do("delete_entry", e, None) >>)

\* With a budget goes its entry; with an entry its attachments, where there are keys.
DeleteEntry(s) ==
    LET e == Now(s).id IN
    /\ ~Idle(s) /\ Now(s).do \in {"delete_budget", "delete_entry"}
    /\ entries' = Without({e}, entries)
    /\ budgets' = IF Doing(s, "delete_budget") THEN Without({e}, budgets) ELSE budgets
    /\ rows' = IF entries[e] = None \/ (entries[e].of \in Maintenances /\ ~Keyed("maintenance"))
               THEN rows ELSE RowsWithout({e})
    /\ Done(s)
    /\ UNCHANGED <<works, maintenances, txs, shown, stored>>

(***************************************************************************)
(* Transactions.  Their entries are synchronised after the commit.         *)
(***************************************************************************)

Find(side, t, row) == [Do("find", t, row) EXCEPT !.side = side]
Unlinked == [status |-> "pending", work |-> None, maintenance |-> None]
Linkable(row) == \A side \in Sides : row[side] # None => Exists(row[side])

CreateTransaction(s, t, row) ==
    /\ txs[t] = None /\ \A side \in Sides : shown[side][t] = None
    /\ row.status = "pending" /\ Linkable(row)
    /\ Asks(s, << Do("commit", t, row), Do("load", t, Sides) >>)

\* findOne loads the work and update sets workId: TypeORM writes the work it loaded.  The
\* maintenance is not loaded, so its new id is written.
LoadedWorkKept(old, new) == IF old.work = None THEN new ELSE [new EXCEPT !.work = old.work]

\* The links of a paid transaction may change too; a missing one is kept.
UpdateTransaction(s, t, row) ==
    /\ txs[t] # None /\ txs[t].status # "cancelled" /\ row.status = txs[t].status
    /\ \A side \in Sides : row[side] # txs[t][side] /\ row[side] # None => Exists(row[side])
    /\ Asks(s, << Do("commit", t, LoadedWorkKept(txs[t], row)), Do("load", t, Sides) >>)

\* The transactions are loaded and changed at once ...
BulkAssign(s, side, ts, r) ==
    /\ ts # {} /\ \A t \in ts : txs[t] # None
    /\ r # None => Exists(r)
    /\ Asks(s, << [Do("assign", None, [t \in ts |-> [txs[t] EXCEPT ![side] = r]]) EXCEPT !.side = side] >>)

BulkAssignWork(s, ts, w) == BulkAssign(s, "work", ts, w)
BulkAssignMaintenance(s, ts, m) == BulkAssign(s, "maintenance", ts, m)

\* ... and saved and synchronised one after the other, in the order the database returned.
Assign(s) ==
    LET n == Now(s) IN
    /\ Doing(s, "assign")
    /\ \E t \in DOMAIN n.row :
          Goes(s, << Do("commit", t, n.row[t]), Find(n.side, t, n.row[t]),
                     [n EXCEPT !.row = [x \in DOMAIN n.row \ {t} |-> n.row[x]]] >>)
    /\ UNCHANGED tables

\* settlePayment, cancelPaymentStatus and reopenSettlement
ChangeStatus(s, t, from, to) ==
    /\ txs[t] # None /\ txs[t].status = from
    /\ Asks(s, << Do("commit", t, [txs[t] EXCEPT !.status = to]), Do("load", t, {}) >>)

Settle(s, t) == ChangeStatus(s, t, "pending", "paid")
Cancel(s, t) == ChangeStatus(s, t, "pending", "cancelled")
Reopen(s, t) == ChangeStatus(s, t, "paid", "pending")

Commit(s) ==
    /\ Doing(s, "commit")
    /\ txs' = [txs EXCEPT ![Now(s).id] = Now(s).row]
    /\ Done(s)
    /\ UNCHANGED <<works, maintenances, shown, entries, budgets, rows, stored>>

\* The transaction is read again, and each of its sides synchronised: both after a
\* creation or an update, the linked ones after a change of status.
Load(s) ==
    LET t == Now(s).id
        Syncs(side) == IF side \in Now(s).row \/ txs[t][side] # None
                       THEN << Find(side, t, txs[t]) >> ELSE << >> IN
    /\ Doing(s, "load")
    /\ Goes(s, Syncs("work") \o Syncs("maintenance"))
    /\ UNCHANGED tables

RemoveTransaction(s, t) ==
    /\ txs[t] # None /\ txs[t].status # "paid"
    /\ Asks(s, << Find("work", t, Unlinked), Find("maintenance", t, Unlinked),
                  Do("delete_txs", t, {t}) >>)

\* The series is deleted without removing the links first.
RemoveRecurringSeries(s, ts) ==
    /\ ts # {} /\ \A t \in ts : txs[t] # None /\ txs[t].status # "paid"
    /\ Asks(s, << Do("delete_txs", None, ts) >>)

DeleteTransactions(s) ==
    LET gone == Now(s).row IN
    /\ Doing(s, "delete_txs")
    /\ txs' = [t \in Txs |-> IF t \in gone THEN None ELSE txs[t]]
    /\ shown' = [side \in Sides |-> [t \in Txs |->
                    IF t \in gone /\ Keyed(side) THEN None ELSE shown[side][t]]]
    /\ Done(s)
    /\ UNCHANGED <<works, maintenances, entries, budgets, rows, stored>>

(***************************************************************************)
(* syncAfterSave of WorkTransactionLinkService and of                      *)
(* MaintenanceTransactionLinkService, and removeForTransactionId.          *)
(***************************************************************************)

Synchronised(s) ==
    /\ tasks' = [tasks EXCEPT ![s] = Tail(@)]
    /\ interrupted' = interrupted \ {<<Now(s).side, Now(s).id>>}
    /\ UNCHANGED <<engine, asked, stops>>

\* Finding the entry, and the record the transaction is linked to.
Sync(s, side) ==
    LET link == Now(s).row[side]
        found == shown[side][Now(s).id] IN
    /\ Doing(s, "find") /\ Now(s).side = side
    /\ \/ link = None /\ found = None /\ Synchronised(s)
       \/ link = None /\ found # None /\ Goes(s, << [Now(s) EXCEPT !.do = "hide"] >>)
       \/ /\ link # None /\ Exists(link)
          /\ Goes(s, << [Now(s) EXCEPT !.do = IF found = None THEN "show" ELSE "show_again"] >>)
       \/ link # None /\ ~Exists(link) /\ Ends(s) /\ UNCHANGED stops
    /\ UNCHANGED tables

SyncWork(s) == Sync(s, "work")
SyncMaintenance(s) == Sync(s, "maintenance")

Shown(row, side) == [of |-> row[side], status |-> row.status]

\* The unique key on the transaction refuses a second entry.
Show(s) ==
    LET n == Now(s) IN
    /\ ~Idle(s) /\ n.do \in {"show", "show_again"}
    /\ \/ /\ n.do = "show_again" \/ shown[n.side][n.id] = None
          /\ Exists(n.row[n.side]) \/ ~Keyed(n.side)
          /\ shown' = [shown EXCEPT ![n.side][n.id] = Shown(n.row, n.side)]
          /\ Synchronised(s)
          /\ UNCHANGED <<works, maintenances, txs, entries, budgets, rows, stored>>
       \/ /\ \/ n.do = "show" /\ shown[n.side][n.id] # None
             \/ ~Exists(n.row[n.side]) /\ Keyed(n.side)
          /\ Refused(s)

Hide(s) ==
    /\ Doing(s, "hide")
    /\ shown' = [shown EXCEPT ![Now(s).side][Now(s).id] = None]
    /\ Synchronised(s)
    /\ UNCHANGED <<works, maintenances, txs, entries, budgets, rows, stored>>

(***************************************************************************)
(* The whole.  It starts with works in the queue, one of which has a legal *)
(* record and the pending transactions, and with open maintenances.        *)
(***************************************************************************)

\* A crash, or a statement or a transfer of a file that fails.
Stop(s) ==
    /\ ~Idle(s) /\ stops < MaxStops
    /\ stops' = stops + 1
    /\ Ends(s)
    /\ UNCHANGED tables

Init ==
    /\ engine \in Engines
    /\ works \in {q \in [Works -> [active : {TRUE}, order : 0..(Cardinality(Works) - 1)]] :
                    \A v, w \in Works : v # w => q[v].order # q[w].order}
    /\ maintenances = Maintenances
    /\ \E w \in Works : LET row == [Unlinked EXCEPT !.work = w] IN
        /\ txs = [t \in Txs |-> row]
        /\ shown = [side \in Sides |-> [t \in Txs |->
                        IF side = "work" THEN Shown(row, side) ELSE None]]
        /\ entries = [e \in Entries |-> IF e = 1 THEN [of |-> w, kind |-> "legal", says |-> "text"]
                                         ELSE None]
    /\ budgets = [e \in Entries |-> None]
    /\ rows = [f \in Files |-> IF f = 1 THEN 1 ELSE None] /\ stored = {1}
    /\ tasks = [s \in Slots |-> << >>]
    /\ asked = 0 /\ stops = 0 /\ interrupted = {}

RecordRequests(s) ==
    \/ \E w \in Works, active \in BOOLEAN : CreateWork(s, w, active) \/ UpdateWork(s, w, active)
    \/ \E queue \in [1..Cardinality(Active) -> Works] : ReorderQueue(s, queue)
    \/ \E m \in Maintenances : CreateMaintenance(s, m) \/ RemoveMaintenance(s, m)
    \/ \E w \in Works : RemoveWork(s, w)

EntryRequests(s) ==
    \/ \E text \in BOOLEAN, files \in Uploads :
        \/ \E w \in Works : AddNote(s, w, text, files)
        \/ \E m \in Maintenances : AddMaintenanceNote(s, m, text, files)
    \/ \E w \in Works, files \in Uploads :
        \/ AddLegal(s, w, files)
        \/ \E budget \in Budgets : AddBudget(s, w, budget, files)
    \/ \E e \in Entries :
        \/ \E files \in Uploads : AddTimelineEntryAttachments(s, e, files)
        \/ \E f \in Files : RemoveTimelineAttachment(s, e, f) \/ ReplaceTimelineAttachment(s, e, f)
        \/ \E text \in BOOLEAN : UpdateNote(s, e, text) \/ UpdateMaintenanceNote(s, e, text)
        \/ \E budget \in Budgets : UpdateBudget(s, e, budget)
        \/ RemoveTimelineEntry(s, e) \/ RemoveMaintenanceEntry(s, e)

TransactionRequests(s) ==
    \/ \E t \in Txs :
        \/ \E row \in Transaction : CreateTransaction(s, t, row) \/ UpdateTransaction(s, t, row)
        \/ Settle(s, t) \/ Cancel(s, t) \/ Reopen(s, t) \/ RemoveTransaction(s, t)
    \/ \E ts \in SUBSET Txs :
        \/ RemoveRecurringSeries(s, ts)
        \/ \E w \in Works \cup {None} : BulkAssignWork(s, ts, w)
        \/ \E m \in Maintenances \cup {None} : BulkAssignMaintenance(s, ts, m)

Steps(s) ==
    \/ SaveWork(s) \/ SaveQueue(s) \/ SaveMaintenance(s) \/ DeleteRecord(s)
    \/ InsertEntry(s) \/ Upload(s) \/ InsertRow(s) \/ Unlink(s) \/ Through(s)
    \/ DeleteRow(s) \/ Store(s) \/ SaveRow(s) \/ SaveBudget(s) \/ SaveEntry(s) \/ DeleteEntry(s)
    \/ Assign(s) \/ Commit(s) \/ Load(s) \/ DeleteTransactions(s)
    \/ SyncWork(s) \/ SyncMaintenance(s) \/ Show(s) \/ Hide(s)

Next ==
    \E s \in Slots :
        \/ /\ Idle(s) /\ asked < MaxRequests
           /\ RecordRequests(s) \/ EntryRequests(s) \/ TransactionRequests(s)
        \/ Steps(s) \/ Stop(s)

Spec == Init /\ [][Next]_timelineVars

(***************************************************************************)
(* Properties, of requests made one at a time.                             *)
(***************************************************************************)

AtRest == \A s \in Slots : Idle(s)

TimelineTypeOK ==
    /\ works \in [Works -> Work \cup {None}] /\ maintenances \subseteq Maintenances
    /\ txs \in [Txs -> Transaction \cup {None}]
    /\ entries \in [Entries -> Entry \cup {None}] /\ budgets \in [Entries -> Budget \cup {None}]
    /\ rows \in [Files -> Entries \cup {None}] /\ stored \subseteq Files

\* No two active works stand at the same position of the queue.
QueueIsOrder ==
    \A v, w \in Active : v # w => works[v].order # works[w].order

\* A linked transaction has its entry, with its status, in the timeline of the record
\* it is linked to, and an unlinked one has none; a request that was cut short may leave
\* it behind until the link is next synchronised.
LinkedIsShown ==
    AtRest =>
        \A side \in Sides, t \in Txs :
            (txs[t] # None /\ <<side, t>> \notin interrupted) =>
                \/ txs[t][side] = None /\ shown[side][t] = None
                \/ txs[t][side] # None /\ shown[side][t] = [of |-> txs[t][side],
                                                            status |-> txs[t].status]
                \/ txs[t][side] # None /\ ~Exists(txs[t][side])

\* Unless a request was cut short: a note says something or has an attachment, a legal
\* record has one, a budget has its entry, which says what the budget does, and the
\* file of every attachment is stored.
TimelineInOrder ==
    (AtRest /\ stops = 0) =>
        /\ \A e \in Entries : entries[e] # None =>
              CASE entries[e].kind = "note"  -> entries[e].says = "text" \/ FilesOf(e) # {}
                [] entries[e].kind = "legal" -> FilesOf(e) # {}
                [] OTHER -> budgets[e] # None /\ entries[e].says = Summary(budgets[e])
        /\ \A e \in Entries : budgets[e] # None => entries[e] # None
        /\ \A e \in Entries : entries[e] # None /\ Exists(entries[e].of) => FilesOf(e) \subseteq stored
=============================================================================
