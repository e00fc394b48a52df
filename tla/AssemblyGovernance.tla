-------------------------- MODULE AssemblyGovernance --------------------------
(***************************************************************************)
(* Who governs a condominium, and the minutes whose publication puts an    *)
(* elected management into office (GovernanceService and                   *)
(* PlanningDocumentsService).                                              *)
(*                                                                         *)
(* Roles are rows of condominium_participants.  No handler uses a          *)
(* transaction: every statement is a step, and the request may be cut      *)
(* short before any of them.  Saving a document writes the row as it was   *)
(* loaded, with the changes of the request.  The PDFs are left out; a      *)
(* document has one from its creation on.                                  *)
(***************************************************************************)
EXTENDS Integers, FiniteSets

CONSTANTS
    Users, Owner,   \* accounts; the one the condominium belongs to
    Responsible,    \* accounts of people responsible for a unit
    Docs,           \* documents of the assemblies
    Polls,          \* what a document can be about: "ordinary", "election", "none"
    None,           \* nothing
    Slots,          \* how many requests may overlap
    MaxRequests,    \* requests ever made
    MaxStops        \* requests cut short

VARIABLES
    roles,   \* pairs of account and role
    log,     \* governance audit log: action, account and role
    docs,    \* document -> row or None
    closed,  \* the polls are closed
    tasks,   \* the request in each slot
    asked, stops   \* requests made, and cut short

governanceVars == <<roles, log, docs, closed, tasks, asked, stops>>

Sole == {"syndic", "subsyndic"}        \* roles one account has at a time
Assignable == Sole \cup {"admin"}
Role == Assignable \cup {"owner"}

Doc == [poll    : Polls,
        kind    : {"meeting_draft", "meeting_final", "assembly_draft", "assembly_final"},
        status  : {"generated", "pending_upload", "published"},
        visible : BOOLEAN,
        elected : Users \cup {None},   \* electionPayload: the syndic
        admins  : SUBSET Users]        \*   and the administrators

Blank == [pc |-> "idle", user |-> None, role |-> None, rows |-> {}, doc |-> None, row |-> None]

At(s, pc) == tasks[s].pc = pc
Goes(s, task) == tasks' = [tasks EXCEPT ![s] = task]
Ends(s) == Goes(s, Blank)
Asks(s, task) == At(s, "idle") /\ asked < MaxRequests /\ asked' = asked + 1 /\ Goes(s, task)

Holders(role) == {u \in Users : <<u, role>> \in roles}

\* assertCanManageRoles, assertSyndicOrOwner
Governs(actor) == roles # {} /\ (actor = Owner \/ <<actor, "syndic">> \in roles)

\* Inserting rows of roles: the unique key refuses one that is there.
Insert(s, rows, next) ==
    \/ rows \cap roles = {} /\ roles' = roles \cup rows /\ Goes(s, next)
    \/ rows \cap roles # {} /\ UNCHANGED roles /\ Ends(s)

(***************************************************************************)
(* ensureBootstrapParticipants, which every handler calls first.           *)
(***************************************************************************)

BootstrapCount(s) ==
    /\ roles = {}
    /\ Asks(s, [Blank EXCEPT !.pc = "bootstrap"])
    /\ UNCHANGED <<roles, log, docs, closed, stops>>

Founding == {<<Owner, "owner">>, <<Owner, "syndic">>}

BootstrapSave(s) ==
    /\ At(s, "bootstrap")
    /\ Insert(s, Founding, Blank)
    /\ UNCHANGED <<log, docs, closed, asked, stops>>

(***************************************************************************)
(* createParticipant and removeParticipant.                                *)
(***************************************************************************)

CreateParticipant(s, actor, u, role) ==
    /\ Governs(actor) /\ u \in Responsible \cup {Owner}
    /\ Asks(s, [Blank EXCEPT !.pc = "assign_olds", !.user = u, !.role = role])
    /\ UNCHANGED <<roles, log, docs, closed, stops>>

\* mutant: the one in office stays
NobodyReplaced(role) == {}

\* Who holds a role that only one account has.
Replaced(role) == IF role \in Sole THEN Holders(role) \X {role} ELSE {}

FindOlds(s) ==
    /\ At(s, "assign_olds")
    /\ Goes(s, [tasks[s] EXCEPT !.pc = "assign_remove", !.rows = Replaced(tasks[s].role)])
    /\ UNCHANGED <<roles, log, docs, closed, asked, stops>>

RemoveOlds(s) ==
    /\ At(s, "assign_remove")
    /\ roles' = roles \ tasks[s].rows
    /\ Goes(s, [tasks[s] EXCEPT !.pc = "assign_find", !.rows = {}])
    /\ UNCHANGED <<log, docs, closed, asked, stops>>

Named(task) == <<task.user, task.role>>

FindSame(s) ==
    /\ At(s, "assign_find")
    /\ Goes(s, [tasks[s] EXCEPT !.pc = IF Named(tasks[s]) \in roles THEN "log_updated" ELSE "assign_save"])
    /\ UNCHANGED <<roles, log, docs, closed, asked, stops>>

SaveParticipant(s) ==
    /\ At(s, "assign_save")
    /\ Insert(s, {Named(tasks[s])}, [tasks[s] EXCEPT !.pc = "log_created"])
    /\ UNCHANGED <<log, docs, closed, asked, stops>>

RemoveParticipant(s, actor, row) ==
    /\ Governs(actor) /\ row \in roles /\ row[2] # "owner"
    /\ Asks(s, [Blank EXCEPT !.pc = "remove", !.user = row[1], !.role = row[2]])
    /\ UNCHANGED <<roles, log, docs, closed, stops>>

RemoveRow(s) ==
    /\ At(s, "remove")
    /\ roles' = roles \ {Named(tasks[s])}
    /\ Goes(s, [tasks[s] EXCEPT !.pc = "log_removed"])
    /\ UNCHANGED <<log, docs, closed, asked, stops>>

Log(s) ==
    /\ tasks[s].pc \in {"log_created", "log_updated", "log_removed"}
    /\ log' = log \cup {<<tasks[s].pc, tasks[s].user, tasks[s].role>>}
    /\ Ends(s)
    /\ UNCHANGED <<roles, docs, closed, asked, stops>>

(***************************************************************************)
(* Documents.                                                              *)
(***************************************************************************)

\* generateMinutesDraft of a poll in any status, generateMeetingMinutesTemplate.
Generate(actor, d, poll) ==
    /\ Governs(actor) /\ docs[d] = None
    /\ docs' = [docs EXCEPT ![d] =
                    [poll |-> poll, kind |-> IF poll = "none" THEN "meeting_draft" ELSE "assembly_draft",
                     status |-> "generated", visible |-> FALSE, elected |-> None, admins |-> {}]]
    /\ UNCHANGED <<roles, log, closed, tasks, asked, stops>>

\* The polls module closes polls.
ClosePolls == ~closed /\ closed' = TRUE /\ UNCHANGED <<roles, log, docs, tasks, asked, stops>>

Final(kind) == IF kind = "meeting_draft" THEN "meeting_final" ELSE "assembly_final"

\* The signed PDF is published at once, unless it is about an election.
Signed(row) ==
    LET final == [row EXCEPT !.kind = Final(@), !.status = "pending_upload"] IN
    IF row.poll = "election" THEN final ELSE [final EXCEPT !.visible = TRUE, !.status = "published"]

UploadFinalPdf(s, actor, d) ==
    /\ Governs(actor) /\ docs[d] # None
    /\ Asks(s, [Blank EXCEPT !.pc = "save_doc", !.doc = d, !.row = Signed(docs[d])])
    /\ UNCHANGED <<roles, log, docs, closed, stops>>

Published(row) == [row EXCEPT !.visible = TRUE, !.status = "published"]

Publish(s, actor, d, syndic, admins) ==
    LET row == Published(docs[d])
        elects == docs[d].poll = "election" /\ syndic # None IN
    /\ Governs(actor) /\ docs[d] # None
    /\ Asks(s, IF elects
               THEN [Blank EXCEPT !.pc = "elect_find", !.role = "syndic", !.doc = d,
                                  !.row = [row EXCEPT !.elected = syndic, !.admins = admins]]
               ELSE [Blank EXCEPT !.pc = "save_doc", !.doc = d, !.row = row])
    /\ UNCHANGED <<roles, log, docs, closed, stops>>

SaveDoc(s) ==
    /\ At(s, "save_doc")
    /\ docs' = [docs EXCEPT ![tasks[s].doc] = tasks[s].row]
    /\ Ends(s)
    /\ UNCHANGED <<roles, log, closed, asked, stops>>

(***************************************************************************)
(* applyElectionParticipants: the syndics are removed one by one, then the *)
(* administrators, and then those elected are inserted one by one.         *)
(***************************************************************************)

FindInOffice(s) ==
    /\ At(s, "elect_find")
    /\ Goes(s, [tasks[s] EXCEPT !.pc = "elect_remove", !.rows = Holders(tasks[s].role) \X {tasks[s].role}])
    /\ UNCHANGED <<roles, log, docs, closed, asked, stops>>

RemoveFromOffice(s) ==
    /\ At(s, "elect_remove")
    /\ \E row \in tasks[s].rows :
        /\ roles' = roles \ {row}
        /\ Goes(s, [tasks[s] EXCEPT !.rows = @ \ {row}])
    /\ UNCHANGED <<log, docs, closed, asked, stops>>

OfficeCleared(s) ==
    /\ At(s, "elect_remove") /\ tasks[s].rows = {}
    /\ Goes(s, IF tasks[s].role = "syndic" THEN [tasks[s] EXCEPT !.pc = "elect_find", !.role = "admin"]
               ELSE [tasks[s] EXCEPT !.pc = "elect_syndic"])
    /\ UNCHANGED <<roles, log, docs, closed, asked, stops>>

\* mutant: all administrators of the request
AllAdmins(row) == row.admins

\* One who is elected syndic is not made administrator as well.
ElectedAdmins(row) == row.admins \ {row.elected}

ElectSyndic(s) ==
    /\ At(s, "elect_syndic")
    /\ Insert(s, {<<tasks[s].row.elected, "syndic">>},
              [tasks[s] EXCEPT !.pc = "elect_admins", !.rows = ElectedAdmins(tasks[s].row) \X {"admin"}])
    /\ UNCHANGED <<log, docs, closed, asked, stops>>

ElectAdmin(s) ==
    /\ At(s, "elect_admins")
    /\ \E row \in tasks[s].rows : Insert(s, {row}, [tasks[s] EXCEPT !.rows = @ \ {row}])
    /\ UNCHANGED <<log, docs, closed, asked, stops>>

LogElection(s) ==
    LET row == tasks[s].row IN
    /\ At(s, "elect_admins") /\ tasks[s].rows = {}
    /\ log' = log \cup {<<"elected", row.elected, "syndic">>}
                  \cup {<<"elected", u, "admin">> : u \in row.admins}
    /\ Goes(s, [tasks[s] EXCEPT !.pc = "save_doc"])
    /\ UNCHANGED <<roles, docs, closed, asked, stops>>

(***************************************************************************)
(* The whole.                                                              *)
(***************************************************************************)

Stop(s) ==
    /\ ~At(s, "idle") /\ stops < MaxStops
    /\ stops' = stops + 1
    /\ Ends(s)
    /\ UNCHANGED <<roles, log, docs, closed, asked>>

Init ==
    /\ roles = {} /\ log = {}
    /\ docs = [d \in Docs |-> None]
    /\ closed = FALSE
    /\ tasks = [s \in Slots |-> Blank]
    /\ asked = 0 /\ stops = 0

Requests(s) ==
    \/ BootstrapCount(s)
    \/ \E a, u \in Users, role \in Assignable : CreateParticipant(s, a, u, role)
    \/ \E a \in Users, row \in roles : RemoveParticipant(s, a, row)
    \/ \E a \in Users, d \in Docs : UploadFinalPdf(s, a, d)
    \/ \E a \in Users, d \in Docs, u \in Users \cup {None}, admins \in SUBSET Users :
          Publish(s, a, d, u, admins)

Steps(s) ==
    \/ BootstrapSave(s)
    \/ FindOlds(s) \/ RemoveOlds(s) \/ FindSame(s) \/ SaveParticipant(s)
    \/ RemoveRow(s) \/ Log(s)
    \/ FindInOffice(s) \/ RemoveFromOffice(s) \/ OfficeCleared(s)
    \/ ElectSyndic(s) \/ ElectAdmin(s) \/ LogElection(s)
    \/ SaveDoc(s)

Next ==
    \/ \E a \in Users, d \in Docs, poll \in Polls : Generate(a, d, poll)
    \/ ClosePolls
    \/ \E s \in Slots : Requests(s) \/ Steps(s) \/ Stop(s)

Spec == Init /\ [][Next]_governanceVars

(***************************************************************************)
(* Properties.                                                             *)
(***************************************************************************)

AtRest == \A s \in Slots : At(s, "idle")

GovernanceTypeOK ==
    /\ roles \subseteq Users \X Role
    /\ docs \in [Docs -> Doc \cup {None}]
    /\ closed \in BOOLEAN /\ asked \in 0..MaxRequests /\ stops \in 0..MaxStops

\* The row of the owner is there as soon as there are roles and stays: whatever is
\* removed or elected, the bootstrap, which makes the owner syndic, runs only once.
OwnerRowStays == roles # {} => <<Owner, "owner">> \in roles

\* With requests one at a time there is never a second syndic or subsyndic, wherever
\* an assignment or an election was cut short.
OneHolder == \A role \in Sole : Cardinality(Holders(role)) <= 1

\* The minutes of an election are saved with its result only when the elected are in
\* office, and nobody else is.
ElectionSettles ==
    \A d \in Docs :
        (docs[d] # None /\ docs'[d].elected # docs[d].elected) =>
            /\ Holders("syndic")' = {docs'[d].elected}
            /\ Holders("admin")' = docs'[d].admins \ {docs'[d].elected}

ElectionInForce == [][ElectionSettles]_governanceVars

\* Unless a request was cut short, the audit log says how each holder got the role; the
\* founding roles are the owner's.
RolesAreLogged ==
    (AtRest /\ stops = 0) =>
        \A row \in roles \ Founding :
            \E action \in {"log_created", "elected"} : <<action, row[1], row[2]>> \in log

\* residentCanReadUnpublishedAssemblyMinutes, and the same condition in list
ReadByResidents(row) ==
    \/ row.visible
    \/ /\ row.kind \in {"assembly_draft", "assembly_final"} /\ closed
       /\ row.poll = "ordinary"

\* The minutes of an election become readable for residents by their publication only,
\* in whatever order polls are closed and PDFs uploaded; those of another poll as soon as
\* it is closed.
ElectionShownByPublication ==
    \A d \in Docs :
        (/\ docs[d] # None /\ docs[d].poll = "election"
         /\ ~ReadByResidents(docs[d]) /\ ReadByResidents(docs[d])')
            => docs'[d].status = "published" /\ docs[d].status # "published"

MinutesShown == [][ElectionShownByPublication]_governanceVars
=============================================================================
