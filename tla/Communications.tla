----------------------------- MODULE Communications -----------------------------
(***************************************************************************)
(* A communication of the management to the accounts linked to the units   *)
(* of a condominium: edited as a draft, sent by e-mail and SMS with one    *)
(* reading link for each unit and channel, sent again, and read            *)
(* (CommunicationsService and the audience of GovernanceService).          *)
(*                                                                         *)
(* No handler uses a transaction: every statement and every delivery is a  *)
(* step, and a request may be cut short before any of them.  A save writes *)
(* the entity as it was loaded.  WhatsApp, which is always skipped, and    *)
(* the texts are left out.                                                 *)
(***************************************************************************)
EXTENDS Integers, FiniteSets

CONSTANTS
    Users, Units,
    Linked,        \* account -> the units its person owns or is responsible for
    Contacts,      \* pairs of account and channel: who has an e-mail, a telephone
    Settings,      \* what an update may ask for: units (none: all) and channels of accounts
    Files,         \* what may be attached
    None,          \* nothing, a row that does not exist
    Managers, Readers,   \* requests of the management, and of readers, that may overlap
    MaxRequests,   \* requests of the management
    MaxReadings,   \* links opened
    MaxStops       \* requests cut short

VARIABLES
    comm,        \* the communication
    recipients,  \* account -> row or None
    links,       \* tokens of communication_read_links
    handed,      \* tokens that were delivered
    log,         \* access log: who read, with which token or in the application
    attached, stored,   \* rows of attachments, files of the storage
    tasks,       \* the request in each slot
    asked, read, stops  \* requests made, links opened, requests cut short

messageVars == <<comm, recipients, links, handed, log, attached, stored, tasks, asked, read, stops>>

Slots == Managers \cup Readers
Channels == {"email", "sms"}
Delivery == {"pending", "sent", "failed", "skipped"}

\* A token, random in the code, is named after what it is for.
Token == [sending : 1..MaxRequests, user : Users, unit : Units, channel : Channels]
Communication == [status : {"draft", "sent"}, since : 0..MaxRequests,   \* sentAt
                  units : SUBSET Units, channels : SUBSET (Users \X Channels)]
Recipient == [sending : 1..MaxRequests, email : Delivery, sms : Delivery, token : Token \cup {None}, readAt : BOOLEAN]

Blank == [pc |-> "idle", comm |-> None, made |-> << >>, left |-> {}, token |-> None,
          reader |-> None, sending |-> 0, row |-> None]

At(s, pc) == tasks[s].pc = pc
Goes(s, task) == tasks' = [tasks EXCEPT ![s] = task]
To(s, pc) == Goes(s, [tasks[s] EXCEPT !.pc = pc])
Ends(s) == Goes(s, Blank)
Asks(s, task) ==
    /\ s \in Managers /\ At(s, "idle") /\ asked < MaxRequests
    /\ asked' = asked + 1
    /\ Goes(s, task)

(***************************************************************************)
(* The draft.                                                              *)
(***************************************************************************)

\* Audience and channels may be changed after the sending, title and text not.
Update(s, new) ==
    /\ Asks(s, [Blank EXCEPT !.pc = "save",
                             !.comm = [comm EXCEPT !.units = new.units, !.channels = new.channels]])
    /\ UNCHANGED <<comm, recipients, links, handed, log, attached, stored, read, stops>>

Save(s) ==
    /\ At(s, "save")
    /\ comm' = tasks[s].comm
    /\ Ends(s)
    /\ UNCHANGED <<recipients, links, handed, log, attached, stored, asked, read, stops>>

AddAttachment(s, f) ==
    /\ comm.status = "draft" /\ f \notin attached
    /\ Asks(s, [Blank EXCEPT !.pc = "attach", !.row = f])
    /\ stored' = stored \cup {f}
    /\ UNCHANGED <<comm, recipients, links, handed, log, attached, read, stops>>

Attach(s) ==
    /\ At(s, "attach")
    /\ attached' = attached \cup {tasks[s].row}
    /\ Ends(s)
    /\ UNCHANGED <<comm, recipients, links, handed, log, stored, asked, read, stops>>

RemoveAttachment(s, f) ==
    /\ comm.status = "draft" /\ f \in attached
    /\ Asks(s, [Blank EXCEPT !.pc = "detach", !.row = f])
    /\ stored' = stored \ {f}
    /\ UNCHANGED <<comm, recipients, links, handed, log, attached, read, stops>>

Detach(s) ==
    /\ At(s, "detach")
    /\ attached' = attached \ {tasks[s].row}
    /\ Ends(s)
    /\ UNCHANGED <<comm, recipients, links, handed, log, stored, asked, read, stops>>

(***************************************************************************)
(* Sending, and sending again.                                             *)
(***************************************************************************)

\* loadUnitsForCommunicationAudience, listUnitLinkedAccountUserIds
Audience(units) == IF units = {} THEN Units ELSE units
UnitsOf(c, u) == Linked[u] \cap Audience(c.units)
Addressed(c) == {u \in Users : UnitsOf(c, u) # {}}

\* Whether a channel is on for an account that can be reached by it.
Reaches(c, u, channel) == <<u, channel>> \in c.channels \cap Contacts

\* mutant: links go with every sending
AlwaysAnew(c) == "drop_links"

\* A communication that was sent keeps its links.
FirstStep(c) == IF c.status = "sent" THEN "drop_recipients" ELSE "drop_links"

Send(s) ==
    /\ Asks(s, [Blank EXCEPT !.pc = FirstStep(comm), !.comm = comm, !.sending = asked + 1])
    /\ UNCHANGED <<comm, recipients, links, handed, log, attached, stored, read, stops>>

DropLinks(s) ==
    /\ At(s, "drop_links")
    /\ links' = {}
    /\ To(s, "drop_recipients")
    /\ UNCHANGED <<comm, recipients, handed, log, attached, stored, asked, read, stops>>

DropRecipients(s) ==
    /\ At(s, "drop_recipients")
    /\ recipients' = [u \in Users |-> None]
    /\ To(s, "make")
    /\ UNCHANGED <<comm, links, handed, log, attached, stored, asked, read, stops>>

Tokens(task, u, channel) ==
    IF Reaches(task.comm, u, channel)
    THEN [sending : {task.sending}, user : {u}, unit : UnitsOf(task.comm, u), channel : {channel}]
    ELSE {}

Waiting(c, u, channel) == IF Reaches(c, u, channel) THEN "pending" ELSE "skipped"

\* The recipient mirrors the token of its first e-mail link.
Made(task, u) ==
    {[sending |-> task.sending,
      email |-> Waiting(task.comm, u, "email"), sms |-> Waiting(task.comm, u, "sms"),
      token |-> token, readAt |-> FALSE] :
        token \in IF Tokens(task, u, "email") = {} THEN {None} ELSE Tokens(task, u, "email")}

\* The rows are made in memory; without anybody to deliver to, the request is refused.
Make(s) ==
    LET task == tasks[s] IN
    /\ At(s, "make")
    /\ IF \E u \in Addressed(task.comm), channel \in Channels : Reaches(task.comm, u, channel)
       THEN \E made \in [Addressed(task.comm) -> UNION {Made(task, u) : u \in Users}] :
              /\ \A u \in DOMAIN made : made[u] \in Made(task, u)
              /\ Goes(s, [task EXCEPT !.pc = "insert_recipients", !.made = made, !.left = DOMAIN made])
       ELSE Ends(s)
    /\ UNCHANGED <<comm, recipients, links, handed, log, attached, stored, asked, read, stops>>

\* The unique key refuses a second recipient for an account.
InsertRecipients(s) ==
    LET made == tasks[s].made IN
    /\ At(s, "insert_recipients")
    /\ \/ /\ \A u \in DOMAIN made : recipients[u] = None
          /\ recipients' = [u \in Users |-> IF u \in DOMAIN made THEN made[u] ELSE recipients[u]]
          /\ To(s, "insert_links")
       \/ /\ \E u \in DOMAIN made : recipients[u] # None
          /\ UNCHANGED recipients /\ Ends(s)
    /\ UNCHANGED <<comm, links, handed, log, attached, stored, asked, read, stops>>

InsertLinks(s) ==
    /\ At(s, "insert_links")
    /\ links' = links \cup UNION {Tokens(tasks[s], u, channel) :
                                      u \in tasks[s].left, channel \in Channels}
    /\ To(s, "next")
    /\ UNCHANGED <<comm, recipients, handed, log, attached, stored, asked, read, stops>>

\* One recipient after the other; at the end the communication is marked as sent.
NextRecipient(s) ==
    /\ At(s, "next") /\ tasks[s].left # {}
    /\ \E u \in tasks[s].left : Goes(s, [tasks[s] EXCEPT !.pc = "mail", !.row = u, !.left = @ \ {u}])
    /\ UNCHANGED <<comm, recipients, links, handed, log, attached, stored, asked, read, stops>>

\* What had gone out when a channel failed: a mail has all the links, but an SMS is sent
\* for each unit, and those before the one that failed arrive.
Arrived(tokens, channel) == IF channel = "sms" THEN SUBSET tokens \ {tokens} ELSE {{}}

\* The gateway takes the message, or the channel fails.
Deliver(s, channel, then) ==
    LET u == tasks[s].row IN
    \/ /\ tasks[s].made[u][channel] = "pending"
       /\ handed' = handed \cup Tokens(tasks[s], u, channel)
       /\ Goes(s, [tasks[s] EXCEPT !.pc = then, !.made[u][channel] = "sent"])
    \/ /\ tasks[s].made[u][channel] = "pending"
       /\ \E some \in Arrived(Tokens(tasks[s], u, channel), channel) : handed' = handed \cup some
       /\ Goes(s, [tasks[s] EXCEPT !.pc = then, !.made[u][channel] = "failed"])
    \/ /\ tasks[s].made[u][channel] # "pending"
       /\ UNCHANGED handed
       /\ To(s, then)

Mail(s) ==
    /\ At(s, "mail")
    /\ Deliver(s, "email", "text")
    /\ UNCHANGED <<comm, recipients, links, log, attached, stored, asked, read, stops>>

Text(s) ==
    /\ At(s, "text")
    /\ Deliver(s, "sms", "save_recipient")
    /\ UNCHANGED <<comm, recipients, links, log, attached, stored, asked, read, stops>>

\* Saving a recipient writes the entity over its row, or inserts it where the row was
\* deleted, which the unique key refuses when a later sending made another.
Taken(u, row) == recipients[u] # None /\ recipients[u].sending # row.sending
Put(s, u, row, next) ==
    \/ ~Taken(u, row) /\ recipients' = [recipients EXCEPT ![u] = row] /\ Goes(s, next)
    \/ Taken(u, row) /\ UNCHANGED recipients /\ Ends(s)

\* The recipient is saved as it was made: a reading in the meantime is overwritten.
SaveRecipient(s) ==
    LET task == tasks[s] IN
    /\ At(s, "save_recipient")
    /\ Put(s, task.row, task.made[task.row], [task EXCEPT !.pc = "next"])
    /\ UNCHANGED <<comm, links, handed, log, attached, stored, asked, read, stops>>

Finish(s) ==
    /\ At(s, "next") /\ tasks[s].left = {}
    /\ comm' = IF tasks[s].comm.status = "sent" THEN comm
               ELSE [comm EXCEPT !.status = "sent", !.since = tasks[s].sending]
    /\ Ends(s)
    /\ UNCHANGED <<recipients, links, handed, log, attached, stored, asked, read, stops>>

(***************************************************************************)
(* Reading.                                                                *)
(***************************************************************************)

\* viewByReadToken; the token of a recipient opens the communication as well.
Opens(token) ==
    /\ comm.status = "sent"
    /\ token \in links \/ \E u \in Users : recipients[u] # None /\ recipients[u].token = token

OpenLink(s, token) ==
    /\ s \in Readers /\ At(s, "idle") /\ read < MaxReadings
    /\ token \in handed
    /\ read' = read + 1
    /\ IF Opens(token) THEN Goes(s, [Blank EXCEPT !.pc = "log", !.reader = token.user, !.token = token])
       ELSE UNCHANGED tasks
    /\ UNCHANGED <<comm, recipients, links, handed, log, attached, stored, asked, stops>>

\* markReadApp: a recipient reads it in the application
MarkReadApp(s, u) ==
    /\ s \in Readers /\ At(s, "idle") /\ read < MaxReadings
    /\ comm.status = "sent" /\ recipients[u] # None
    /\ read' = read + 1
    /\ Goes(s, [Blank EXCEPT !.pc = "log", !.reader = u])
    /\ UNCHANGED <<comm, recipients, links, handed, log, attached, stored, asked, stops>>

LogReading(s) ==
    /\ At(s, "log")
    /\ log' = log \cup {<<tasks[s].reader, tasks[s].token>>}
    /\ To(s, "find_recipient")
    /\ UNCHANGED <<comm, recipients, links, handed, attached, stored, asked, read, stops>>

\* touchRecipientLastRead
FindRecipient(s) ==
    LET rec == recipients[tasks[s].reader] IN
    /\ At(s, "find_recipient")
    /\ IF rec = None THEN Ends(s)
       ELSE Goes(s, [tasks[s] EXCEPT !.pc = "touch", !.row = [rec EXCEPT !.readAt = TRUE]])
    /\ UNCHANGED <<comm, recipients, links, handed, log, attached, stored, asked, read, stops>>

TouchRecipient(s) ==
    /\ At(s, "touch")
    /\ Put(s, tasks[s].reader, tasks[s].row, Blank)
    /\ UNCHANGED <<comm, links, handed, log, attached, stored, asked, read, stops>>

(***************************************************************************)
(* The whole.                                                              *)
(***************************************************************************)

Stop(s) ==
    /\ ~At(s, "idle") /\ stops < MaxStops
    /\ stops' = stops + 1
    /\ Ends(s)
    /\ UNCHANGED <<comm, recipients, links, handed, log, attached, stored, asked, read>>

\* A draft as create left it, to all units by every channel, or as it was edited since.
Created == [units |-> {}, channels |-> Users \X Channels]
Init ==
    /\ \E new \in Settings \cup {Created} :
        comm = [status |-> "draft", since |-> 0, units |-> new.units, channels |-> new.channels]
    /\ recipients = [u \in Users |-> None]
    /\ links = {} /\ handed = {} /\ log = {}
    /\ attached = {} /\ stored = {}
    /\ tasks = [s \in Slots |-> Blank]
    /\ asked = 0 /\ read = 0 /\ stops = 0

Requests(s) ==
    \/ \E new \in Settings : Update(s, new)
    \/ \E f \in Files : AddAttachment(s, f) \/ RemoveAttachment(s, f)
    \/ Send(s)
    \/ \E token \in handed : OpenLink(s, token)
    \/ \E u \in Users : MarkReadApp(s, u)

Steps(s) ==
    \/ Save(s) \/ Attach(s) \/ Detach(s)
    \/ DropLinks(s) \/ DropRecipients(s) \/ Make(s) \/ InsertRecipients(s) \/ InsertLinks(s)
    \/ NextRecipient(s) \/ Mail(s) \/ Text(s) \/ SaveRecipient(s) \/ Finish(s)
    \/ LogReading(s) \/ FindRecipient(s) \/ TouchRecipient(s)

Next == \E s \in Slots : Requests(s) \/ Steps(s) \/ Stop(s)

Spec == Init /\ [][Next]_messageVars

(***************************************************************************)
(* Properties, with one request of the management at a time.               *)
(***************************************************************************)

MessageTypeOK ==
    /\ comm \in Communication
    /\ recipients \in [Users -> Recipient \cup {None}]
    /\ links \subseteq Token /\ handed \subseteq Token /\ log \subseteq Users \X (handed \cup {None})
    /\ attached \subseteq Files /\ stored \subseteq Files

\* A link that was delivered with the sending that counts, or with a later one, opens the
\* communication for good, however often it is sent again or its audience changes
\* ("mantém `read_links` para os links dos e-mails anteriores continuarem válidos").
LinksLast ==
    comm.status = "sent" => \A token \in handed : token.sending >= comm.since => token \in links

\* A communication becomes sent only when each delivery has been tried and its outcome
\* stored, and what counts as sent was delivered with a link for each unit of the account.
SendingSettles ==
    (comm.status = "draft" /\ comm'.status = "sent") =>
        \A u \in Users, channel \in Channels :
            /\ (recipients[u] = None) <=> UnitsOf(comm, u) = {}
            /\ recipients[u] # None =>
                 /\ recipients[u][channel] # "pending"
                 /\ recipients[u][channel] = "sent" =>
                      \A n \in UnitsOf(comm, u) :
                        [sending |-> comm'.since, user |-> u, unit |-> n, channel |-> channel]
                            \in links \cap handed

SentIsSettled == [][SendingSettles]_messageVars
=============================================================================
