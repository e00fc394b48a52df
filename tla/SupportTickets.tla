---------------------------- MODULE SupportTickets ----------------------------
(***************************************************************************)
(* Support tickets (SupportService): an account opens a ticket, the        *)
(* account and the platform's administrators exchange messages with files, *)
(* and the platform moves the ticket through its states.                   *)
(*                                                                         *)
(* Requests are split at their awaits and keep the ticket they read; the   *)
(* files of a message are written one by one before its row.  A message is *)
(* numbered in the order of insertion, a file by the request and its place *)
(* in it.  Requests, writes of files and mails may fail.                   *)
(***************************************************************************)
EXTENDS Integers, Sequences

CONSTANTS
    Tickets,
    MaxCalls,    \* bound: requests
    MaxFiles,    \* bound: files of a request
    MaxFaults,   \* bound: interruptions, failed writes and failed mails
    Slots,       \* requests that run at once
    None

Statuses == {"open", "triaged", "in_progress", "resolved", "closed"}

Idle == [step |-> "idle", call |-> 0, ticket |-> None, by |-> None, files |-> 0, saved |-> 0,
         seen |-> None, was |-> None, own |-> 0]

VARIABLES
    status,      \* support_tickets.status; None before the ticket exists
    messages,    \* the rows of support_ticket_messages in order of insertion
    stored,      \* the files on disk, as <<request, place>>
    closedAt,    \* ghost: how many requests had begun when the ticket was last found closed
    mails,       \* what the account was mailed: [own, shown], numbers of messages
    answered,    \* requests that returned without an error
    tasks, calls, faults, overlaps

ticketVars == <<status, messages, stored, closedAt, mails, answered, tasks, calls, faults,
                overlaps>>

EntitySave == INSTANCE EntitySave

Init ==
    /\ status = [t \in Tickets |-> None]
    /\ messages = <<>> /\ stored = {} /\ mails = {} /\ answered = {}
    /\ closedAt = [t \in Tickets |-> 0]
    /\ tasks = [w \in Slots |-> Idle]
    /\ calls = 0 /\ faults = 0 /\ overlaps = FALSE

Become(w, t) == tasks' = [tasks EXCEPT ![w] = t]
At(w, step) == tasks[w].step = step
Move(w, step) == Become(w, [tasks[w] EXCEPT !.step = step])

Begin(w) ==
    /\ tasks[w] = Idle /\ calls < MaxCalls
    /\ calls' = calls + 1
    /\ overlaps' = (overlaps \/ \E v \in Slots \ {w} : tasks[v] # Idle)

\* The request returns.
Answer(w) == Become(w, Idle) /\ answered' = answered \cup {tasks[w].call}

\* Write the files first, if there are any.
FilesThen(files, step) == IF files > 0 THEN "files" ELSE step

(***************************************************************************)
(* Requests.                                                               *)
(***************************************************************************)

\* The ticket's row; the files come with a first message of their own.
Create(w, t, files) ==
    /\ Begin(w) /\ status[t] = None
    /\ status' = [status EXCEPT ![t] = "open"]
    /\ Become(w, [Idle EXCEPT !.step = FilesThen(files, "copy"), !.call = calls + 1, !.ticket = t,
                              !.by = "opener", !.files = files])
    /\ UNCHANGED <<messages, stored, closedAt, mails, answered, faults>>

\* mutant: a closed ticket takes messages
IsThere(t) == status[t] # None

TakesMessages(t) == status[t] \notin {None, "closed"}

\* A message of the account, or a reply of the platform.
PostMessage(w, t, by, text, files) ==
    /\ Begin(w) /\ TakesMessages(t)
    /\ text \/ files > 0
    /\ Become(w, [Idle EXCEPT !.step = FilesThen(files, "insert"), !.call = calls + 1,
                              !.ticket = t, !.by = by, !.files = files,
                              !.seen = status[t]])
    /\ UNCHANGED <<status, messages, stored, closedAt, mails, answered, faults>>

PatchStatus(w, t, new) ==
    /\ Begin(w) /\ status[t] # None
    /\ Become(w, [Idle EXCEPT !.step = "select", !.call = calls + 1, !.ticket = t,
                              !.by = "patch", !.seen = new])
    /\ UNCHANGED <<status, messages, stored, closedAt, mails, answered, faults>>

(***************************************************************************)
(* The later steps of a request.                                           *)
(***************************************************************************)

\* saveMany
SaveFile(w) ==
    LET q == tasks[w] IN
    /\ At(w, "files")
    /\ stored' = stored \cup {<<q.call, q.saved + 1>>}
    /\ Become(w, [q EXCEPT !.saved = @ + 1, !.step = IF q.saved + 1 = q.files THEN "insert" ELSE @])
    /\ UNCHANGED <<status, messages, closedAt, mails, answered, calls, faults, overlaps>>

\* insertMessage, and what follows it
AfterInsert(q) ==
    IF q.by = "opener" THEN "copy"
    ELSE IF q.by = "platform" THEN (IF q.seen = "open" THEN "select" ELSE "notify") ELSE "answer"

InsertMessage(w) ==
    LET q == tasks[w] IN
    /\ At(w, "insert")
    /\ messages' = Append(messages,
        [ticket |-> q.ticket, by |-> q.by, call |-> q.call, files |-> 1..q.saved])
    /\ Become(w, [q EXCEPT !.step = AfterInsert(q), !.own = Len(messages) + 1])
    /\ UNCHANGED <<status, stored, closedAt, mails, answered, calls, faults, overlaps>>

\* save(ticket) with the status the request decided on: the SELECT, then the UPDATE.
NewStatus(q) == IF q.by = "platform" THEN "in_progress" ELSE q.seen

SelectTicket(w) ==
    /\ At(w, "select")
    /\ Become(w, [tasks[w] EXCEPT !.step = "write", !.was = status[tasks[w].ticket]])
    /\ UNCHANGED <<status, messages, stored, closedAt, mails, answered, calls, faults, overlaps>>

WriteTicket(w) ==
    LET q == tasks[w]
        saved == EntitySave!Saved([status |-> status[q.ticket]], [status |-> q.was],
                                  [status |-> NewStatus(q)]) IN
    /\ At(w, "write")
    /\ status' = [status EXCEPT ![q.ticket] = saved.status]
    /\ closedAt' = IF saved.status = "closed" THEN [closedAt EXCEPT ![q.ticket] = calls] ELSE closedAt
    /\ IF q.by = "platform" THEN Move(w, "notify") /\ UNCHANGED answered ELSE Answer(w)
    /\ UNCHANGED <<messages, stored, mails, calls, faults, overlaps>>

\* notifyUserOfPlatformReply shows the platform's latest message.
LastReply(t) ==
    CHOOSE n \in DOMAIN messages :
        /\ messages[n].ticket = t /\ messages[n].by = "platform"
        /\ \A k \in (n + 1)..Len(messages) : ~(messages[k].ticket = t /\ messages[k].by = "platform")

Notify(w) ==
    LET q == tasks[w] IN
    /\ At(w, "notify")
    /\ mails' = mails \cup {[own |-> q.own, shown |-> LastReply(q.ticket)]}
    /\ Answer(w)
    /\ UNCHANGED <<status, messages, stored, closedAt, calls, faults, overlaps>>

\* The copy of a new ticket to the syndic; its failure is only logged.
Finish(w) ==
    /\ At(w, "copy") \/ At(w, "answer")
    /\ Answer(w)
    /\ UNCHANGED <<status, messages, stored, closedAt, mails, calls, faults, overlaps>>

\* A file that is refused or cannot be written, an error of the database or of the mail
\* server, a crash.
Fail(w) ==
    /\ tasks[w] # Idle /\ faults < MaxFaults
    /\ faults' = faults + 1
    /\ Become(w, Idle)
    /\ UNCHANGED <<status, messages, stored, closedAt, mails, answered, calls, overlaps>>

Next ==
    \E w \in Slots :
        \/ \E t \in Tickets :
            \/ \E files \in 0..MaxFiles :
                \/ Create(w, t, files)
                \/ \E by \in {"account", "platform"}, text \in BOOLEAN :
                    PostMessage(w, t, by, text, files)
            \/ \E new \in Statuses : PatchStatus(w, t, new)
        \/ SaveFile(w) \/ InsertMessage(w) \/ SelectTicket(w) \/ WriteTicket(w)
        \/ Notify(w) \/ Finish(w) \/ Fail(w)

Spec == Init /\ [][Next]_ticketVars

(***************************************************************************)
(* Properties.                                                             *)
(***************************************************************************)

TicketTypeOK ==
    /\ status \in [Tickets -> Statuses \cup {None}]
    /\ \A n \in DOMAIN messages : status[messages[n].ticket] # None
    /\ stored \subseteq (1..MaxCalls) \X (1..MaxFiles)
    /\ mails \subseteq [own : DOMAIN messages, shown : DOMAIN messages]
    /\ answered \subseteq 1..calls
    /\ calls \in 0..MaxCalls /\ faults \in 0..MaxFaults /\ overlaps \in BOOLEAN

\* Every file a message names is on disk, and every request that returned left the
\* message it was sent for.
MessagesComplete ==
    /\ \A n \in DOMAIN messages : \A f \in messages[n].files : <<messages[n].call, f>> \in stored
    /\ \A w \in Slots : tasks[w].own # 0 => messages[tasks[w].own].files = 1..tasks[w].files

\* The mail about a reply shows that reply or a later one of the platform to the same ticket.
MailShowsReply ==
    \A m \in mails :
        /\ m.shown >= m.own
        /\ messages[m.shown].ticket = messages[m.own].ticket
        /\ messages[m.shown].by = "platform"

\* A closed ticket takes no message of a request that began after it was closed.
ClosedIsQuiet ==
    \A t \in Tickets : status[t] = "closed" =>
        \A n \in DOMAIN messages : messages[n].ticket = t => messages[n].call <= closedAt[t]

\* While requests do not overlap, a ticket whose last reply was answered is not shown as
\* untouched, unless the platform itself set it back later.
AnsweredIsTaken ==
    (~overlaps /\ faults = 0 /\ \A w \in Slots : tasks[w] = Idle) =>
        \A n \in DOMAIN messages :
            (messages[n].by = "platform" /\ messages[n].call = calls) =>
                status[messages[n].ticket] # "open"
=============================================================================
