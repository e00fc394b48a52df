-------------------------- MODULE Components_proofs --------------------------
(***************************************************************************)
(* Theorems about five components that share no rows with another one:     *)
(* FeeShares, whose definitions this module extends, and SupportTickets,   *)
(* PlanCatalog, AssemblyGovernance and FundAccruals, each instantiated     *)
(* under a name of its own.  A parameter or variable that two of them name *)
(* alike stands for that of the one a theorem is about.  The theorems hold *)
(* for every value of the parameters that TicketParameters, PlanParameters,*)
(* GovernanceParameters, AccrualParameters and FeeParameters describe.     *)
(***************************************************************************)
EXTENDS FeeShares, Sequences, SequenceTheorems, Sums_proofs

CONSTANTS
    Slots, MaxFaults, MaxStops,
    Tickets, MaxFiles,
    Users, Condominiums, Prices, Bands, Patches, MaxPlans, MaxUnits,
    Owner, Responsible, Docs, Polls, MaxRequests,
    Funds, Setups, Legacy, MaxMonth, MaxCents, MaxIds

VARIABLES
    tasks, faults, stops, overlaps,
    status, messages, stored, closedAt, mails, answered,
    plans, made, planOf, condos,
    roles, log, docs, closed, asked,
    units, txs, accruals

(***************************************************************************)
(* Support tickets.                                                        *)
(***************************************************************************)

Support == INSTANCE SupportTickets

\* The absent value is neither a status nor a row.
TicketParameters ==
    /\ MaxFiles \in Nat
    /\ None \notin Support!Statuses
    /\ \A s \in Support!Statuses \cup {None} : None # [status |-> s]

Sender == {"account", "platform", "opener"}

TicketMessage == [ticket : Tickets, by : Sender, call : Nat, files : SUBSET Nat]

TicketSteps == {"idle", "files", "insert", "copy", "select", "write", "notify", "answer"}

TicketTask ==
    [step : TicketSteps,
     call : Nat, ticket : Tickets \cup {None}, by : Sender \cup {"patch", None},
     files : Nat, saved : Nat, seen : Support!Statuses \cup {None},
     was : Support!Statuses \cup {None}, own : Nat]

TicketTyped ==
    /\ status \in [Tickets -> Support!Statuses \cup {None}]
    /\ messages \in Seq(TicketMessage)
    /\ closedAt \in [Tickets -> Nat]
    /\ tasks \in [Slots -> TicketTask]
    /\ calls \in Nat /\ faults \in Nat /\ overlaps \in BOOLEAN

\* What a request relies on at its next step: its files are on disk before its message is
\* inserted, the message it was sent for is its own, and a ticket that was closed since it
\* began was closed no earlier than that.
Request(q) ==
    /\ q # Support!Idle => q.ticket \in Tickets /\ q.call <= calls
    /\ \A f \in 1..q.saved : <<q.call, f>> \in stored
    /\ q.step = "files" => q.saved < q.files
    /\ q.step = "insert" => q.saved = q.files
    /\ q.step \in {"files", "insert"} =>
          q.own = 0 /\ q.by \in Sender /\ (status[q.ticket] = "closed" => q.call <= closedAt[q.ticket])
    /\ q.own # 0 =>
          /\ q.own \in DOMAIN messages /\ messages[q.own].files = 1..q.files
          /\ messages[q.own].ticket = q.ticket /\ messages[q.own].by = q.by
    /\ q.step = "notify" => q.by = "platform"
    /\ q.by = "platform" /\ q.step \in {"select", "write", "notify"} => q.own # 0

Posted ==
    \A n \in DOMAIN messages :
        /\ messages[n].call <= calls
        /\ \A f \in messages[n].files : <<messages[n].call, f>> \in stored

Mailed ==
    \A m \in mails :
        /\ m.own \in DOMAIN messages /\ m.shown \in DOMAIN messages /\ m.own <= m.shown
        /\ messages[m.shown].ticket = messages[m.own].ticket /\ messages[m.shown].by = "platform"

TicketInv ==
    /\ TicketTyped
    /\ \A w \in Slots : Request(tasks[w])
    /\ Posted /\ Mailed /\ Support!ClosedIsQuiet

\* No step takes a message or a file away, and a ticket is found closed after the requests
\* that had begun.
TicketsGrow ==
    /\ DOMAIN messages \subseteq DOMAIN messages'
    /\ \A n \in DOMAIN messages : messages'[n] = messages[n]
    /\ stored \subseteq stored' /\ calls <= calls'
    /\ \A t \in Tickets : status'[t] = "closed" =>
          \/ status[t] = "closed" /\ closedAt'[t] = closedAt[t]
          \/ calls <= closedAt'[t]

LEMMA TicketIdle ==
  ASSUME TicketParameters
  PROVE  /\ Support!Idle \in TicketTask
         /\ Support!Idle.step = "idle" /\ Support!Idle.own = 0 /\ Support!Idle.saved = 0
         /\ Support!Idle.by = None
  BY DEF TicketParameters, Support!Idle, TicketTask, TicketSteps

LEMMA IdleRequest == ASSUME TicketParameters PROVE \A w \in Slots : tasks[w] = Support!Idle => Request(tasks[w])
<1>1. 1..0 = {}
  OBVIOUS
<1>2. QED
  BY <1>1, TicketIdle DEF Request

LEMMA IdleRequestNext ==
  ASSUME TicketParameters PROVE \A w \in Slots : tasks'[w] = Support!Idle => Request(tasks[w])'
<1>1. 1..0 = {}
  OBVIOUS
<1>2. QED
  BY <1>1, TicketIdle DEF Request

LEMMA TheMessages ==
  ASSUME TicketTyped
  PROVE  /\ Len(messages) \in Nat /\ DOMAIN messages = 1..Len(messages)
         /\ \A n \in DOMAIN messages : messages[n] \in TicketMessage
  BY DEF TicketTyped

LEMMA InitTickets == ASSUME TicketParameters PROVE Support!Init => TicketInv
<1> SUFFICES ASSUME Support!Init PROVE TicketInv
  OBVIOUS
<1>1. TicketTyped
  <2>1. messages \in Seq(TicketMessage) /\ calls \in Nat /\ faults \in Nat /\ overlaps \in BOOLEAN
    BY EmptySeq DEF Support!Init
  <2>2. tasks \in [Slots -> TicketTask]
    BY TicketIdle DEF Support!Init
  <2>3. status \in [Tickets -> Support!Statuses \cup {None}] /\ closedAt \in [Tickets -> Nat]
    BY DEF Support!Init
  <2>4. QED
    BY <2>1, <2>2, <2>3 DEF TicketTyped
<1>2. DOMAIN messages = {} /\ mails = {}
  BY DEF Support!Init
<1>3. \A w \in Slots : Request(tasks[w])
  BY IdleRequest DEF Support!Init
<1>4. QED
  BY <1>1, <1>2, <1>3 DEF TicketInv, Posted, Mailed, Support!ClosedIsQuiet

\* The other requests rely on nothing a step takes away.
LEMMA OthersRequest ==
  ASSUME TicketInv, TicketsGrow, NEW w \in Slots, calls' \in Nat, closedAt' \in [Tickets -> Nat],
         \A v \in Slots \ {w} : tasks'[v] = tasks[v],
         Request(tasks[w])'
  PROVE  \A v \in Slots : Request(tasks[v])'
<1> SUFFICES ASSUME NEW v \in Slots \ {w} PROVE Request(tasks[v])'
  OBVIOUS
<1>1. PICK q \in TicketTask : q = tasks[v]
  BY DEF TicketInv, TicketTyped
<1>2. Request(q) /\ tasks'[v] = q
  BY <1>1 DEF TicketInv
<1>3. q # Support!Idle => q.ticket \in Tickets /\ q.call <= calls'
  BY <1>2 DEF Request, TicketsGrow, TicketInv, TicketTyped, TicketTask
<1>4. \A f \in 1..q.saved : <<q.call, f>> \in stored'
  BY <1>2 DEF Request, TicketsGrow
<1>5. ASSUME q.step \in {"files", "insert"}
      PROVE  q.own = 0 /\ q.by \in Sender /\ (status'[q.ticket] = "closed" => q.call <= closedAt'[q.ticket])
  <2>1. q # Support!Idle
    BY <1>5 DEF Support!Idle
  <2>2. q.ticket \in Tickets /\ q.call <= calls /\ q.call \in Nat /\ calls \in Nat
    BY <2>1, <1>2 DEF Request, TicketInv, TicketTyped, TicketTask
  <2>3. QED
    BY <2>2, <1>2, <1>5 DEF Request, TicketsGrow
<1>6. q.own # 0 =>
        /\ q.own \in DOMAIN messages' /\ messages'[q.own].files = 1..q.files
        /\ messages'[q.own].ticket = q.ticket /\ messages'[q.own].by = q.by
  BY <1>2 DEF Request, TicketsGrow
<1>7. QED
  BY <1>2, <1>3, <1>4, <1>5, <1>6 DEF Request

\* Messages and mails stay as they were when a step inserts none.
LEMMA SameMessages ==
  ASSUME TicketInv, TicketsGrow, messages' = messages, TicketTyped'
  PROVE  Posted' /\ Support!ClosedIsQuiet' /\ (mails' = mails => Mailed')
<1>1. ASSUME NEW n \in DOMAIN messages
      PROVE  messages[n] \in TicketMessage /\ messages[n].call <= calls /\ messages[n].call \in Nat
  BY TheMessages DEF TicketInv, Posted, TicketMessage
<1>2. Posted'
  <2> SUFFICES ASSUME NEW n \in DOMAIN messages
               PROVE  messages[n].call <= calls' /\ \A f \in messages[n].files : <<messages[n].call, f>> \in stored'
    BY DEF Posted
  <2>1. calls <= calls' /\ calls \in Nat /\ calls' \in Nat
    BY DEF TicketsGrow, TicketInv, TicketTyped
  <2>2. QED
    BY <2>1, <1>1 DEF TicketInv, Posted, TicketsGrow
<1>3. Support!ClosedIsQuiet'
  <2> SUFFICES ASSUME NEW t \in Tickets, status'[t] = "closed", NEW n \in DOMAIN messages, messages[n].ticket = t
               PROVE  messages[n].call <= closedAt'[t]
    BY DEF Support!ClosedIsQuiet
  <2>1. closedAt'[t] \in Nat /\ calls \in Nat
    BY DEF TicketTyped, TicketInv
  <2>2. QED
    BY <2>1, <1>1 DEF TicketsGrow, TicketInv, Support!ClosedIsQuiet
<1>4. mails' = mails => Mailed'
  BY DEF TicketInv, Mailed
<1>5. QED
  BY <1>2, <1>3, <1>4

\* A request that begins, possibly by opening a ticket.
LEMMA TicketBegins ==
  ASSUME TicketParameters, TicketInv, NEW w \in Slots, Support!Begin(w), NEW t \in Tickets, NEW q \in TicketTask,
         Support!Become(w, q), q.call = calls + 1, q.ticket = t, q.own = 0, q.saved = 0,
         q.step \in {"files", "copy", "insert", "select"},
         q.step = "files" => q.files > 0,
         q.step = "insert" => q.files = 0,
         q.step \in {"files", "insert"} => q.by \in Sender /\ status'[t] # "closed",
         q.step = "select" => q.by = "patch",
         status' = status \/ status' = [status EXCEPT ![t] = "open"],
         UNCHANGED <<messages, stored, closedAt, mails, answered, faults>>
  PROVE  TicketInv'
<1>1. calls' = calls + 1 /\ overlaps' \in BOOLEAN
  BY DEF Support!Begin, TicketInv, TicketTyped
<1>2. tasks'[w] = q /\ tasks' \in [Slots -> TicketTask] /\ \A v \in Slots \ {w} : tasks'[v] = tasks[v]
  BY DEF Support!Become, TicketInv, TicketTyped
<1>3. TicketTyped'
  BY <1>1, <1>2 DEF TicketInv, TicketTyped, Support!Statuses
<1>4. TicketsGrow
  BY <1>1 DEF TicketsGrow, TicketInv, TicketTyped
<1>5. Request(tasks[w])'
  <2>1. 1..0 = {} /\ calls + 1 <= calls'
    BY <1>1 DEF TicketInv, TicketTyped
  <2>2. QED
    BY <2>1, <1>2 DEF Request
<1>6. \A v \in Slots : Request(tasks[v])'
  BY <1>2, <1>3, <1>4, <1>5, OthersRequest DEF TicketTyped
<1>7. QED
  BY <1>3, <1>4, <1>6, SameMessages DEF TicketInv

LEMMA TicketFile == ASSUME TicketInv, NEW w \in Slots, Support!SaveFile(w) PROVE TicketInv'
<1>1. PICK q \in TicketTask : q = tasks[w]
  BY DEF TicketInv, TicketTyped
<1>2. q.step = "files" /\ Request(q) /\ q # Support!Idle
  BY <1>1 DEF Support!SaveFile, Support!At, TicketInv, Support!Idle
<1>3. PICK k \in Nat : k = q.saved /\ k < q.files
  BY <1>2 DEF Request, TicketTask
<1>4. PICK t : t = [q EXCEPT !.saved = k + 1, !.step = IF k + 1 = q.files THEN "insert" ELSE @]
  OBVIOUS
<1>5. /\ stored' = stored \cup {<<q.call, k + 1>>}
      /\ tasks' = [tasks EXCEPT ![w] = t]
      /\ UNCHANGED <<status, messages, closedAt, mails, answered, calls, faults, overlaps>>
  BY <1>1, <1>3, <1>4 DEF Support!SaveFile, Support!Become
<1>6. k + 1 \in Nat /\ "insert" \in TicketSteps /\ "files" \in TicketSteps
  BY DEF TicketSteps
<1>7. /\ t \in TicketTask /\ t.saved = k + 1 /\ t.files = q.files /\ t.call = q.call /\ t.ticket = q.ticket
      /\ t.own = q.own /\ t.by = q.by
      /\ t.step = IF k + 1 = q.files THEN "insert" ELSE "files"
  BY <1>2, <1>4, <1>6 DEF TicketTask
<1>8. tasks'[w] = t /\ tasks' \in [Slots -> TicketTask] /\ \A v \in Slots \ {w} : tasks'[v] = tasks[v]
  BY <1>5, <1>7 DEF TicketInv, TicketTyped
<1>9. TicketTyped'
  BY <1>5, <1>8 DEF TicketInv, TicketTyped
<1>10. TicketsGrow
  BY <1>5 DEF TicketsGrow, TicketInv, TicketTyped
<1>11. Request(t)'
  <2>1. \A f \in 1..(k + 1) : <<q.call, f>> \in stored'
    <3>1. ASSUME NEW f \in 1..(k + 1) PROVE f = k + 1 \/ f \in 1..k
      OBVIOUS
    <3>2. QED
      BY <3>1, <1>2, <1>3, <1>5 DEF Request
  <2>2. t.step = "files" => t.saved < t.files
    BY <1>3, <1>7 DEF TicketTask
  <2>3. t # Support!Idle => t.ticket \in Tickets /\ t.call <= calls'
    BY <1>2, <1>5, <1>7 DEF Request
  <2>4. t.own = 0 /\ t.by \in Sender /\ (status'[t.ticket] = "closed" => t.call <= closedAt'[t.ticket])
    BY <1>2, <1>5, <1>7 DEF Request
  <2>5. t.step \notin {"select", "write", "notify"} /\ (t.step = "insert" => t.saved = t.files)
    BY <1>7
  <2>6. QED
    BY <2>1, <2>2, <2>3, <2>4, <2>5, <1>7 DEF Request
<1>12. \A v \in Slots : Request(tasks[v])'
  BY <1>8, <1>9, <1>10, <1>11, OthersRequest DEF TicketTyped
<1>13. QED
  BY <1>5, <1>9, <1>10, <1>12, SameMessages DEF TicketInv

\* The row of a message, after all of its files.
LEMMA TicketInsert == ASSUME TicketInv, NEW w \in Slots, Support!InsertMessage(w) PROVE TicketInv'
<1>1. PICK q \in TicketTask : q = tasks[w]
  BY DEF TicketInv, TicketTyped
<1>2. q.step = "insert" /\ Request(q) /\ q # Support!Idle
  BY <1>1 DEF Support!InsertMessage, Support!At, TicketInv, Support!Idle
<1>3. PICK len \in Nat : len = Len(messages) /\ DOMAIN messages = 1..len
  BY TheMessages DEF TicketInv
<1>4. PICK m : m = [ticket |-> q.ticket, by |-> q.by, call |-> q.call, files |-> 1..q.saved]
  OBVIOUS
<1>5. PICK next : next = Support!AfterInsert(q)
  OBVIOUS
<1>6. PICK t : t = [q EXCEPT !.step = next, !.own = len + 1]
  OBVIOUS
<1>7. /\ messages' = Append(messages, m)
      /\ tasks' = [tasks EXCEPT ![w] = t]
      /\ UNCHANGED <<status, stored, closedAt, mails, answered, calls, faults, overlaps>>
  BY <1>1, <1>3, <1>4, <1>5, <1>6 DEF Support!InsertMessage, Support!Become
<1>8. /\ q.ticket \in Tickets /\ q.by \in Sender /\ q.call \in Nat /\ q.saved \in Nat /\ q.saved = q.files
      /\ q.call <= calls /\ (status[q.ticket] = "closed" => q.call <= closedAt[q.ticket])
  BY <1>2 DEF Request, TicketTask
<1>9. m \in TicketMessage /\ m.ticket = q.ticket /\ m.by = q.by /\ m.call = q.call /\ m.files = 1..q.files
  BY <1>4, <1>8 DEF TicketMessage
<1>10. /\ messages' \in Seq(TicketMessage) /\ DOMAIN messages' = 1..(len + 1) /\ messages'[len + 1] = m
       /\ \A n \in 1..len : messages'[n] = messages[n]
  <2> HIDE DEF TicketMessage
  <2>1. messages \in Seq(TicketMessage)
    BY DEF TicketInv, TicketTyped
  <2>2. QED
    BY <2>1, <1>3, <1>7, <1>9
<1>11. next \in {"copy", "select", "notify", "answer"} /\ (next = "notify" => q.by = "platform")
  BY <1>5 DEF Support!AfterInsert
<1>12. next \in TicketSteps /\ len + 1 \in Nat
  BY <1>11 DEF TicketSteps
<1>13. /\ t \in TicketTask /\ t.step = next /\ t.own = len + 1 /\ t.call = q.call /\ t.ticket = q.ticket
       /\ t.by = q.by /\ t.files = q.files /\ t.saved = q.saved
  BY <1>6, <1>12 DEF TicketTask
<1>14. tasks'[w] = t /\ tasks' \in [Slots -> TicketTask] /\ \A v \in Slots \ {w} : tasks'[v] = tasks[v]
  BY <1>7, <1>13 DEF TicketInv, TicketTyped
<1>15. TicketTyped'
  BY <1>7, <1>10, <1>14 DEF TicketInv, TicketTyped
<1>16. TicketsGrow
  BY <1>3, <1>7, <1>10 DEF TicketsGrow, TicketInv, TicketTyped
<1>17. Request(t)'
  <2>1. t.own \in DOMAIN messages' /\ messages'[t.own] = m
    BY <1>10, <1>13
  <2>2. \A f \in 1..t.saved : <<t.call, f>> \in stored'
    BY <1>2, <1>7, <1>13 DEF Request
  <2>3. t.own # 0
    BY <1>13
  <2>4. QED
    BY <2>1, <2>2, <2>3, <1>7, <1>8, <1>9, <1>11, <1>13 DEF Request
<1>18. \A v \in Slots : Request(tasks[v])'
  BY <1>14, <1>15, <1>16, <1>17, OthersRequest DEF TicketTyped
<1>19. Posted'
  <2>1. m.call <= calls /\ \A f \in m.files : <<m.call, f>> \in stored
    BY <1>2, <1>8, <1>9 DEF Request
  <2>2. ASSUME NEW n \in 1..(len + 1) PROVE n = len + 1 \/ n \in 1..len
    OBVIOUS
  <2>3. QED
    BY <2>1, <2>2, <1>3, <1>7, <1>10 DEF Posted, TicketInv
<1>20. Mailed'
  <2>1. DOMAIN messages \subseteq DOMAIN messages' /\ \A n \in DOMAIN messages : messages'[n] = messages[n]
    BY <1>16 DEF TicketsGrow
  <2>2. QED
    BY <2>1, <1>7 DEF Mailed, TicketInv
<1>21. Support!ClosedIsQuiet'
  <2> SUFFICES ASSUME NEW s \in Tickets, status'[s] = "closed", NEW n \in DOMAIN messages',
                      messages'[n].ticket = s
               PROVE  messages'[n].call <= closedAt'[s]
    BY DEF Support!ClosedIsQuiet
  <2>1. CASE n \in DOMAIN messages
    BY <2>1, <1>3, <1>7, <1>10 DEF TicketInv, Support!ClosedIsQuiet
  <2>2. CASE n = len + 1
    BY <2>2, <1>7, <1>8, <1>9, <1>10
  <2>3. n \in DOMAIN messages \/ n = len + 1
    BY <1>3, <1>10
  <2>4. QED
    BY <2>1, <2>2, <2>3
<1>22. QED
  BY <1>15, <1>18, <1>19, <1>20, <1>21 DEF TicketInv

LEMMA TicketSelect == ASSUME TicketInv, NEW w \in Slots, Support!SelectTicket(w) PROVE TicketInv'
<1>1. PICK q \in TicketTask : q = tasks[w]
  BY DEF TicketInv, TicketTyped
<1>2. q.step = "select" /\ Request(q) /\ q # Support!Idle
  BY <1>1 DEF Support!SelectTicket, Support!At, TicketInv, Support!Idle
<1>3. PICK old \in Support!Statuses \cup {None} : old = status[q.ticket]
  BY <1>2 DEF Request, TicketInv, TicketTyped
<1>4. PICK t : t = [q EXCEPT !.step = "write", !.was = old]
  OBVIOUS
<1>5. /\ tasks' = [tasks EXCEPT ![w] = t]
      /\ UNCHANGED <<status, messages, stored, closedAt, mails, answered, calls, faults, overlaps>>
  BY <1>1, <1>3, <1>4 DEF Support!SelectTicket, Support!Become
<1>6. "write" \in TicketSteps
  BY DEF TicketSteps
<1>7. /\ t \in TicketTask /\ t.step = "write" /\ t.own = q.own /\ t.call = q.call /\ t.ticket = q.ticket
      /\ t.by = q.by /\ t.files = q.files /\ t.saved = q.saved
  BY <1>4, <1>6 DEF TicketTask
<1>8. tasks'[w] = t /\ tasks' \in [Slots -> TicketTask] /\ \A v \in Slots \ {w} : tasks'[v] = tasks[v]
  BY <1>5, <1>7 DEF TicketInv, TicketTyped
<1>9. TicketTyped' /\ TicketsGrow
  BY <1>5, <1>8 DEF TicketInv, TicketTyped, TicketsGrow
<1>10. Request(t)'
  BY <1>2, <1>5, <1>7 DEF Request
<1>11. \A v \in Slots : Request(tasks[v])'
  BY <1>8, <1>9, <1>10, OthersRequest DEF TicketTyped
<1>12. QED
  BY <1>5, <1>9, <1>11, SameMessages DEF TicketInv

LEMMA SavedStatus ==
  ASSUME TicketParameters, NEW x \in Support!Statuses \cup {None}, NEW y \in Support!Statuses \cup {None}, NEW z
  PROVE  Support!EntitySave!Saved([status |-> x], [status |-> y], [status |-> z]).status
            = IF z = y THEN x ELSE z
  BY DEF TicketParameters, Support!EntitySave!Saved, Support!EntitySave!Merge

\* A ticket found closed is found so after every request that has begun.
LEMMA TicketWrite ==
  ASSUME TicketParameters, TicketInv, NEW w \in Slots, Support!WriteTicket(w) PROVE TicketInv'
<1>1. PICK q \in TicketTask : q = tasks[w]
  BY DEF TicketInv, TicketTyped
<1>2. q.step = "write" /\ Request(q) /\ q # Support!Idle
  BY <1>1 DEF Support!WriteTicket, Support!At, TicketInv, Support!Idle
<1>3. q.ticket \in Tickets
  BY <1>2 DEF Request
<1>4. Support!NewStatus(q) \in Support!Statuses \cup {None}
  BY DEF Support!NewStatus, TicketTask, Support!Statuses
<1>5. PICK new \in Support!Statuses \cup {None} :
        new = Support!EntitySave!Saved([status |-> status[q.ticket]], [status |-> q.was],
                                       [status |-> Support!NewStatus(q)]).status
  <2>1. status[q.ticket] \in Support!Statuses \cup {None} /\ q.was \in Support!Statuses \cup {None}
    BY <1>3 DEF TicketInv, TicketTyped, TicketTask
  <2>2. QED
    BY <2>1, <1>4, SavedStatus
<1>6. PICK t : t = [q EXCEPT !.step = "notify"]
  OBVIOUS
<1>7. /\ status' = [status EXCEPT ![q.ticket] = new]
      /\ closedAt' = IF new = "closed" THEN [closedAt EXCEPT ![q.ticket] = calls] ELSE closedAt
      /\ IF q.by = "platform" THEN tasks' = [tasks EXCEPT ![w] = t]
         ELSE tasks' = [tasks EXCEPT ![w] = Support!Idle]
      /\ UNCHANGED <<messages, stored, mails, calls, faults, overlaps>>
  BY <1>1, <1>5, <1>6 DEF Support!WriteTicket, Support!Become, Support!Move, Support!Answer
<1>8. "notify" \in TicketSteps
  BY DEF TicketSteps
<1>9. /\ t \in TicketTask /\ t.step = "notify" /\ t.own = q.own /\ t.call = q.call /\ t.ticket = q.ticket
      /\ t.by = q.by /\ t.files = q.files /\ t.saved = q.saved
  BY <1>6, <1>8 DEF TicketTask
<1>10. /\ tasks' \in [Slots -> TicketTask] /\ \A v \in Slots \ {w} : tasks'[v] = tasks[v]
       /\ IF q.by = "platform" THEN tasks'[w] = t ELSE tasks'[w] = Support!Idle
  BY <1>7, <1>9, TicketIdle DEF TicketInv, TicketTyped
<1>11. /\ status' \in [Tickets -> Support!Statuses \cup {None}] /\ closedAt' \in [Tickets -> Nat]
       /\ \A s \in Tickets \ {q.ticket} : status'[s] = status[s] /\ closedAt'[s] = closedAt[s]
       /\ status'[q.ticket] = new /\ (new = "closed" => closedAt'[q.ticket] = calls)
  BY <1>3, <1>7 DEF TicketInv, TicketTyped
<1>12. TicketTyped'
  BY <1>7, <1>10, <1>11 DEF TicketInv, TicketTyped
<1>13. TicketsGrow
  <2>1. calls <= calls
    BY DEF TicketInv, TicketTyped
  <2>2. QED
    BY <2>1, <1>7, <1>11 DEF TicketsGrow
<1>14. Request(tasks[w])'
  <2>1. CASE q.by = "platform"
    <3>1. Request(t)'
      BY <2>1, <1>2, <1>7, <1>9 DEF Request
    <3>2. QED
      BY <2>1, <3>1, <1>10
  <2>2. CASE q.by # "platform"
    BY <2>2, <1>10, IdleRequestNext
  <2>3. QED
    BY <2>1, <2>2
<1>15. \A v \in Slots : Request(tasks[v])'
  BY <1>10, <1>12, <1>13, <1>14, OthersRequest DEF TicketTyped
<1>16. QED
  BY <1>7, <1>12, <1>13, <1>15, SameMessages DEF TicketInv

\* The mail shows the last reply to the ticket, which the request's own one precedes.
LEMMA ShowsLastReply ==
  ASSUME TicketTyped, NEW s, NEW own \in DOMAIN messages,
         messages[own].ticket = s, messages[own].by = "platform"
  PROVE  /\ Support!LastReply(s) \in DOMAIN messages /\ own <= Support!LastReply(s)
         /\ messages[Support!LastReply(s)].ticket = s /\ messages[Support!LastReply(s)].by = "platform"
<1> DEFINE R == {n \in DOMAIN messages : messages[n].ticket = s /\ messages[n].by = "platform"}
<1>1. DOMAIN messages = 1..Len(messages) /\ Len(messages) \in Nat
  BY TheMessages
<1>2. IsFiniteSet(R) /\ R \subseteq Int /\ R # {}
  <2>1. IsFiniteSet(1..Len(messages))
    BY <1>1, FS_Interval
  <2>2. R \subseteq 1..Len(messages)
    BY <1>1
  <2>3. QED
    BY <2>1, <2>2, FS_Subset
<1>3. PICK last \in R : \A n \in R : last >= n
  <2> HIDE DEF R
  <2>1. QED
    BY <1>2, MaxExists
<1>4. \A k \in (last + 1)..Len(messages) : ~(messages[k].ticket = s /\ messages[k].by = "platform")
  BY <1>1, <1>3
<1>5. \E n \in DOMAIN messages :
        /\ messages[n].ticket = s /\ messages[n].by = "platform"
        /\ \A k \in (n + 1)..Len(messages) : ~(messages[k].ticket = s /\ messages[k].by = "platform")
  BY <1>3, <1>4
<1>6. PICK n : n = Support!LastReply(s)
  OBVIOUS
<1>7. /\ n \in DOMAIN messages /\ messages[n].ticket = s /\ messages[n].by = "platform"
      /\ \A k \in (n + 1)..Len(messages) : ~(messages[k].ticket = s /\ messages[k].by = "platform")
  BY <1>5, <1>6 DEF Support!LastReply
<1>8. own <= n
  BY <1>1, <1>7
<1>9. QED
  BY <1>6, <1>7, <1>8

LEMMA TicketNotify == ASSUME TicketParameters, TicketInv, NEW w \in Slots, Support!Notify(w) PROVE TicketInv'
<1>1. PICK q \in TicketTask : q = tasks[w]
  BY DEF TicketInv, TicketTyped
<1>2. q.step = "notify" /\ Request(q) /\ q # Support!Idle
  BY <1>1 DEF Support!Notify, Support!At, TicketInv, Support!Idle
<1>3. PICK m : m = [own |-> q.own, shown |-> Support!LastReply(q.ticket)]
  OBVIOUS
<1>4. /\ mails' = mails \cup {m} /\ tasks' = [tasks EXCEPT ![w] = Support!Idle]
      /\ UNCHANGED <<status, messages, stored, closedAt, calls, faults, overlaps>>
  BY <1>1, <1>3 DEF Support!Notify, Support!Answer, Support!Become
<1>5. tasks'[w] = Support!Idle /\ tasks' \in [Slots -> TicketTask] /\ \A v \in Slots \ {w} : tasks'[v] = tasks[v]
  BY <1>4, TicketIdle DEF TicketInv, TicketTyped
<1>6. TicketTyped' /\ TicketsGrow
  BY <1>4, <1>5 DEF TicketInv, TicketTyped, TicketsGrow
<1>7. \A v \in Slots : Request(tasks[v])'
  BY <1>5, <1>6, IdleRequestNext, OthersRequest DEF TicketTyped
<1>8. Mailed'
  <2>1. q.own \in DOMAIN messages /\ messages[q.own].ticket = q.ticket /\ messages[q.own].by = "platform"
    BY <1>2 DEF Request
  <2>2. /\ m.own \in DOMAIN messages /\ m.shown \in DOMAIN messages /\ m.own <= m.shown
        /\ messages[m.shown].ticket = messages[m.own].ticket /\ messages[m.shown].by = "platform"
    BY <2>1, <1>3, ShowsLastReply DEF TicketInv
  <2>3. QED
    BY <2>2, <1>4 DEF TicketInv, Mailed
<1>9. QED
  BY <1>4, <1>6, <1>7, <1>8, SameMessages DEF TicketInv

\* A request that returns or is interrupted.
LEMMA TicketEnds ==
  ASSUME TicketParameters, TicketInv, NEW w \in Slots, tasks' = [tasks EXCEPT ![w] = Support!Idle],
         faults' \in Nat, UNCHANGED <<status, messages, stored, closedAt, mails, calls, overlaps>>
  PROVE  TicketInv'
<1>1. tasks'[w] = Support!Idle /\ tasks' \in [Slots -> TicketTask] /\ \A v \in Slots \ {w} : tasks'[v] = tasks[v]
  BY TicketIdle DEF TicketInv, TicketTyped
<1>2. TicketTyped' /\ TicketsGrow
  BY <1>1 DEF TicketInv, TicketTyped, TicketsGrow
<1>3. \A v \in Slots : Request(tasks[v])'
  BY <1>1, <1>2, IdleRequestNext, OthersRequest DEF TicketTyped
<1>4. QED
  BY <1>2, <1>3, SameMessages DEF TicketInv

LEMMA NextTickets ==
  ASSUME TicketParameters, TicketInv, [Support!Next]_Support!ticketVars PROVE TicketInv'
<1>1. Support!Idle \in TicketTask /\ Support!Idle.own = 0 /\ Support!Idle.saved = 0 /\ Support!Idle.files = 0
  BY TicketIdle DEF Support!Idle
<1>2. calls + 1 \in Nat /\ 0..MaxFiles \subseteq Nat
  BY DEF TicketInv, TicketTyped, TicketParameters
<1>3. {"files", "copy", "insert", "select"} \subseteq TicketSteps
  BY DEF TicketSteps
<1>4. ASSUME NEW w \in Slots, NEW t \in Tickets, NEW files \in 0..MaxFiles, Support!Create(w, t, files)
      PROVE  TicketInv'
  <2>1. PICK step : step = Support!FilesThen(files, "copy")
    OBVIOUS
  <2>2. step \in {"files", "copy"} /\ (step = "files" => files > 0)
    BY <2>1 DEF Support!FilesThen
  <2>3. PICK q : q = [Support!Idle EXCEPT !.step = step, !.call = calls + 1, !.ticket = t, !.by = "opener",
                                          !.files = files]
    OBVIOUS
  <2>4. /\ q \in TicketTask /\ q.step = step /\ q.call = calls + 1 /\ q.ticket = t /\ q.by = "opener"
        /\ q.files = files /\ q.own = 0 /\ q.saved = 0
    <3>1. step \in TicketSteps /\ files \in Nat /\ "opener" \in Sender
      BY <2>2, <1>2, <1>3 DEF Sender
    <3>2. QED
      BY <3>1, <2>3, <1>1, <1>2 DEF TicketTask
  <2>5. /\ Support!Begin(w) /\ Support!Become(w, q) /\ status' = [status EXCEPT ![t] = "open"]
        /\ UNCHANGED <<messages, stored, closedAt, mails, answered, faults>>
    BY <1>4, <2>1, <2>3 DEF Support!Create
  <2>6. status'[t] # "closed"
    BY <2>5 DEF TicketInv, TicketTyped
  <2>7. q.by \in Sender
    BY <2>4 DEF Sender
  <2>8. QED
    BY <2>2, <2>4, <2>5, <2>6, <2>7, TicketBegins
<1>5. ASSUME NEW w \in Slots, NEW t \in Tickets, NEW files \in 0..MaxFiles, NEW by \in {"account", "platform"},
             NEW text \in BOOLEAN, Support!PostMessage(w, t, by, text, files)
      PROVE  TicketInv'
  <2>1. PICK step : step = Support!FilesThen(files, "insert")
    OBVIOUS
  <2>2. step \in {"files", "insert"} /\ (step = "files" => files > 0) /\ (step = "insert" => files = 0)
    BY <2>1 DEF Support!FilesThen
  <2>3. PICK q : q = [Support!Idle EXCEPT !.step = step, !.call = calls + 1, !.ticket = t, !.by = by,
                                          !.files = files, !.seen = status[t]]
    OBVIOUS
  <2>4. /\ q \in TicketTask /\ q.step = step /\ q.call = calls + 1 /\ q.ticket = t /\ q.by = by
        /\ q.files = files /\ q.own = 0 /\ q.saved = 0
    <3>1. step \in TicketSteps /\ files \in Nat /\ by \in Sender
      BY <2>2, <1>2, <1>3 DEF Sender
    <3>2. status[t] \in Support!Statuses \cup {None}
      BY DEF TicketInv, TicketTyped
    <3>3. QED
      BY <3>1, <3>2, <2>3, <1>1, <1>2 DEF TicketTask
  <2>5. /\ Support!Begin(w) /\ Support!Become(w, q) /\ status' = status /\ status[t] # "closed"
        /\ UNCHANGED <<messages, stored, closedAt, mails, answered, faults>>
    BY <1>5, <2>1, <2>3 DEF Support!PostMessage, Support!TakesMessages
  <2>6. q.by \in Sender
    BY <2>4 DEF Sender
  <2>7. QED
    BY <2>2, <2>4, <2>5, <2>6, TicketBegins
<1>6. ASSUME NEW w \in Slots, NEW t \in Tickets, NEW new \in Support!Statuses, Support!PatchStatus(w, t, new)
      PROVE  TicketInv'
  <2>1. PICK q : q = [Support!Idle EXCEPT !.step = "select", !.call = calls + 1, !.ticket = t, !.by = "patch",
                                          !.seen = new]
    OBVIOUS
  <2>2. /\ q \in TicketTask /\ q.step = "select" /\ q.call = calls + 1 /\ q.ticket = t /\ q.by = "patch"
        /\ q.own = 0 /\ q.saved = 0
    BY <2>1, <1>1, <1>2, <1>3 DEF TicketTask
  <2>3. /\ Support!Begin(w) /\ Support!Become(w, q) /\ status' = status
        /\ UNCHANGED <<messages, stored, closedAt, mails, answered, faults>>
    BY <1>6, <2>1 DEF Support!PatchStatus
  <2>4. QED
    BY <2>2, <2>3, TicketBegins
<1>7. ASSUME NEW w \in Slots, Support!Finish(w) \/ Support!Fail(w) PROVE TicketInv'
  <2>1. tasks' = [tasks EXCEPT ![w] = Support!Idle] /\ faults' \in Nat
        /\ UNCHANGED <<status, messages, stored, closedAt, mails, calls, overlaps>>
    BY <1>7 DEF Support!Finish, Support!Fail, Support!Answer, Support!Become, TicketInv, TicketTyped
  <2>2. QED
    BY <2>1, TicketEnds
<1>8. CASE UNCHANGED Support!ticketVars
  BY <1>8 DEF Support!ticketVars, TicketInv, TicketTyped, Request, Posted, Mailed, Support!ClosedIsQuiet
<1>9. QED
  BY <1>4, <1>5, <1>6, <1>7, <1>8, TicketFile, TicketInsert, TicketSelect, TicketWrite, TicketNotify
     DEF Support!Next

LEMMA TicketInvariant == ASSUME TicketParameters PROVE Support!Spec => []TicketInv
<1>1. Support!Init => TicketInv
  BY InitTickets
<1>2. TicketInv /\ [Support!Next]_Support!ticketVars => TicketInv'
  BY NextTickets
<1>3. QED
  BY <1>1, <1>2, PTL DEF Support!Spec

\* MessagesComplete: whoever reads a message finds every file it names, although files are
\* written one by one, requests overlap and any of them may fail in between.
THEOREM TicketMessagesComplete == ASSUME TicketParameters PROVE Support!Spec => []Support!MessagesComplete
<1>1. TicketInv => Support!MessagesComplete
  BY DEF TicketInv, Posted, Request, Support!MessagesComplete
<1>2. QED
  BY <1>1, TicketInvariant, PTL

\* MailShowsReply: the mail looks the last reply up when it is written, so it shows the reply
\* it announces or a later one of the same ticket, whichever requests overlap.
THEOREM TicketMailsShowReply == ASSUME TicketParameters PROVE Support!Spec => []Support!MailShowsReply
<1>1. ASSUME TicketInv PROVE Support!MailShowsReply
  <2> SUFFICES ASSUME NEW m \in mails PROVE m.shown >= m.own
    BY <1>1 DEF TicketInv, Mailed, Support!MailShowsReply
  <2>1. m.own \in Nat /\ m.shown \in Nat /\ m.own <= m.shown
    BY <1>1, TheMessages DEF TicketInv, Mailed
  <2>2. QED
    BY <2>1
<1>2. QED
  BY <1>1, TicketInvariant, PTL

\* ClosedIsQuiet: a message can still reach a closed ticket, but only from a request that
\* had found it open before.
THEOREM ClosedTicketsQuiet == ASSUME TicketParameters PROVE Support!Spec => []Support!ClosedIsQuiet
<1>1. TicketInv => Support!ClosedIsQuiet
  BY DEF TicketInv
<1>2. QED
  BY <1>1, TicketInvariant, PTL

\* While requests do not overlap there is one, its message is the only one of its number,
\* and what it read of the ticket is still there.
Serial(q) ==
    q # Support!Idle =>
        /\ q.call = calls
        /\ q.own = 0 => \A n \in DOMAIN messages : messages[n].call # calls
        /\ q.own # 0 => \A n \in DOMAIN messages : messages[n].call = calls => n = q.own
        /\ q.step \in {"files", "insert"} /\ q.by = "platform" => q.seen = status[q.ticket]
        /\ q.step = "write" => q.was = status[q.ticket]
        /\ q.by = "patch" => q.own = 0 /\ q.step \in {"select", "write"}

\* The reply of the last request has been taken up, or is about to be.
Awaited ==
    \A n \in DOMAIN messages :
        messages[n].by = "platform" /\ messages[n].call = calls =>
            \/ status[messages[n].ticket] # "open"
            \/ \E w \in Slots :
                tasks[w].own = n /\ tasks[w].by = "platform" /\ tasks[w].step \in {"select", "write"}

Taken ==
    ~ overlaps =>
        /\ \A v, w \in Slots : tasks[v] # Support!Idle /\ tasks[w] # Support!Idle => v = w
        /\ \A w \in Slots : Serial(tasks[w])
        /\ faults = 0 => Awaited

LEMMA TakenStep ==
  ASSUME Taken, NEW w \in Slots, tasks[w] # Support!Idle, overlaps' = overlaps,
         \A v \in Slots \ {w} : tasks'[v] = tasks[v],
         ~ overlaps => Serial(tasks[w])',
         ~ overlaps /\ faults' = 0 => Awaited'
  PROVE  Taken'
<1> SUFFICES ASSUME ~ overlaps
             PROVE  /\ \A u, v \in Slots : tasks'[u] # Support!Idle /\ tasks'[v] # Support!Idle => u = v
                    /\ \A v \in Slots : Serial(tasks[v])'
                    /\ faults' = 0 => Awaited'
  BY DEF Taken
<1>1. \A v \in Slots \ {w} : tasks'[v] = Support!Idle
  BY DEF Taken
<1>2. \A v \in Slots \ {w} : Serial(tasks[v])'
  BY <1>1 DEF Serial
<1>3. QED
  BY <1>1, <1>2

\* The only request that can be about to take a reply up is the one that moves.
LEMMA NobodyElse ==
  ASSUME TicketParameters, Taken, ~ overlaps, NEW w \in Slots, tasks[w] # Support!Idle, faults = 0,
         tasks[w].step \notin {"select", "write"} \/ tasks[w].by # "platform"
  PROVE  \A n \in DOMAIN messages :
            messages[n].by = "platform" /\ messages[n].call = calls => status[messages[n].ticket] # "open"
<1>1. \A v \in Slots \ {w} : tasks[v] = Support!Idle
  BY DEF Taken
<1>2. QED
  BY <1>1, TicketIdle DEF Taken, Awaited

LEMMA TakenBegins ==
  ASSUME TicketParameters, TicketInv, Taken, NEW w \in Slots, Support!Begin(w), NEW t \in Tickets,
         NEW q \in TicketTask,
         Support!Become(w, q), q.call = calls + 1, q.own = 0, q.ticket = t,
         q.step \in {"files", "copy", "insert", "select"},
         q.step \in {"files", "insert"} /\ q.by = "platform" => q.seen = status'[t],
         q.by = "patch" => q.step = "select",
         UNCHANGED messages
  PROVE  Taken'
<1>1. calls' = calls + 1 /\ calls \in Nat /\ (~ overlaps' => \A v \in Slots \ {w} : tasks[v] = Support!Idle)
  BY DEF Support!Begin, TicketInv, TicketTyped
<1>2. tasks'[w] = q /\ \A v \in Slots \ {w} : tasks'[v] = tasks[v]
  BY DEF Support!Become, TicketInv, TicketTyped
<1>3. \A n \in DOMAIN messages : messages[n].call # calls'
  <2> SUFFICES ASSUME NEW n \in DOMAIN messages PROVE messages[n].call # calls'
    OBVIOUS
  <2>1. messages[n].call \in Nat /\ messages[n].call <= calls
    BY TheMessages DEF TicketInv, Posted, TicketMessage
  <2>2. QED
    BY <2>1, <1>1
<1>4. Serial(q)'
  BY <1>1, <1>3 DEF Serial
<1>5. Awaited'
  BY <1>3 DEF Awaited
<1>6. ~ overlaps' => \A v \in Slots \ {w} : tasks'[v] = Support!Idle /\ Serial(tasks[v])'
  BY <1>1, <1>2 DEF Serial
<1>7. QED
  BY <1>2, <1>4, <1>5, <1>6 DEF Taken

LEMMA TakenFile == ASSUME TicketParameters, TicketInv, Taken, NEW w \in Slots, Support!SaveFile(w) PROVE Taken'
<1>1. PICK q \in TicketTask : q = tasks[w]
  BY DEF TicketInv, TicketTyped
<1>2. q.step = "files" /\ q # Support!Idle
  BY <1>1 DEF Support!SaveFile, Support!At, Support!Idle
<1>3. PICK t : t = [q EXCEPT !.saved = @ + 1, !.step = IF q.saved + 1 = q.files THEN "insert" ELSE @]
  OBVIOUS
<1>4. /\ t.call = q.call /\ t.ticket = q.ticket /\ t.own = q.own /\ t.by = q.by /\ t.seen = q.seen
      /\ t.step \in {"files", "insert"}
  BY <1>2, <1>3 DEF TicketTask
<1>5. UNCHANGED <<status, messages, closedAt, mails, answered, calls, faults, overlaps>>
  BY DEF Support!SaveFile
<1>6. tasks'[w] = t /\ \A v \in Slots \ {w} : tasks'[v] = tasks[v]
  BY <1>1, <1>3 DEF Support!SaveFile, Support!Become, TicketInv, TicketTyped
<1>7. ~ overlaps => Serial(t)'
  <2> SUFFICES ASSUME ~ overlaps PROVE Serial(t)'
    OBVIOUS
  <2>1. Serial(q)
    BY <1>1 DEF Taken
  <2>2. QED
    BY <2>1, <1>2, <1>4, <1>5 DEF Serial
<1>8. ~ overlaps /\ faults' = 0 => Awaited'
  BY <1>1, <1>2, <1>5, NobodyElse DEF Awaited
<1>9. QED
  BY <1>1, <1>2, <1>5, <1>6, <1>7, <1>8, TakenStep

LEMMA TakenInsert ==
  ASSUME TicketParameters, TicketInv, Taken, NEW w \in Slots, Support!InsertMessage(w) PROVE Taken'
<1>1. PICK q \in TicketTask : q = tasks[w]
  BY DEF TicketInv, TicketTyped
<1>2. q.step = "insert" /\ q # Support!Idle /\ Request(q) /\ q.own = 0 /\ q.by \in Sender
  BY <1>1 DEF Support!InsertMessage, Support!At, Support!Idle, TicketInv, Request
<1>3. PICK len \in Nat : len = Len(messages) /\ DOMAIN messages = 1..len
  BY TheMessages DEF TicketInv
<1>4. PICK m : m = [ticket |-> q.ticket, by |-> q.by, call |-> q.call, files |-> 1..q.saved]
  OBVIOUS
<1>5. PICK next : next = Support!AfterInsert(q)
  OBVIOUS
<1>6. PICK t : t = [q EXCEPT !.step = next, !.own = len + 1]
  OBVIOUS
<1>7. /\ messages' = Append(messages, m)
      /\ UNCHANGED <<status, stored, closedAt, mails, answered, calls, faults, overlaps>>
  BY <1>1, <1>4 DEF Support!InsertMessage
<1>8. tasks'[w] = t /\ \A v \in Slots \ {w} : tasks'[v] = tasks[v]
  BY <1>1, <1>3, <1>5, <1>6 DEF Support!InsertMessage, Support!Become, TicketInv, TicketTyped
<1>9. m.ticket = q.ticket /\ m.by = q.by /\ m.call = q.call
  BY <1>4
<1>10. t.step = next /\ t.own = len + 1 /\ t.call = q.call /\ t.ticket = q.ticket /\ t.by = q.by
  BY <1>6 DEF TicketTask
<1>11. next \in {"copy", "select", "notify", "answer"}
       /\ (q.by = "platform" /\ q.seen = "open" => next = "select")
  BY <1>5 DEF Support!AfterInsert
<1>12. DOMAIN messages' = 1..(len + 1) /\ messages'[len + 1] = m
       /\ \A n \in 1..len : messages'[n] = messages[n]
  BY <1>3, <1>7 DEF TicketInv, TicketTyped
<1>13. \A n \in DOMAIN messages' : n = len + 1 \/ (n \in DOMAIN messages /\ messages'[n] = messages[n])
  BY <1>3, <1>12
<1>14. ASSUME ~ overlaps PROVE Serial(q) /\ \A n \in DOMAIN messages : messages[n].call # calls
  BY <1>1, <1>2, <1>14 DEF Taken, Serial
<1>15. ~ overlaps => Serial(t)'
  <2> SUFFICES ASSUME ~ overlaps PROVE Serial(t)'
    OBVIOUS
  <2>1. t.call = calls' /\ t.own # 0
    BY <1>2, <1>7, <1>10, <1>14 DEF Serial
  <2>2. \A n \in DOMAIN messages' : messages'[n].call = calls' => n = t.own
    BY <1>7, <1>10, <1>13, <1>14
  <2>3. t.step \notin {"files", "insert", "write"} /\ t.by # "patch"
    BY <1>2, <1>10, <1>11 DEF Sender
  <2>4. QED
    BY <2>1, <2>2, <2>3 DEF Serial
<1>16. ~ overlaps /\ faults' = 0 => Awaited'
  <2> SUFFICES ASSUME ~ overlaps, NEW n \in DOMAIN messages', messages'[n].by = "platform",
                      messages'[n].call = calls', status'[messages'[n].ticket] = "open"
               PROVE  tasks'[w].own = n /\ tasks'[w].by = "platform" /\ tasks'[w].step \in {"select", "write"}
    BY DEF Awaited
  <2>1. n = len + 1
    BY <1>7, <1>13, <1>14
  <2>2. q.by = "platform" /\ status[q.ticket] = "open"
    BY <2>1, <1>7, <1>9, <1>12
  <2>3. q.seen = "open"
    BY <2>2, <1>2, <1>14 DEF Serial
  <2>4. QED
    BY <2>1, <2>2, <2>3, <1>8, <1>10, <1>11
<1>17. QED
  BY <1>1, <1>2, <1>7, <1>8, <1>15, <1>16, TakenStep

LEMMA TakenSelect ==
  ASSUME TicketParameters, TicketInv, Taken, NEW w \in Slots, Support!SelectTicket(w) PROVE Taken'
<1>1. PICK q \in TicketTask : q = tasks[w]
  BY DEF TicketInv, TicketTyped
<1>2. q.step = "select" /\ q # Support!Idle /\ Request(q)
  BY <1>1 DEF Support!SelectTicket, Support!At, Support!Idle, TicketInv
<1>3. PICK old : old = status[q.ticket]
  OBVIOUS
<1>4. PICK t : t = [q EXCEPT !.step = "write", !.was = old]
  OBVIOUS
<1>5. UNCHANGED <<status, messages, stored, closedAt, mails, answered, calls, faults, overlaps>>
  BY DEF Support!SelectTicket
<1>6. tasks'[w] = t /\ \A v \in Slots \ {w} : tasks'[v] = tasks[v]
  BY <1>1, <1>3, <1>4 DEF Support!SelectTicket, Support!Become, TicketInv, TicketTyped
<1>7. /\ t.call = q.call /\ t.ticket = q.ticket /\ t.own = q.own /\ t.by = q.by /\ t.was = old
      /\ t.step = "write"
  BY <1>4 DEF TicketTask
<1>8. ~ overlaps => Serial(t)'
  <2> SUFFICES ASSUME ~ overlaps PROVE Serial(t)'
    OBVIOUS
  <2>1. Serial(q)
    BY <1>1 DEF Taken
  <2>2. QED
    BY <2>1, <1>2, <1>3, <1>5, <1>7 DEF Serial
<1>9. ~ overlaps /\ faults' = 0 => Awaited'
  <2> SUFFICES ASSUME ~ overlaps, faults = 0, NEW n \in DOMAIN messages, messages[n].by = "platform",
                      messages[n].call = calls, status[messages[n].ticket] = "open"
               PROVE  tasks'[w].own = n /\ tasks'[w].by = "platform" /\ tasks'[w].step \in {"select", "write"}
    BY <1>5 DEF Awaited
  <2>1. q.by = "platform"
    BY <1>1, <1>2, NobodyElse
  <2>2. q.own = n
    <3>1. Serial(q) /\ q.own # 0
      BY <2>1, <1>1, <1>2 DEF Taken, Request
    <3>2. QED
      BY <3>1, <1>2 DEF Serial
  <2>3. QED
    BY <2>1, <2>2, <1>6, <1>7
<1>10. QED
  BY <1>1, <1>2, <1>5, <1>6, <1>8, <1>9, TakenStep

\* A reply leaves the ticket taken up, and nothing else answers to the number of a request.
LEMMA TakenWrite ==
  ASSUME TicketParameters, TicketInv, Taken, NEW w \in Slots, Support!WriteTicket(w) PROVE Taken'
<1>1. PICK q \in TicketTask : q = tasks[w]
  BY DEF TicketInv, TicketTyped
<1>2. q.step = "write" /\ q # Support!Idle /\ Request(q)
  BY <1>1 DEF Support!WriteTicket, Support!At, Support!Idle, TicketInv
<1>3. q.ticket \in Tickets
  BY <1>2 DEF Request
<1>4. PICK new : new = Support!EntitySave!Saved([status |-> status[q.ticket]], [status |-> q.was],
                                                [status |-> Support!NewStatus(q)]).status
  OBVIOUS
<1>5. PICK t : t = [q EXCEPT !.step = "notify"]
  OBVIOUS
<1>6. /\ status' = [status EXCEPT ![q.ticket] = new]
      /\ IF q.by = "platform" THEN tasks' = [tasks EXCEPT ![w] = t]
         ELSE tasks' = [tasks EXCEPT ![w] = Support!Idle]
      /\ UNCHANGED <<messages, stored, mails, calls, faults, overlaps>>
  BY <1>1, <1>4, <1>5 DEF Support!WriteTicket, Support!Become, Support!Move, Support!Answer
<1>7. /\ t.call = q.call /\ t.ticket = q.ticket /\ t.own = q.own /\ t.by = q.by /\ t.step = "notify"
  BY <1>5 DEF TicketTask
<1>8. /\ \A v \in Slots \ {w} : tasks'[v] = tasks[v]
      /\ IF q.by = "platform" THEN tasks'[w] = t ELSE tasks'[w] = Support!Idle
  BY <1>6 DEF TicketInv, TicketTyped
<1>9. status'[q.ticket] = new
  BY <1>3, <1>6 DEF TicketInv, TicketTyped
<1>10. ASSUME ~ overlaps PROVE Serial(q)
  BY <1>1, <1>10 DEF Taken
<1>11. ASSUME ~ overlaps PROVE Serial(tasks[w])'
  <2>1. CASE q.by = "platform"
    <3>1. Serial(t)'
      BY <2>1, <1>2, <1>6, <1>7, <1>10, <1>11 DEF Serial
    <3>2. QED
      BY <2>1, <3>1, <1>8
  <2>2. CASE q.by # "platform"
    BY <2>2, <1>8 DEF Serial
  <2>3. QED
    BY <2>1, <2>2
<1>12. ASSUME ~ overlaps, faults' = 0 PROVE Awaited'
  <2> SUFFICES ASSUME NEW n \in DOMAIN messages, messages[n].by = "platform", messages[n].call = calls
               PROVE  status'[messages[n].ticket] # "open"
    BY <1>6 DEF Awaited
  <2>1. q.own # 0 /\ n = q.own
    BY <1>2, <1>10, <1>12 DEF Serial
  <2>2. q.by = "platform" /\ messages[n].ticket = q.ticket
    BY <2>1, <1>2 DEF Request
  <2>3. q.was = status[q.ticket] /\ q.was \in Support!Statuses \cup {None}
    BY <1>2, <1>10, <1>12 DEF Serial, TicketTask
  <2>4. Support!NewStatus(q) = "in_progress"
    BY <2>2 DEF Support!NewStatus
  <2>5. new = "in_progress"
    BY <2>3, <2>4, <1>4, SavedStatus
  <2>6. QED
    BY <2>2, <2>5, <1>9
<1>13. QED
  BY <1>1, <1>2, <1>6, <1>8, <1>11, <1>12, TakenStep

LEMMA TakenEnds ==
  ASSUME TicketParameters, TicketInv, Taken, NEW w \in Slots, tasks[w] # Support!Idle,
         tasks' = [tasks EXCEPT ![w] = Support!Idle],
         tasks[w].step \in {"copy", "answer", "notify"} \/ faults' > 0,
         faults' = faults \/ faults' > 0,
         UNCHANGED <<status, messages, calls, overlaps>>
  PROVE  Taken'
<1>1. tasks'[w] = Support!Idle /\ \A v \in Slots \ {w} : tasks'[v] = tasks[v]
  BY DEF TicketInv, TicketTyped
<1>2. Serial(tasks[w])'
  BY <1>1 DEF Serial
<1>3. ASSUME ~ overlaps, faults' = 0 PROVE Awaited'
  <2>1. faults = 0 /\ tasks[w].step \in {"copy", "answer", "notify"}
    BY <1>3
  <2>2. QED
    BY <2>1, <1>3, NobodyElse DEF Awaited
<1>4. QED
  BY <1>1, <1>2, <1>3, TakenStep

LEMMA NextTaken ==
  ASSUME TicketParameters, TicketInv, Taken, [Support!Next]_Support!ticketVars PROVE Taken'
<1>1. Support!Idle \in TicketTask /\ Support!Idle.own = 0
  BY TicketIdle
<1>2. calls + 1 \in Nat /\ 0..MaxFiles \subseteq Nat
  BY DEF TicketInv, TicketTyped, TicketParameters
<1>3. {"files", "copy", "insert", "select"} \subseteq TicketSteps
  BY DEF TicketSteps
<1>4. ASSUME NEW w \in Slots, NEW t \in Tickets, NEW files \in 0..MaxFiles, Support!Create(w, t, files)
      PROVE  Taken'
  <2>1. PICK step : step = Support!FilesThen(files, "copy")
    OBVIOUS
  <2>2. step \in {"files", "copy"}
    BY <2>1 DEF Support!FilesThen
  <2>3. PICK q : q = [Support!Idle EXCEPT !.step = step, !.call = calls + 1, !.ticket = t, !.by = "opener",
                                          !.files = files]
    OBVIOUS
  <2>4. q \in TicketTask /\ q.step = step /\ q.call = calls + 1 /\ q.ticket = t /\ q.by = "opener" /\ q.own = 0
    <3>1. step \in TicketSteps /\ files \in Nat /\ "opener" \in Sender
      BY <2>2, <1>2, <1>3 DEF Sender
    <3>2. QED
      BY <3>1, <2>3, <1>1, <1>2 DEF TicketTask
  <2>5. Support!Begin(w) /\ Support!Become(w, q) /\ UNCHANGED messages
    BY <1>4, <2>1, <2>3 DEF Support!Create
  <2>6. QED
    BY <2>2, <2>4, <2>5, TakenBegins
<1>5. ASSUME NEW w \in Slots, NEW t \in Tickets, NEW files \in 0..MaxFiles, NEW by \in {"account", "platform"},
             NEW text \in BOOLEAN, Support!PostMessage(w, t, by, text, files)
      PROVE  Taken'
  <2>1. PICK step : step = Support!FilesThen(files, "insert")
    OBVIOUS
  <2>2. step \in {"files", "insert"}
    BY <2>1 DEF Support!FilesThen
  <2>3. PICK q : q = [Support!Idle EXCEPT !.step = step, !.call = calls + 1, !.ticket = t, !.by = by,
                                          !.files = files, !.seen = status[t]]
    OBVIOUS
  <2>4. /\ q \in TicketTask /\ q.step = step /\ q.call = calls + 1 /\ q.ticket = t /\ q.by = by /\ q.own = 0
        /\ q.seen = status[t]
    <3>1. step \in TicketSteps /\ files \in Nat /\ by \in Sender
      BY <2>2, <1>2, <1>3 DEF Sender
    <3>2. status[t] \in Support!Statuses \cup {None}
      BY DEF TicketInv, TicketTyped
    <3>3. QED
      BY <3>1, <3>2, <2>3, <1>1, <1>2 DEF TicketTask
  <2>5. Support!Begin(w) /\ Support!Become(w, q) /\ status' = status /\ UNCHANGED messages
    BY <1>5, <2>1, <2>3 DEF Support!PostMessage
  <2>6. QED
    BY <2>2, <2>4, <2>5, TakenBegins
<1>6. ASSUME NEW w \in Slots, NEW t \in Tickets, NEW new \in Support!Statuses, Support!PatchStatus(w, t, new)
      PROVE  Taken'
  <2>1. PICK q : q = [Support!Idle EXCEPT !.step = "select", !.call = calls + 1, !.ticket = t, !.by = "patch",
                                          !.seen = new]
    OBVIOUS
  <2>2. q \in TicketTask /\ q.step = "select" /\ q.call = calls + 1 /\ q.ticket = t /\ q.by = "patch" /\ q.own = 0
    BY <2>1, <1>1, <1>2, <1>3 DEF TicketTask
  <2>3. Support!Begin(w) /\ Support!Become(w, q) /\ UNCHANGED messages
    BY <1>6, <2>1 DEF Support!PatchStatus
  <2>4. QED
    BY <2>2, <2>3, TakenBegins
<1>7. ASSUME NEW w \in Slots, Support!Finish(w) \/ Support!Fail(w) \/ Support!Notify(w) PROVE Taken'
  <2>1. /\ tasks[w] # Support!Idle /\ tasks' = [tasks EXCEPT ![w] = Support!Idle]
        /\ tasks[w].step \in {"copy", "answer", "notify"} \/ faults' > 0
        /\ faults' = faults \/ faults' > 0
        /\ UNCHANGED <<status, messages, calls, overlaps>>
    <3>1. CASE Support!Finish(w)
      BY <3>1, TicketIdle DEF Support!Finish, Support!Answer, Support!Become, Support!At
    <3>2. CASE Support!Fail(w)
      BY <3>2 DEF Support!Fail, Support!Become, TicketInv, TicketTyped
    <3>3. CASE Support!Notify(w)
      BY <3>3, TicketIdle DEF Support!Notify, Support!Answer, Support!Become, Support!At
    <3>4. QED
      BY <1>7, <3>1, <3>2, <3>3
  <2>2. QED
    BY <2>1, TakenEnds
<1>8. CASE UNCHANGED Support!ticketVars
  BY <1>8 DEF Support!ticketVars, Taken, Serial, Awaited
<1>9. QED
  BY <1>4, <1>5, <1>6, <1>7, <1>8, TakenFile, TakenInsert, TakenSelect, TakenWrite DEF Support!Next

\* AnsweredIsTaken: the reply and the change of status that goes with it are two steps of
\* one request; when it has returned, the ticket is no longer shown as untouched.
THEOREM AnsweredTicketsTaken == ASSUME TicketParameters PROVE Support!Spec => []Support!AnsweredIsTaken
<1>1. Support!Init => TicketInv /\ Taken
  <2> SUFFICES ASSUME Support!Init PROVE TicketInv /\ Taken
    OBVIOUS
  <2>1. \A w \in Slots : tasks[w] = Support!Idle
    BY DEF Support!Init
  <2>2. DOMAIN messages = {}
    BY DEF Support!Init
  <2>3. QED
    BY <2>1, <2>2, InitTickets DEF Taken, Serial, Awaited
<1>2. TicketInv /\ Taken /\ [Support!Next]_Support!ticketVars => TicketInv' /\ Taken'
  BY NextTickets, NextTaken
<1>3. ASSUME TicketInv, Taken PROVE Support!AnsweredIsTaken
  <2> SUFFICES ASSUME ~ overlaps, faults = 0, \A w \in Slots : tasks[w] = Support!Idle,
                      NEW n \in DOMAIN messages, messages[n].by = "platform", messages[n].call = calls
               PROVE  status[messages[n].ticket] # "open"
    BY DEF Support!AnsweredIsTaken
  <2>1. QED
    BY <1>3, TicketIdle DEF Taken, Awaited
<1>4. QED
  BY <1>1, <1>2, <1>3, PTL DEF Support!Spec

\* The bounds of the requests and of what fails.
TicketBounds == MaxCalls \in Nat /\ MaxFaults \in Nat

\* A request knows a ticket that exists, and saves it with a status.
Sound(q) ==
    q # Support!Idle =>
        /\ status[q.ticket] # None /\ 1 <= q.call /\ q.files <= MaxFiles
        /\ q.step \in {"select", "write"} => q.by = "platform" \/ q.seen # None

TicketRows ==
    /\ \A n \in DOMAIN messages : status[messages[n].ticket] # None
    /\ stored \subseteq (1..MaxCalls) \X (1..MaxFiles)
    /\ mails \subseteq [own : DOMAIN messages, shown : DOMAIN messages]
    /\ answered \subseteq 1..calls
    /\ calls <= MaxCalls /\ faults <= MaxFaults
    /\ \A w \in Slots : Sound(tasks[w])

LEMMA RowsInit == ASSUME TicketParameters, TicketBounds PROVE Support!Init => TicketRows
<1> SUFFICES ASSUME Support!Init PROVE TicketRows
  OBVIOUS
<1>1. messages = << >> /\ stored = {} /\ mails = {} /\ answered = {} /\ calls = 0 /\ faults = 0
      /\ tasks = [w \in Slots |-> Support!Idle]
  BY DEF Support!Init
<1>2. \A w \in Slots : Sound(tasks[w])
  BY <1>1 DEF Sound
<1>3. DOMAIN messages = {}
  BY <1>1
<1>4. 0 <= MaxCalls /\ 0 <= MaxFaults
  BY DEF TicketBounds
<1>5. QED
  BY <1>1, <1>2, <1>3, <1>4 DEF TicketRows

\* What a step of w leaves to show: its own request, and the rows it adds.
LEMMA RowsStep ==
  ASSUME TicketInv, TicketRows, NEW w \in Slots,
         \A t \in Tickets : status[t] # None => status'[t] # None,
         calls <= calls', calls' \in Nat, calls' <= MaxCalls, faults' <= MaxFaults,
         \A v \in Slots \ {w} : tasks'[v] = tasks[v], Sound(tasks[w])',
         DOMAIN messages \subseteq DOMAIN messages',
         \A n \in DOMAIN messages' : \/ n \in DOMAIN messages /\ messages'[n] = messages[n]
                                     \/ status'[messages'[n].ticket] # None,
         stored' \subseteq (1..MaxCalls) \X (1..MaxFiles),
         mails' \subseteq [own : DOMAIN messages', shown : DOMAIN messages'],
         answered' \subseteq 1..calls'
  PROVE  TicketRows'
<1>1. \A n \in DOMAIN messages' : status'[messages'[n].ticket] # None
  <2> SUFFICES ASSUME NEW n \in DOMAIN messages, messages'[n] = messages[n]
               PROVE  status'[messages'[n].ticket] # None
    OBVIOUS
  <2>1. messages[n].ticket \in Tickets
    BY TheMessages DEF TicketInv, TicketMessage
  <2>2. QED
    BY <2>1 DEF TicketRows
<1>2. ASSUME NEW v \in Slots PROVE Sound(tasks[v])'
  <2>1. CASE v = w
    BY <2>1
  <2>2. CASE v # w
    <3>1. PICK q \in TicketTask : q = tasks[v]
      BY DEF TicketInv, TicketTyped
    <3>2. tasks'[v] = q /\ (q # Support!Idle => q.ticket \in Tickets)
      BY <2>2, <3>1 DEF TicketInv, Request
    <3>3. QED
      BY <3>1, <3>2 DEF TicketRows, Sound
  <2>3. QED
    BY <2>1, <2>2
<1>3. QED
  BY <1>1, <1>2 DEF TicketRows

\* A request begins, with a ticket that was there or is made.
LEMMA RowsBegin ==
  ASSUME TicketParameters, TicketBounds, TicketInv, TicketRows, NEW w \in Slots, NEW q,
         Support!Begin(w), Support!Become(w, q), Sound(q)',
         \A t \in Tickets : status[t] # None => status'[t] # None,
         UNCHANGED <<messages, stored, mails, answered, faults>>
  PROVE  TicketRows'
<1>1. calls \in Nat /\ calls' = calls + 1 /\ calls < MaxCalls
  BY DEF TicketInv, TicketTyped, Support!Begin
<1>2. calls <= calls' /\ calls' \in Nat /\ calls' <= MaxCalls /\ 1..calls \subseteq 1..calls'
  BY <1>1 DEF TicketBounds
<1>3. tasks'[w] = q /\ \A v \in Slots \ {w} : tasks'[v] = tasks[v]
  BY DEF Support!Become, TicketInv, TicketTyped
<1>4. Sound(tasks[w])'
  BY <1>3 DEF Sound
<1>5. QED
  BY <1>2, <1>3, <1>4, RowsStep DEF TicketRows

\* A later step of the request, which ends or goes on with q; only notify and save write.
LEMMA RowsGo ==
  ASSUME TicketParameters, TicketInv, TicketRows, NEW w \in Slots, tasks[w] # Support!Idle, NEW q,
         tasks' = [tasks EXCEPT ![w] = q], Sound(q)',
         \A t \in Tickets : status[t] # None => status'[t] # None,
         answered' \in {answered, answered \cup {tasks[w].call}},
         stored' \subseteq (1..MaxCalls) \X (1..MaxFiles),
         mails' \subseteq [own : DOMAIN messages', shown : DOMAIN messages'],
         DOMAIN messages \subseteq DOMAIN messages',
         \A n \in DOMAIN messages' : \/ n \in DOMAIN messages /\ messages'[n] = messages[n]
                                     \/ status'[messages'[n].ticket] # None,
         calls' = calls, faults' <= MaxFaults
  PROVE  TicketRows'
<1>1. PICK c : c = tasks[w].call
  OBVIOUS
<1>2. c \in 1..calls /\ calls \in Nat
  <2>1. calls \in Nat /\ c \in Nat /\ 1 <= c /\ c <= calls
    BY <1>1 DEF TicketInv, TicketTyped, TicketTask, Request, TicketRows, Sound
  <2>2. QED
    BY <2>1
<1>3. answered' \subseteq 1..calls'
  BY <1>1, <1>2 DEF TicketRows
<1>4. tasks'[w] = q /\ \A v \in Slots \ {w} : tasks'[v] = tasks[v]
  BY DEF TicketInv, TicketTyped
<1>5. Sound(tasks[w])'
  BY <1>4 DEF Sound
<1>6. calls <= calls' /\ calls' \in Nat /\ calls' <= MaxCalls
  BY <1>2 DEF TicketRows
<1>7. QED
  BY <1>3, <1>4, <1>5, <1>6, RowsStep

LEMMA IdleSound == Sound(Support!Idle) /\ Sound(Support!Idle)'
  BY DEF Sound, Support!Idle

LEMMA RowsRequests ==
  ASSUME TicketParameters, TicketBounds, TicketInv, TicketRows, NEW w \in Slots, NEW t \in Tickets,
         \/ \E files \in 0..MaxFiles :
               \/ Support!Create(w, t, files)
               \/ \E by \in {"account", "platform"}, text \in BOOLEAN : Support!PostMessage(w, t, by, text, files)
         \/ \E new \in Support!Statuses : Support!PatchStatus(w, t, new)
  PROVE  TicketRows'
<1>1. calls \in Nat /\ 1 <= calls + 1
  BY DEF TicketInv, TicketTyped
<1>2. None \notin Support!Statuses /\ DOMAIN status = Tickets /\ 0 <= MaxFiles
  BY DEF TicketParameters, TicketInv, TicketTyped
<1>3. ASSUME NEW files \in 0..MaxFiles, Support!Create(w, t, files) PROVE TicketRows'
  <2>1. PICK q : q = [Support!Idle EXCEPT !.step = Support!FilesThen(files, "copy"), !.call = calls + 1,
                                          !.ticket = t, !.by = "opener", !.files = files]
    OBVIOUS
  <2>2. q.step \in {"files", "copy"} /\ q.call = calls + 1 /\ q.ticket = t /\ q.files = files
    BY <2>1 DEF Support!Idle, Support!FilesThen
  <2>3. /\ Support!Begin(w) /\ Support!Become(w, q) /\ status' = [status EXCEPT ![t] = "open"]
        /\ UNCHANGED <<messages, stored, mails, answered, faults>>
    BY <1>3, <2>1 DEF Support!Create
  <2>4. "open" # None
    BY <1>2 DEF Support!Statuses
  <2>5. status'[t] # None /\ \A s \in Tickets : status[s] # None => status'[s] # None
    BY <1>2, <2>3, <2>4
  <2>6. Sound(q)'
    BY <1>1, <2>2, <2>5 DEF Sound
  <2>7. QED
    BY <2>3, <2>5, <2>6, RowsBegin
<1>4. ASSUME NEW files \in 0..MaxFiles, NEW by \in {"account", "platform"}, NEW text \in BOOLEAN,
             Support!PostMessage(w, t, by, text, files)
      PROVE  TicketRows'
  <2>1. PICK q : q = [Support!Idle EXCEPT !.step = Support!FilesThen(files, "insert"), !.call = calls + 1,
                                          !.ticket = t, !.by = by, !.files = files, !.seen = status[t]]
    OBVIOUS
  <2>2. q.step \in {"files", "insert"} /\ q.call = calls + 1 /\ q.ticket = t /\ q.files = files
    BY <2>1 DEF Support!Idle, Support!FilesThen
  <2>3. /\ Support!Begin(w) /\ Support!Become(w, q) /\ status[t] # None
        /\ UNCHANGED <<status, messages, stored, mails, answered, faults>>
    BY <1>4, <2>1 DEF Support!PostMessage, Support!TakesMessages
  <2>4. Sound(q)'
    BY <1>1, <2>2, <2>3 DEF Sound
  <2>5. QED
    BY <2>3, <2>4, RowsBegin
<1>5. ASSUME NEW new \in Support!Statuses, Support!PatchStatus(w, t, new) PROVE TicketRows'
  <2>1. PICK q : q = [Support!Idle EXCEPT !.step = "select", !.call = calls + 1, !.ticket = t,
                                          !.by = "patch", !.seen = new]
    OBVIOUS
  <2>2. q.step = "select" /\ q.call = calls + 1 /\ q.ticket = t /\ q.files = 0 /\ q.seen = new
    BY <2>1 DEF Support!Idle
  <2>3. /\ Support!Begin(w) /\ Support!Become(w, q) /\ status[t] # None
        /\ UNCHANGED <<status, messages, stored, mails, answered, faults>>
    BY <1>5, <2>1 DEF Support!PatchStatus
  <2>4. new # None
    BY <1>2
  <2>5. Sound(q)'
    BY <1>1, <1>2, <2>2, <2>3, <2>4 DEF Sound
  <2>6. QED
    BY <2>3, <2>5, RowsBegin
<1>6. QED
  BY <1>3, <1>4, <1>5

LEMMA RowsWrites ==
  ASSUME TicketParameters, TicketBounds, TicketInv, TicketInv', TicketRows, NEW w \in Slots,
         \/ Support!SaveFile(w) \/ Support!InsertMessage(w) \/ Support!SelectTicket(w) \/ Support!WriteTicket(w)
         \/ Support!Notify(w) \/ Support!Finish(w) \/ Support!Fail(w)
  PROVE  TicketRows'
<1>1. PICK q \in TicketTask : q = tasks[w]
  BY DEF TicketInv, TicketTyped
<1>2. q # Support!Idle => /\ q.ticket \in Tickets /\ q.call \in Nat /\ 1 <= q.call /\ q.call <= calls
                          /\ calls <= MaxCalls /\ status[q.ticket] # None /\ q.files <= MaxFiles
                          /\ q.files \in Nat /\ q.saved \in Nat /\ calls \in Nat /\ Request(q) /\ Sound(q)
  BY <1>1 DEF TicketInv, TicketTyped, TicketTask, Request, TicketRows, Sound
<1>3. Support!Idle.step = "idle"
  BY DEF Support!Idle
<1>4. CASE Support!SaveFile(w)
  <2>1. q.step = "files" /\ q # Support!Idle /\ q.saved < q.files
    BY <1>1, <1>2, <1>3, <1>4 DEF Support!SaveFile, Support!At, Request
  <2>2. PICK r : r = [q EXCEPT !.saved = @ + 1, !.step = IF q.saved + 1 = q.files THEN "insert" ELSE @]
    OBVIOUS
  <2>3. r.step \in {"files", "insert"} /\ r.ticket = q.ticket /\ r.call = q.call /\ r.files = q.files
    BY <2>1, <2>2 DEF TicketTask
  <2>4. /\ stored' = stored \cup {<<q.call, q.saved + 1>>} /\ tasks' = [tasks EXCEPT ![w] = r]
        /\ UNCHANGED <<status, messages, mails, answered, calls, faults>>
    BY <1>1, <1>4, <2>2 DEF Support!SaveFile, Support!Become
  <2>5. q.call \in 1..MaxCalls /\ q.saved + 1 \in 1..MaxFiles
    BY <1>2, <2>1 DEF TicketBounds, TicketParameters
  <2>6. stored' \subseteq (1..MaxCalls) \X (1..MaxFiles)
    BY <2>4, <2>5 DEF TicketRows
  <2>7. Sound(r)'
    BY <1>2, <2>1, <2>3, <2>4 DEF Sound
  <2>8. QED
    BY <1>1, <2>1, <2>4, <2>6, <2>7, RowsGo DEF TicketRows
<1>5. CASE Support!InsertMessage(w)
  <2>1. q.step = "insert" /\ q # Support!Idle /\ q.by \in Sender
    BY <1>1, <1>2, <1>3, <1>5 DEF Support!InsertMessage, Support!At, Request
  <2>2. PICK r : r = [q EXCEPT !.step = Support!AfterInsert(q), !.own = Len(messages) + 1]
    OBVIOUS
  <2>3. /\ r.ticket = q.ticket /\ r.call = q.call /\ r.files = q.files /\ r.by = q.by
        /\ r.step = Support!AfterInsert(q)
    BY <2>2 DEF TicketTask
  <2>4. r.step \in {"select", "write"} => r.by = "platform"
    BY <2>1, <2>3 DEF Support!AfterInsert, Sender
  <2>5. PICK m : m = [ticket |-> q.ticket, by |-> q.by, call |-> q.call, files |-> 1..q.saved]
    OBVIOUS
  <2>6. /\ messages' = Append(messages, m) /\ m.ticket = q.ticket /\ tasks' = [tasks EXCEPT ![w] = r]
        /\ UNCHANGED <<status, stored, mails, answered, calls, faults>>
    BY <1>1, <1>5, <2>2, <2>5 DEF Support!InsertMessage, Support!Become
  <2>7. PICK T : messages \in Seq(T)
    BY DEF TicketInv, TicketTyped
  <2>8. PICK len \in Nat : len = Len(messages) /\ DOMAIN messages = 1..len
    BY <2>7
  <2>9. /\ DOMAIN messages' = 1..(len + 1) /\ messages'[len + 1] = m
        /\ \A n \in 1..len : messages'[n] = messages[n]
    BY <2>6, <2>7, <2>8
  <2>10. DOMAIN messages \subseteq DOMAIN messages' /\ \A n \in DOMAIN messages' : n \in DOMAIN messages \/ n = len + 1
    BY <2>8, <2>9
  <2>11. \A n \in DOMAIN messages' : \/ n \in DOMAIN messages /\ messages'[n] = messages[n]
                                     \/ status'[messages'[n].ticket] # None
    BY <1>2, <2>1, <2>6, <2>8, <2>9, <2>10
  <2>12. mails' \subseteq [own : DOMAIN messages', shown : DOMAIN messages']
    BY <2>6, <2>10 DEF TicketRows
  <2>13. Sound(r)'
    BY <1>2, <2>1, <2>3, <2>4, <2>6 DEF Sound
  <2>14. QED
    BY <1>1, <2>1, <2>6, <2>10, <2>11, <2>12, <2>13, RowsGo DEF TicketRows
<1>6. CASE Support!SelectTicket(w)
  <2>1. q.step = "select" /\ q # Support!Idle
    BY <1>1, <1>3, <1>6 DEF Support!SelectTicket, Support!At
  <2>2. PICK old : old = status[q.ticket]
    OBVIOUS
  <2>3. PICK r : r = [q EXCEPT !.step = "write", !.was = old]
    OBVIOUS
  <2>4. r.ticket = q.ticket /\ r.call = q.call /\ r.files = q.files /\ r.by = q.by /\ r.seen = q.seen
    BY <2>3 DEF TicketTask
  <2>5. tasks' = [tasks EXCEPT ![w] = r] /\ UNCHANGED <<status, messages, stored, mails, answered, calls, faults>>
    BY <1>1, <1>6, <2>2, <2>3 DEF Support!SelectTicket, Support!Become
  <2>6. Sound(r)'
    BY <1>2, <2>1, <2>4, <2>5 DEF Sound
  <2>7. QED
    BY <1>1, <2>1, <2>5, <2>6, RowsGo DEF TicketRows
<1>7. CASE Support!WriteTicket(w)
  <2>1. q.step = "write" /\ q # Support!Idle
    BY <1>1, <1>3, <1>7 DEF Support!WriteTicket, Support!At
  <2>2. PICK r : r = [q EXCEPT !.step = "notify"]
    OBVIOUS
  <2>3. r.step = "notify" /\ r.ticket = q.ticket /\ r.call = q.call /\ r.files = q.files
    BY <2>2 DEF TicketTask
  <2>4. PICK new : new = Support!EntitySave!Saved([status |-> status[q.ticket]], [status |-> q.was],
                                                  [status |-> Support!NewStatus(q)]).status
    OBVIOUS
  <2>5. /\ status' = [status EXCEPT ![q.ticket] = new]
        /\ \/ tasks' = [tasks EXCEPT ![w] = r] /\ answered' = answered
           \/ tasks' = [tasks EXCEPT ![w] = Support!Idle] /\ answered' = answered \cup {q.call}
        /\ UNCHANGED <<messages, stored, mails, calls, faults>>
    BY <1>1, <1>7, <2>2, <2>4 DEF Support!WriteTicket, Support!Become, Support!Move, Support!Answer
  <2>6. Support!NewStatus(q) # None
    BY <1>2, <2>1 DEF Sound, Support!NewStatus, TicketParameters, Support!Statuses
  <2>7. new # None
    <3>1. status[q.ticket] \in Support!Statuses \cup {None} /\ q.was \in Support!Statuses \cup {None}
      BY <1>2, <2>1 DEF TicketInv, TicketTyped, TicketTask
    <3>2. PICK z : z = Support!NewStatus(q)
      OBVIOUS
    <3>3. new = IF z = q.was THEN status[q.ticket] ELSE z
      BY <2>4, <3>1, <3>2, SavedStatus
    <3>4. QED
      BY <1>2, <2>1, <2>6, <3>2, <3>3
  <2>8. \A s \in Tickets : status[s] # None => status'[s] # None
    BY <2>5, <2>7 DEF TicketInv, TicketTyped
  <2>9. Sound(r)' /\ Sound(Support!Idle)'
    BY <1>2, <2>1, <2>3, <2>5, <2>8, IdleSound DEF Sound
  <2>10. QED
    BY <1>1, <2>1, <2>5, <2>8, <2>9, RowsGo DEF TicketRows
<1>8. CASE Support!Notify(w)
  <2>1. q # Support!Idle
    BY <1>1, <1>3, <1>8 DEF Support!Notify, Support!At
  <2>2. PICK m : m = [own |-> q.own, shown |-> Support!LastReply(q.ticket)]
    OBVIOUS
  <2>3. /\ mails' = mails \cup {m} /\ answered' = answered \cup {q.call}
        /\ tasks' = [tasks EXCEPT ![w] = Support!Idle] /\ UNCHANGED <<status, messages, stored, calls, faults>>
    BY <1>1, <1>8, <2>2 DEF Support!Notify, Support!Answer, Support!Become
  <2>4. m = [own |-> m.own, shown |-> m.shown]
    BY <2>2
  <2>5. m.own \in DOMAIN messages' /\ m.shown \in DOMAIN messages'
    BY <2>3 DEF TicketInv, Mailed
  <2>6. mails' \subseteq [own : DOMAIN messages', shown : DOMAIN messages']
    BY <2>3, <2>4, <2>5 DEF TicketRows
  <2>7. QED
    BY <1>1, <2>1, <2>3, <2>6, IdleSound, RowsGo DEF TicketRows
<1>9. CASE Support!Finish(w)
  BY <1>1, <1>3, <1>9, IdleSound, RowsGo DEF TicketRows, Support!Finish, Support!At, Support!Answer, Support!Become
<1>10. CASE Support!Fail(w)
  <2>1. /\ tasks[w] # Support!Idle /\ faults' = faults + 1 /\ faults < MaxFaults
        /\ tasks' = [tasks EXCEPT ![w] = Support!Idle]
        /\ UNCHANGED <<status, messages, stored, mails, answered, calls>>
    BY <1>10 DEF Support!Fail, Support!Become
  <2>2. faults' <= MaxFaults
    BY <2>1 DEF TicketInv, TicketTyped, TicketBounds
  <2>3. QED
    BY <2>1, <2>2, IdleSound, RowsGo DEF TicketRows
<1>11. QED
  BY <1>4, <1>5, <1>6, <1>7, <1>8, <1>9, <1>10

\* TicketTypeOK: however requests overlap and fail, messages are of tickets that exist, files
\* of requests that were made, and mails of messages.
THEOREM TicketsTyped == ASSUME TicketParameters, TicketBounds PROVE Support!Spec => []Support!TicketTypeOK
<1>1. Support!Init => TicketInv /\ TicketRows
  BY InitTickets, RowsInit
<1>2. TicketInv /\ TicketRows /\ [Support!Next]_Support!ticketVars => TicketInv' /\ TicketRows'
  <2> SUFFICES ASSUME TicketInv, TicketRows, [Support!Next]_Support!ticketVars PROVE TicketInv' /\ TicketRows'
    OBVIOUS
  <2>1. TicketInv'
    BY NextTickets
  <2>2. CASE UNCHANGED Support!ticketVars
    BY <2>1, <2>2 DEF Support!ticketVars, TicketRows, Sound
  <2>3. CASE Support!Next
    BY <2>1, <2>3, RowsRequests, RowsWrites DEF Support!Next
  <2>4. QED
    BY <2>1, <2>2, <2>3
<1>3. TicketInv /\ TicketRows => Support!TicketTypeOK
  BY DEF TicketInv, TicketTyped, TicketRows, Support!TicketTypeOK, TicketBounds
<1>4. QED
  BY <1>1, <1>2, <1>3, PTL DEF Support!Spec

(***************************************************************************)
(* Plans.                                                                  *)
(***************************************************************************)

Plans == INSTANCE PlanCatalog

CondoRow == [owner : Users, plan : Plans!Ids]

\* A patch carries lists of bands and prices as a new plan does; the absent value is no row.
PlanParameters ==
    /\ MaxPlans \in Nat \ {0} /\ MaxUnits \in Nat
    /\ 0 \in Prices /\ Bands \subseteq Seq(Plans!Band)
    /\ Patches \subseteq [bands : Bands \cup {<<>>, None}, price : Prices \cup {None},
                          active : BOOLEAN \cup {None}]
    /\ None \notin Plans!Plan /\ None \notin Plans!Ids /\ None \notin CondoRow

PlanSteps == {"idle", "select", "write", "mark", "condos", "users", "delete", "account", "assign",
              "pick", "store"}

PlanTask ==
    [step : PlanSteps, plan : Plans!Ids \cup {0}, row : Plans!Plan \cup CondoRow \cup {None},
     was : Plans!Plan \cup CondoRow \cup {None}, of : Users \cup Condominiums \cup {None}]

\* What a request holds between two awaits.
Holds(q) ==
    /\ q.step \in {"select", "write"} =>
          q.plan \in Plans!Ids /\ q.row \in Plans!Plan /\ Plans!AssertValid(q.row.bands)
    /\ q.step = "write" => q.was \in Plans!Plan \cup {None}
    /\ q.step \in {"mark", "condos", "users", "delete", "account", "assign"} => q.plan \in Plans!Ids
    /\ q.step = "account" => q.of \in Users
    /\ q.step \in {"assign", "pick", "store"} => q.of \in Condominiums /\ q.row \in CondoRow
    /\ q.step = "assign" => q.row.plan = q.plan
    /\ q.step = "store" => q.was \in CondoRow \cup {None}

PlanTyped ==
    /\ plans \in [Plans!Ids -> Plans!Plan \cup {None}]
    /\ made \in Nat /\ \A p \in Plans!Existing : p <= made
    /\ planOf \in [Users -> Plans!Ids \cup {None}]
    /\ condos \in [Condominiums -> CondoRow \cup {None}]
    /\ tasks \in [Slots -> PlanTask]
    /\ overlaps \in BOOLEAN

\* The plan a request writes was created, though it may be gone.
Numbered == \A w \in Slots : tasks[w].step \in {"select", "write"} => tasks[w].plan <= made

PlanInv ==
    /\ PlanTyped /\ Numbered
    /\ \A w \in Slots : Holds(tasks[w])
    /\ \A p \in Plans!Existing : Plans!AssertValid(plans[p].bands)
    /\ Plans!PlansKept

LEMMA PlanIdle ==
  ASSUME PlanParameters
  PROVE  Plans!Idle \in PlanTask /\ Plans!Idle.step = "idle"
  BY DEF Plans!Idle, PlanTask, PlanSteps

LEMMA IdleHolds == \A w \in Slots : tasks[w] = Plans!Idle => Holds(tasks[w])
  BY DEF Plans!Idle, Holds

LEMMA BandsOfPlan ==
  ASSUME PlanParameters, NEW bands \in Bands \cup {<<>>}
  PROVE  /\ bands \in Seq(Plans!Band) /\ Len(bands) \in Nat /\ DOMAIN bands = 1..Len(bands)
         /\ \A i \in DOMAIN bands : bands[i] \in Plans!Band
         /\ bands # <<>> => 1 \in DOMAIN bands /\ bands[1].price \in Prices
<1>1. bands \in Seq(Plans!Band)
  BY EmptySeq DEF PlanParameters
<1>2. Len(bands) \in Nat /\ DOMAIN bands = 1..Len(bands) /\ \A i \in DOMAIN bands : bands[i] \in Plans!Band
  BY <1>1
<1>3. bands # <<>> => 1 \in DOMAIN bands
  BY <1>1, <1>2, EmptySeq
<1>4. QED
  BY <1>1, <1>2, <1>3 DEF Plans!Band

LEMMA SavedPlan ==
  ASSUME PlanParameters, NEW row \in Plans!Plan, NEW was \in Plans!Plan, NEW ent \in Plans!Plan
  PROVE  LET saved == Plans!EntitySave!Saved(row, was, ent) IN
         /\ saved \in Plans!Plan /\ saved.bands \in {row.bands, ent.bands}
         /\ saved.default = IF ent.default = was.default THEN row.default ELSE ent.default
<1>1. Plans!EntitySave!Saved(row, was, ent) =
        [column \in {"price", "bands", "active", "default"} |->
            IF ent[column] = was[column] THEN row[column] ELSE ent[column]]
  BY DEF PlanParameters, Plans!EntitySave!Saved, Plans!EntitySave!Merge, Plans!Plan
<1>2. PICK saved : saved = Plans!EntitySave!Saved(row, was, ent)
  OBVIOUS
<1>3. saved.bands \in {row.bands, ent.bands}
      /\ saved.default = IF ent.default = was.default THEN row.default ELSE ent.default
  BY <1>1, <1>2
<1>4. saved \in Plans!Plan
  BY <1>1, <1>2 DEF Plans!Plan
<1>5. QED
  BY <1>2, <1>3, <1>4

LEMMA SavedCondo ==
  ASSUME PlanParameters, NEW row \in CondoRow \cup {None}, NEW was \in CondoRow \cup {None}, NEW ent \in CondoRow
  PROVE  Plans!EntitySave!Saved(row, was, ent) \in CondoRow \cup {None}
<1>1. CASE was = None \/ row = None
  BY <1>1 DEF Plans!EntitySave!Saved
<1>2. CASE was # None /\ row # None
  <2>1. Plans!EntitySave!Saved(row, was, ent) =
          [column \in {"owner", "plan"} |-> IF ent[column] = was[column] THEN row[column] ELSE ent[column]]
    BY <1>2 DEF Plans!EntitySave!Saved, Plans!EntitySave!Merge, CondoRow
  <2>2. QED
    BY <2>1, <1>2 DEF CondoRow
<1>3. QED
  BY <1>1, <1>2

LEMMA InitPlans == ASSUME PlanParameters PROVE Plans!Init => PlanInv
<1> SUFFICES ASSUME Plans!Init PROVE PlanInv
  OBVIOUS
<1>1. PICK first : first = [price |-> 0, bands |-> <<>>, active |-> TRUE, default |-> TRUE]
  OBVIOUS
<1>2. first \in Plans!Plan /\ first.bands = <<>>
  BY <1>1 DEF PlanParameters, Plans!Plan
<1>3. plans = [p \in Plans!Ids |-> IF p = 1 THEN first ELSE None] /\ made = 1 /\ 1 \in Plans!Ids
  BY <1>1 DEF Plans!Init, Plans!Ids, PlanParameters
<1>4. plans \in [Plans!Ids -> Plans!Plan \cup {None}] /\ Plans!Existing = {1}
  BY <1>2, <1>3 DEF PlanParameters, Plans!Existing
<1>5. tasks \in [Slots -> PlanTask] /\ \A w \in Slots : tasks[w] = Plans!Idle
  BY PlanIdle DEF Plans!Init
<1>6. planOf \in [Users -> Plans!Ids \cup {None}] /\ \A u \in Users : planOf[u] = None
  BY DEF Plans!Init
<1>7. condos \in [Condominiums -> CondoRow \cup {None}] /\ \A c \in Condominiums : condos[c] = None
  BY DEF Plans!Init
<1>8. PlanTyped
  <2>1. made \in Nat /\ \A p \in Plans!Existing : p <= made
    BY <1>3, <1>4
  <2>2. overlaps \in BOOLEAN
    BY DEF Plans!Init
  <2>3. QED
    BY <2>1, <2>2, <1>4, <1>5, <1>6, <1>7 DEF PlanTyped
<1>9. Plans!PlansKept
  BY <1>6, <1>7 DEF Plans!PlansKept
<1>10. \A p \in Plans!Existing : Plans!AssertValid(plans[p].bands)
  BY <1>2, <1>3, <1>4 DEF Plans!AssertValid
<1>11. QED
  BY <1>5, <1>8, <1>9, <1>10, IdleHolds, PlanIdle DEF PlanInv, Numbered

\* A step that writes no row.
LEMMA PlanMoves ==
  ASSUME PlanInv, NEW w \in Slots, NEW t \in PlanTask, Holds(t), tasks' = [tasks EXCEPT ![w] = t],
         t.step \in {"select", "write"} => t.plan <= made,
         overlaps' \in BOOLEAN, UNCHANGED <<plans, made, planOf, condos>>
  PROVE  PlanInv'
<1>1. tasks' \in [Slots -> PlanTask] /\ \A v \in Slots : tasks'[v] = tasks[v] \/ tasks'[v] = t
  BY DEF PlanInv, PlanTyped
<1>2. \A v \in Slots : Holds(tasks'[v])
  BY <1>1 DEF PlanInv
<1>3. PlanTyped' /\ Plans!PlansKept' /\ \A p \in Plans!Existing' : Plans!AssertValid(plans'[p].bands)
  BY <1>1 DEF PlanInv, PlanTyped, Plans!PlansKept, Plans!Existing
<1>4. Numbered'
  BY <1>1 DEF PlanInv, Numbered
<1>5. QED
  BY <1>2, <1>3, <1>4 DEF PlanInv, Holds

\* A step that writes plans: none that an account or a condominium refers to may go.
LEMMA PlanWrites ==
  ASSUME PlanParameters, PlanInv, NEW w \in Slots,
         tasks' = [tasks EXCEPT ![w] = Plans!Idle] \/ tasks' = tasks,
         plans' \in [Plans!Ids -> Plans!Plan \cup {None}],
         made' \in Nat, made <= made', \A p \in Plans!Existing' : p <= made',
         \A p \in Plans!Existing' : Plans!AssertValid(plans'[p].bands),
         \A p \in Plans!Existing : p \in Plans!Existing' \/ ~ Plans!Restricted(p),
         overlaps' \in BOOLEAN, UNCHANGED <<planOf, condos>>
  PROVE  PlanInv'
<1>1. tasks' \in [Slots -> PlanTask] /\ \A v \in Slots : tasks'[v] = tasks[v] \/ tasks'[v] = Plans!Idle
  BY PlanIdle DEF PlanInv, PlanTyped
<1>2. \A v \in Slots : Holds(tasks'[v])
  BY <1>1 DEF PlanInv, Plans!Idle, Holds
<1>3. PlanTyped'
  BY <1>1 DEF PlanInv, PlanTyped
<1>4. Plans!PlansKept'
  BY DEF PlanInv, Plans!PlansKept, Plans!Restricted
<1>5. Numbered'
  <2> SUFFICES ASSUME NEW v \in Slots, tasks'[v] = tasks[v], tasks[v].step \in {"select", "write"}
               PROVE  tasks[v].plan <= made'
    BY <1>1, PlanIdle DEF Numbered
  <2>1. tasks[v].plan \in Nat /\ tasks[v].plan <= made /\ made \in Nat /\ made <= made' /\ made' \in Nat
    BY DEF PlanInv, PlanTyped, Numbered, Holds, Plans!Ids
  <2>2. QED
    BY <2>1
<1>6. QED
  BY <1>2, <1>3, <1>4, <1>5 DEF PlanInv, Holds

\* A step that writes an account or a condominium, with a plan that is there.
LEMMA PlanRefers ==
  ASSUME PlanParameters, PlanInv, NEW w \in Slots,
         tasks' = [tasks EXCEPT ![w] = Plans!Idle] \/ tasks' = tasks,
         planOf' \in [Users -> Plans!Ids \cup {None}],
         condos' \in [Condominiums -> CondoRow \cup {None}],
         \A u \in Users : planOf'[u] = planOf[u] \/ planOf'[u] \in Plans!Existing,
         \A c \in Condominiums : condos'[c] \in {None, condos[c]} \/ condos'[c].plan \in Plans!Existing,
         UNCHANGED <<plans, made, overlaps>>
  PROVE  PlanInv'
<1>1. tasks' \in [Slots -> PlanTask] /\ \A v \in Slots : tasks'[v] = tasks[v] \/ tasks'[v] = Plans!Idle
  BY PlanIdle DEF PlanInv, PlanTyped
<1>2. \A v \in Slots : Holds(tasks'[v])
  BY <1>1 DEF PlanInv, Plans!Idle, Holds
<1>3. Plans!Existing' = Plans!Existing
  BY DEF Plans!Existing
<1>4. PlanTyped' /\ \A p \in Plans!Existing' : Plans!AssertValid(plans'[p].bands)
  BY <1>1, <1>3 DEF PlanInv, PlanTyped
<1>5. Plans!PlansKept'
  BY <1>3 DEF PlanInv, Plans!PlansKept
<1>6. Numbered'
  BY <1>1, PlanIdle DEF PlanInv, Numbered
<1>7. QED
  BY <1>2, <1>4, <1>5, <1>6 DEF PlanInv, Holds

LEMMA PatchedPlan ==
  ASSUME PlanParameters, NEW row \in Plans!Plan, NEW q \in Patches, Plans!AssertValid(row.bands),
         q.bands # None => Plans!AssertValid(q.bands)
  PROVE  /\ Plans!Patched(row, q) \in Plans!Plan /\ Plans!AssertValid(Plans!Patched(row, q).bands)
         /\ Plans!Patched(row, q).default = row.default
<1>1. /\ q.bands \in Bands \cup {<<>>, None} /\ q.price \in Prices \cup {None}
      /\ q.active \in BOOLEAN \cup {None}
  BY DEF PlanParameters
<1>2. PICK bands \in Bands \cup {<<>>} : bands = IF q.bands = None THEN row.bands ELSE q.bands
  BY <1>1 DEF Plans!Plan
<1>3. PICK price \in Prices : price = IF q.price # None THEN q.price
                                     ELSE IF q.bands \notin {None, <<>>} THEN bands[1].price ELSE row.price
  <2>1. CASE q.price # None
    BY <2>1, <1>1
  <2>2. CASE q.price = None /\ q.bands \notin {None, <<>>}
    <3>1. bands # <<>>
      BY <2>2, <1>2
    <3>2. bands[1].price \in Prices
      BY <3>1, BandsOfPlan
    <3>3. QED
      BY <3>2, <2>2
  <2>3. CASE q.price = None /\ q.bands \in {None, <<>>}
    BY <2>3 DEF Plans!Plan
  <2>4. QED
    BY <2>1, <2>2, <2>3
<1>4. PICK active \in BOOLEAN : active = IF q.active = None THEN row.active ELSE q.active
  BY <1>1 DEF Plans!Plan
<1>5. Plans!Patched(row, q) = [row EXCEPT !.bands = bands, !.price = price, !.active = active]
  BY <1>2, <1>3, <1>4 DEF Plans!Patched, Plans!Plan
<1>6. PICK new : new = [row EXCEPT !.bands = bands, !.price = price, !.active = active]
  OBVIOUS
<1>7. new \in Plans!Plan /\ new.bands = bands /\ new.default = row.default
  BY <1>6 DEF Plans!Plan
<1>8. Plans!AssertValid(bands)
  BY <1>2
<1>9. QED
  BY <1>5, <1>6, <1>7, <1>8

\* A request after its first read.
LEMMA PlanStarts ==
  ASSUME PlanParameters, PlanInv, NEW w \in Slots, NEW t \in PlanTask, Holds(t),
         t.step \in {"select", "write"} => t.plan <= made, Plans!Start(w, t)
  PROVE  PlanInv'
<1>1. tasks' = [tasks EXCEPT ![w] = t] /\ overlaps' \in BOOLEAN /\ UNCHANGED <<plans, made, planOf, condos>>
  BY DEF Plans!Start, Plans!Become, PlanInv, PlanTyped
<1>2. QED
  BY <1>1, PlanMoves

LEMMA NewPlan ==
  ASSUME PlanParameters, PlanInv, NEW w \in Slots, NEW bands \in Bands \cup {<<>>}, NEW price \in Prices,
         Plans!CreatePlan(w, bands, price)
  PROVE  /\ made + 1 \in Plans!Ids /\ made + 1 \notin Plans!Existing
         /\ plans' \in [Plans!Ids -> Plans!Plan \cup {None}] /\ plans'[made + 1] \in Plans!Plan
         /\ Plans!AssertValid(plans'[made + 1].bands) /\ ~ plans'[made + 1].default
         /\ \A p \in Plans!Ids \ {made + 1} : plans'[p] = plans[p]
<1>1. PICK new : new = [price |-> IF bands = <<>> THEN price ELSE bands[1].price,
                        bands |-> bands, active |-> TRUE, default |-> FALSE]
  OBVIOUS
<1>2. new \in Plans!Plan /\ new.bands = bands /\ new.default = FALSE
  <2>1. (IF bands = <<>> THEN price ELSE bands[1].price) \in Prices
    BY BandsOfPlan
  <2>2. QED
    BY <2>1, <1>1 DEF Plans!Plan
<1>3. made + 1 \in Plans!Ids
  BY DEF Plans!CreatePlan, PlanInv, PlanTyped, Plans!Ids, PlanParameters
<1>4. plans' = [plans EXCEPT ![made + 1] = new] /\ Plans!AssertValid(bands)
  BY <1>1 DEF Plans!CreatePlan
<1>5. made + 1 \notin Plans!Existing
  BY DEF PlanInv, PlanTyped
<1>6. plans \in [Plans!Ids -> Plans!Plan \cup {None}]
  BY DEF PlanInv, PlanTyped
<1>7. QED
  BY <1>2, <1>3, <1>4, <1>5, <1>6

LEMMA PlanCreated ==
  ASSUME PlanParameters, PlanInv, NEW w \in Slots, NEW bands \in Bands \cup {<<>>}, NEW price \in Prices,
         Plans!CreatePlan(w, bands, price)
  PROVE  PlanInv'
<1>1. made' = made + 1 /\ overlaps' \in BOOLEAN /\ UNCHANGED <<planOf, condos, tasks>>
  BY DEF Plans!CreatePlan, PlanInv, PlanTyped
<1>2. plans'[made + 1] # None
  BY NewPlan DEF PlanParameters
<1>3. Plans!Existing' = Plans!Existing \cup {made + 1}
  BY <1>2, NewPlan DEF Plans!Existing
<1>4. made' \in Nat /\ \A p \in Plans!Existing' : p <= made'
  <2>1. made \in Nat /\ Plans!Existing \subseteq Nat /\ \A p \in Plans!Existing : p <= made
    BY DEF PlanInv, PlanTyped, Plans!Existing, Plans!Ids
  <2>2. QED
    BY <2>1, <1>1, <1>3
<1>5. \A p \in Plans!Existing' : Plans!AssertValid(plans'[p].bands)
  <2>1. \A p \in Plans!Existing : plans'[p] = plans[p]
    BY NewPlan DEF Plans!Existing
  <2>2. QED
    BY <2>1, <1>3, NewPlan DEF PlanInv
<1>6. made <= made'
  BY <1>1 DEF PlanInv, PlanTyped
<1>7. QED
  BY <1>1, <1>3, <1>4, <1>5, <1>6, NewPlan, PlanWrites

\* The row a save of a plan leaves: only columns that were read or patched change.
LEMMA PlanSaved ==
  ASSUME PlanParameters, PlanInv, NEW w \in Slots, Plans!WritePlan(w), NEW q, q = tasks[w]
  PROVE  /\ tasks' = [tasks EXCEPT ![w] = Plans!Idle] /\ UNCHANGED <<made, planOf, condos, overlaps>>
         /\ q.plan \in Plans!Ids /\ q.was \in Plans!Plan \cup {None}
         /\ \A p \in Plans!Ids \ {q.plan} : plans'[p] = plans[p]
         /\ plans'[q.plan] \in Plans!Plan \cup {None}
         /\ plans' \in [Plans!Ids -> Plans!Plan \cup {None}]
         /\ plans'[q.plan] # None => Plans!AssertValid(plans'[q.plan].bands)
         /\ plans[q.plan] # None => plans'[q.plan] # None
         /\ plans[q.plan] # None /\ q.was # None =>
              plans'[q.plan].default = IF q.row.default = q.was.default THEN plans[q.plan].default
                                       ELSE q.row.default
<1>1. q.step = "write" /\ Holds(q)
  BY DEF Plans!WritePlan, Plans!At, PlanInv
<1>2. q.plan \in Plans!Ids /\ q.row \in Plans!Plan /\ Plans!AssertValid(q.row.bands)
      /\ q.was \in Plans!Plan \cup {None}
  BY <1>1 DEF Holds
<1>3. PICK row \in Plans!Plan \cup {None} : row = plans[q.plan]
  BY <1>2 DEF PlanInv, PlanTyped
<1>4. PICK saved : saved = Plans!EntitySave!Saved(row, q.was, q.row)
  OBVIOUS
<1>5. /\ plans' = [plans EXCEPT ![q.plan] = saved]
      /\ tasks' = [tasks EXCEPT ![w] = Plans!Idle] /\ UNCHANGED <<made, planOf, condos, overlaps>>
  BY <1>3, <1>4 DEF Plans!WritePlan, Plans!Become
<1>6. row # None => Plans!AssertValid(row.bands)
  BY <1>2, <1>3 DEF PlanInv, Plans!Existing
<1>7. /\ saved \in Plans!Plan \cup {None}
      /\ saved # None => Plans!AssertValid(saved.bands)
      /\ row # None => saved # None
      /\ row # None /\ q.was # None =>
           saved.default = IF q.row.default = q.was.default THEN row.default ELSE q.row.default
  <2>1. CASE q.was = None
    BY <2>1, <1>2, <1>4 DEF Plans!EntitySave!Saved, PlanParameters
  <2>2. CASE q.was # None /\ row = None
    BY <2>2, <1>4 DEF Plans!EntitySave!Saved
  <2>3. CASE q.was # None /\ row # None
    <3>1. saved \in Plans!Plan /\ saved.bands \in {row.bands, q.row.bands}
          /\ saved.default = IF q.row.default = q.was.default THEN row.default ELSE q.row.default
      BY <2>3, <1>2, <1>4, SavedPlan
    <3>2. saved # None
      BY <3>1 DEF PlanParameters
    <3>3. QED
      BY <3>1, <3>2, <2>3, <1>2, <1>6
  <2>4. QED
    BY <2>1, <2>2, <2>3
<1>8. plans \in [Plans!Ids -> Plans!Plan \cup {None}]
  BY DEF PlanInv, PlanTyped
<1>9. QED
  BY <1>2, <1>3, <1>5, <1>7, <1>8

LEMMA PlanWritten == ASSUME PlanParameters, PlanInv, NEW w \in Slots, Plans!WritePlan(w) PROVE PlanInv'
<1>1. PICK q : q = tasks[w]
  OBVIOUS
<1>2. /\ tasks' = [tasks EXCEPT ![w] = Plans!Idle] /\ UNCHANGED <<made, planOf, condos, overlaps>>
      /\ q.plan \in Plans!Ids
      /\ \A p \in Plans!Ids \ {q.plan} : plans'[p] = plans[p]
      /\ plans' \in [Plans!Ids -> Plans!Plan \cup {None}]
      /\ plans'[q.plan] # None => Plans!AssertValid(plans'[q.plan].bands)
      /\ plans[q.plan] # None => plans'[q.plan] # None
  BY <1>1, PlanSaved
<1>3. \A p \in Plans!Existing : p \in Plans!Existing'
  BY <1>2 DEF Plans!Existing
<1>4. \A p \in Plans!Existing' : Plans!AssertValid(plans'[p].bands)
  BY <1>2 DEF Plans!Existing, PlanInv
<1>5. \A p \in Plans!Existing' : p <= made'
  <2>1. q.plan <= made
    BY <1>1 DEF PlanInv, Numbered, Plans!WritePlan, Plans!At
  <2>2. QED
    BY <2>1, <1>2 DEF Plans!Existing, PlanInv, PlanTyped
<1>6. made' \in Nat /\ made <= made' /\ overlaps' \in BOOLEAN
  BY <1>2 DEF PlanInv, PlanTyped
<1>7. QED
  BY <1>2, <1>3, <1>4, <1>5, <1>6, PlanWrites

\* Two UPDATEs in a transaction: every row stays, and the plan, if it is there, is the one
\* default.
LEMMA Marked ==
  ASSUME PlanParameters, PlanInv, NEW w \in Slots, Plans!MarkDefault(w)
  PROVE  /\ plans' \in [Plans!Ids -> Plans!Plan \cup {None}]
         /\ Plans!Existing' = Plans!Existing
         /\ \A p \in Plans!Existing : plans'[p].bands = plans[p].bands
                                      /\ plans'[p].default = (p = tasks[w].plan)
<1>1. PICK d : d = tasks[w].plan
  OBVIOUS
<1>2. plans' = [p \in Plans!Ids |->
        IF p \in Plans!Existing THEN [plans[p] EXCEPT !.default = (p = d)] ELSE None]
  BY <1>1 DEF Plans!MarkDefault
<1>3. ASSUME NEW p \in Plans!Existing
      PROVE  plans'[p] \in Plans!Plan /\ plans'[p].bands = plans[p].bands /\ plans'[p].default = (p = d)
  <2>1. PICK row : row = plans[p]
    OBVIOUS
  <2>2. row \in Plans!Plan /\ p \in Plans!Ids
    BY <2>1 DEF Plans!Existing, PlanInv, PlanTyped
  <2>3. plans'[p] = [row EXCEPT !.default = (p = d)]
    BY <2>1, <2>2, <1>2
  <2>4. PICK b \in BOOLEAN : b = (p = d)
    OBVIOUS
  <2>5. PICK new : new = [row EXCEPT !.default = b]
    OBVIOUS
  <2>6. new \in Plans!Plan /\ new.bands = row.bands /\ new.default = b
    BY <2>2, <2>5 DEF Plans!Plan
  <2>7. plans'[p] = new
    BY <2>3, <2>4, <2>5
  <2>8. QED
    BY <2>1, <2>4, <2>6, <2>7
<1>4. \A p \in Plans!Ids : p \notin Plans!Existing => plans'[p] = None
  BY <1>2
<1>5. Plans!Existing \subseteq Plans!Ids
  BY DEF Plans!Existing
<1>6. plans' \in [Plans!Ids -> Plans!Plan \cup {None}]
  <2>1. \A p \in Plans!Ids : plans'[p] \in Plans!Plan \cup {None}
    BY <1>3, <1>4
  <2>2. \E f : plans' = [p \in Plans!Ids |-> f[p]]
    <3>1. plans' = [p \in Plans!Ids |-> plans'[p]]
      BY <1>2
    <3>2. QED
      BY <3>1
  <2>3. QED
    BY <2>1, <2>2
<1>7. Plans!Existing' = Plans!Existing
  BY <1>3, <1>4, <1>5 DEF Plans!Existing, PlanParameters
<1>8. QED
  BY <1>1, <1>3, <1>6, <1>7

LEMMA PlanMarked == ASSUME PlanParameters, PlanInv, NEW w \in Slots, Plans!MarkDefault(w) PROVE PlanInv'
<1>1. tasks' = [tasks EXCEPT ![w] = Plans!Idle] /\ UNCHANGED <<made, planOf, condos, overlaps>>
  BY DEF Plans!MarkDefault, Plans!Become
<1>2. \A p \in Plans!Existing' : Plans!AssertValid(plans'[p].bands)
  BY Marked DEF PlanInv
<1>3. made' \in Nat /\ made <= made' /\ overlaps' \in BOOLEAN /\ \A p \in Plans!Existing' : p <= made'
  BY <1>1, Marked DEF PlanInv, PlanTyped
<1>4. QED
  BY <1>1, <1>2, <1>3, Marked, PlanWrites

\* The foreign keys keep a plan somebody refers to, however long ago it was counted.
LEMMA PlanDeleted == ASSUME PlanParameters, PlanInv, NEW w \in Slots, Plans!Delete(w) PROVE PlanInv'
<1>1. PICK d : d = tasks[w].plan
  OBVIOUS
<1>2. /\ tasks' = [tasks EXCEPT ![w] = Plans!Idle] /\ UNCHANGED <<made, planOf, condos, overlaps>>
      /\ plans' = IF Plans!Restricted(d) THEN plans ELSE [plans EXCEPT ![d] = None]
  BY <1>1 DEF Plans!Delete, Plans!Become
<1>3. plans' \in [Plans!Ids -> Plans!Plan \cup {None}]
      /\ \A p \in Plans!Ids : plans'[p] = plans[p] \/ (plans'[p] = None /\ p = d /\ ~ Plans!Restricted(d))
  BY <1>2 DEF PlanInv, PlanTyped
<1>4. \A p \in Plans!Existing' : p \in Plans!Existing /\ plans'[p] = plans[p]
  BY <1>3 DEF Plans!Existing
<1>5. \A p \in Plans!Existing : p \in Plans!Existing' \/ ~ Plans!Restricted(p)
  BY <1>3 DEF Plans!Existing
<1>6. made' \in Nat /\ made <= made' /\ overlaps' \in BOOLEAN /\ \A p \in Plans!Existing' : p <= made'
  BY <1>2, <1>4 DEF PlanInv, PlanTyped
<1>7. \A p \in Plans!Existing' : Plans!AssertValid(plans'[p].bands)
  BY <1>4 DEF PlanInv
<1>8. QED
  BY <1>2, <1>3, <1>5, <1>6, <1>7, PlanWrites

LEMMA AccountWritten == ASSUME PlanParameters, PlanInv, NEW w \in Slots, Plans!InsertAccount(w) PROVE PlanInv'
<1>1. PICK q : q = tasks[w]
  OBVIOUS
<1>2. q.step = "account" /\ q.plan \in Plans!Ids /\ q.of \in Users
  BY <1>1 DEF Plans!InsertAccount, Plans!At, PlanInv, Holds
<1>3. /\ tasks' = [tasks EXCEPT ![w] = Plans!Idle] /\ UNCHANGED <<plans, made, condos, overlaps>>
      /\ planOf' = planOf \/ (q.plan \in Plans!Existing /\ planOf' = [planOf EXCEPT ![q.of] = q.plan])
  BY <1>1 DEF Plans!InsertAccount, Plans!Become
<1>4. /\ planOf' \in [Users -> Plans!Ids \cup {None}]
      /\ \A u \in Users : planOf'[u] = planOf[u] \/ planOf'[u] \in Plans!Existing
  BY <1>2, <1>3 DEF PlanInv, PlanTyped
<1>5. condos' \in [Condominiums -> CondoRow \cup {None}] /\ \A c \in Condominiums : condos'[c] \in {None, condos[c]}
  BY <1>3 DEF PlanInv, PlanTyped
<1>6. QED
  BY <1>3, <1>4, <1>5, PlanRefers

LEMMA CondominiumWritten ==
  ASSUME PlanParameters, PlanInv, NEW w \in Slots,
         tasks' = [tasks EXCEPT ![w] = Plans!Idle] \/ tasks' = tasks,
         UNCHANGED <<plans, made, planOf, overlaps>>,
         NEW c \in Condominiums, NEW row \in CondoRow \cup {None},
         condos' = condos \/ condos' = [condos EXCEPT ![c] = row],
         row = None \/ row.plan \in Plans!Existing
  PROVE  PlanInv'
<1>1. planOf' \in [Users -> Plans!Ids \cup {None}] /\ \A u \in Users : planOf'[u] = planOf[u]
  BY DEF PlanInv, PlanTyped
<1>2. /\ condos' \in [Condominiums -> CondoRow \cup {None}]
      /\ \A d \in Condominiums : condos'[d] \in {None, condos[d]} \/ condos'[d].plan \in Plans!Existing
  BY DEF PlanInv, PlanTyped
<1>3. QED
  BY <1>1, <1>2, PlanRefers

LEMMA CondominiumStored ==
  ASSUME PlanParameters, PlanInv, NEW w \in Slots, Plans!InsertCondominium(w) \/ Plans!StoreCondominium(w)
  PROVE  PlanInv'
<1>1. PICK q : q = tasks[w]
  OBVIOUS
<1>2. tasks' = [tasks EXCEPT ![w] = Plans!Idle] /\ UNCHANGED <<plans, made, planOf, overlaps>>
  BY DEF Plans!InsertCondominium, Plans!StoreCondominium, Plans!Become
<1>3. CASE Plans!InsertCondominium(w)
  <2>1. q.of \in Condominiums /\ q.row \in CondoRow /\ q.row.plan = q.plan
    BY <1>1, <1>3 DEF Plans!InsertCondominium, Plans!At, PlanInv, Holds
  <2>2. condos' = condos \/ (q.plan \in Plans!Existing /\ condos' = [condos EXCEPT ![q.of] = q.row])
    BY <1>1, <1>3 DEF Plans!InsertCondominium
  <2>3. CASE condos' = condos
    BY <2>1, <2>3, <1>2, CondominiumWritten
  <2>4. CASE q.plan \in Plans!Existing /\ condos' = [condos EXCEPT ![q.of] = q.row]
    BY <2>1, <2>4, <1>2, CondominiumWritten
  <2>5. QED
    BY <2>2, <2>3, <2>4
<1>4. CASE Plans!StoreCondominium(w)
  <2>1. q.of \in Condominiums /\ q.row \in CondoRow /\ q.was \in CondoRow \cup {None}
    BY <1>1, <1>4 DEF Plans!StoreCondominium, Plans!At, PlanInv, Holds
  <2>2. PICK old \in CondoRow \cup {None} : old = condos[q.of]
    BY <2>1 DEF PlanInv, PlanTyped
  <2>3. PICK row \in CondoRow \cup {None} : row = Plans!EntitySave!Saved(old, q.was, q.row)
    BY <2>1, SavedCondo
  <2>4. condos' = IF row # None /\ row.plan \notin Plans!Existing THEN condos
                  ELSE [condos EXCEPT ![q.of] = row]
    BY <2>2, <2>3, <1>1, <1>4 DEF Plans!StoreCondominium
  <2>5. CASE row # None /\ row.plan \notin Plans!Existing
    BY <2>1, <2>4, <2>5, <1>2, CondominiumWritten
  <2>6. CASE row = None \/ row.plan \in Plans!Existing
    BY <2>1, <2>4, <2>6, <1>2, CondominiumWritten
  <2>7. QED
    BY <2>5, <2>6
<1>5. QED
  BY <1>3, <1>4

LEMMA PlanBegins ==
  ASSUME PlanParameters, PlanInv, NEW w \in Slots, NEW t \in PlanTask, Plans!Start(w, t),
         \/ /\ t.step = "select" /\ t.row \in Plans!Plan /\ Plans!AssertValid(t.row.bands)
            /\ t.plan \in Plans!Existing
         \/ t.step \in {"mark", "condos"} /\ t.plan \in Plans!Ids
         \/ t.step = "account" /\ t.plan \in Plans!Ids /\ t.of \in Users
         \/ /\ t.step \in {"assign", "pick"} /\ t.plan \in Plans!Ids /\ t.of \in Condominiums
            /\ t.row \in CondoRow /\ t.row.plan = t.plan
  PROVE  PlanInv'
<1>1. Holds(t)
  BY DEF Holds, Plans!Existing
<1>2. t.step \in {"select", "write"} => t.plan <= made
  BY DEF PlanInv, PlanTyped
<1>3. QED
  BY <1>1, <1>2, PlanStarts

\* The row a PATCH of a condominium saves.
LEMMA ChosenPlan ==
  ASSUME PlanParameters, PlanInv, NEW c \in Condominiums, condos[c] # None, NEW chosen,
         chosen # None => chosen \in Plans!Existing,
         NEW row, row = [condos[c] EXCEPT !.plan = IF chosen = None THEN @ ELSE chosen]
  PROVE  row \in CondoRow
<1>1. PICK old : old = condos[c]
  OBVIOUS
<1>2. old \in CondoRow
  BY <1>1 DEF PlanInv, PlanTyped
<1>3. PICK p \in Plans!Ids : p = IF chosen = None THEN old.plan ELSE chosen
  BY <1>2 DEF CondoRow, Plans!Existing
<1>4. row = [old EXCEPT !.plan = p]
  BY <1>1, <1>3
<1>5. QED
  BY <1>2, <1>4 DEF CondoRow

LEMMA NextPlans == ASSUME PlanParameters, PlanInv, [Plans!Next]_Plans!planVars PROVE PlanInv'
<1>1. {"select", "mark", "condos", "users", "delete", "account", "assign", "pick", "write", "store"} \subseteq PlanSteps
  BY DEF PlanSteps
<1>2. Plans!Existing \subseteq Plans!Ids
  BY DEF Plans!Existing
<1>3. ASSUME NEW w \in Slots, NEW p \in Plans!Ids, NEW q \in Patches, Plans!PatchPlan(w, p, q) PROVE PlanInv'
  <2>1. p \in Plans!Existing /\ plans[p] \in Plans!Plan /\ Plans!AssertValid(plans[p].bands)
        /\ (q.bands # None => Plans!AssertValid(q.bands))
    BY <1>3 DEF Plans!PatchPlan, Plans!Existing, PlanInv, PlanTyped
  <2>2. PICK row : row = Plans!Patched(plans[p], q)
    OBVIOUS
  <2>3. row \in Plans!Plan /\ Plans!AssertValid(row.bands)
    BY <2>1, <2>2, PatchedPlan
  <2>4. PICK t : t = [Plans!Idle EXCEPT !.step = "select", !.plan = p, !.row = row]
    OBVIOUS
  <2>5. t \in PlanTask /\ t.step = "select" /\ t.plan = p /\ t.row = row
    BY <1>1, <2>3, <2>4 DEF Plans!Idle, PlanTask
  <2>6. Plans!Start(w, t)
    BY <1>3, <2>2, <2>4 DEF Plans!PatchPlan
  <2>7. QED
    BY <2>1, <2>3, <2>5, <2>6, PlanBegins
<1>4. ASSUME NEW w \in Slots, NEW p \in Plans!Ids, Plans!SetDefaultPlan(w, p) \/ Plans!DeletePlan(w, p)
      PROVE  PlanInv'
  <2>1. PICK step \in {"mark", "condos"} : Plans!Start(w, [Plans!Idle EXCEPT !.step = step, !.plan = p])
    BY <1>4 DEF Plans!SetDefaultPlan, Plans!DeletePlan
  <2>2. PICK t : t = [Plans!Idle EXCEPT !.step = step, !.plan = p]
    OBVIOUS
  <2>3. t \in PlanTask /\ t.step = step /\ t.plan = p
    BY <1>1, <2>2 DEF Plans!Idle, PlanTask
  <2>4. QED
    BY <2>1, <2>2, <2>3, PlanBegins
<1>5. ASSUME NEW w \in Slots, NEW u \in Users, Plans!Register(w, u) PROVE PlanInv'
  <2>1. PICK p \in Plans!Existing : Plans!Start(w, [Plans!Idle EXCEPT !.step = "account", !.plan = p, !.of = u])
    BY <1>5 DEF Plans!Register, Plans!Defaults
  <2>2. PICK t : t = [Plans!Idle EXCEPT !.step = "account", !.plan = p, !.of = u]
    OBVIOUS
  <2>3. t \in PlanTask /\ t.step = "account" /\ t.plan = p /\ t.of = u
    BY <1>1, <1>2, <2>2 DEF Plans!Idle, PlanTask
  <2>4. QED
    BY <1>2, <2>1, <2>2, <2>3, PlanBegins
<1>6. ASSUME NEW w \in Slots, NEW u \in Users, NEW c \in Condominiums, NEW chosen \in Plans!Ids \cup {None},
             Plans!CreateCondominium(w, c, u, chosen)
      PROVE  PlanInv'
  <2>1. PICK p \in Plans!Existing :
          Plans!Start(w, [Plans!Idle EXCEPT !.step = "assign", !.plan = p, !.of = c,
                                            !.row = [owner |-> u, plan |-> p]])
    BY <1>6 DEF Plans!CreateCondominium, Plans!Defaults
  <2>2. PICK row : row = [owner |-> u, plan |-> p]
    OBVIOUS
  <2>3. row \in CondoRow /\ row.plan = p
    BY <2>2, <1>2 DEF CondoRow
  <2>4. PICK t : t = [Plans!Idle EXCEPT !.step = "assign", !.plan = p, !.of = c, !.row = row]
    OBVIOUS
  <2>5. t \in PlanTask /\ t.step = "assign" /\ t.plan = p /\ t.of = c /\ t.row = row
    BY <1>1, <1>2, <2>3, <2>4 DEF Plans!Idle, PlanTask
  <2>6. Plans!Start(w, t)
    BY <2>1, <2>2, <2>4
  <2>7. QED
    BY <1>2, <2>3, <2>5, <2>6, PlanBegins
<1>7. ASSUME NEW w \in Slots, NEW c \in Condominiums, NEW chosen \in Plans!Ids \cup {None},
             Plans!UpdateCondominium(w, c, chosen)
      PROVE  PlanInv'
  <2>1. PICK row : row = [condos[c] EXCEPT !.plan = IF chosen = None THEN @ ELSE chosen]
    OBVIOUS
  <2>2. condos[c] # None /\ (chosen # None => chosen \in Plans!Existing)
        /\ Plans!Start(w, [Plans!Idle EXCEPT !.step = "pick", !.plan = row.plan, !.of = c, !.row = row])
    BY <1>7, <2>1 DEF Plans!UpdateCondominium
  <2>3. row \in CondoRow
    BY <2>1, <2>2, ChosenPlan
  <2>4. PICK p \in Plans!Ids : p = row.plan
    BY <2>3 DEF CondoRow
  <2>5. PICK t : t = [Plans!Idle EXCEPT !.step = "pick", !.plan = p, !.of = c, !.row = row]
    OBVIOUS
  <2>6. t \in PlanTask /\ t.step = "pick" /\ t.plan = p /\ t.of = c /\ t.row = row
    BY <1>1, <2>3, <2>5 DEF Plans!Idle, PlanTask
  <2>7. Plans!Start(w, t)
    BY <2>2, <2>4, <2>5
  <2>8. QED
    BY <2>3, <2>4, <2>6, <2>7, PlanBegins
<1>8. ASSUME NEW w \in Slots,
             Plans!SelectPlan(w) \/ Plans!CountCondominiums(w) \/ Plans!CountUsers(w)
             \/ Plans!SelectCondominium(w) \/ Plans!Interrupt(w)
      PROVE  PlanInv'
  <2>1. PICK q \in PlanTask : q = tasks[w] /\ Holds(q)
    BY DEF PlanInv, PlanTyped
  <2>2. overlaps' = overlaps /\ UNCHANGED <<plans, made, planOf, condos>>
    BY <1>8 DEF Plans!SelectPlan, Plans!CountCondominiums, Plans!CountUsers, Plans!SelectCondominium,
                Plans!Interrupt
  <2>3. overlaps' \in BOOLEAN
    BY <2>2 DEF PlanInv, PlanTyped
  <2>4. CASE Plans!SelectPlan(w)
    <3>1. q.step = "select"
      BY <2>1, <2>4 DEF Plans!SelectPlan, Plans!At
    <3>2. PICK old \in Plans!Plan \cup {None} : old = plans[q.plan]
      BY <3>1, <2>1 DEF Holds, PlanInv, PlanTyped
    <3>3. PICK t : t = [q EXCEPT !.step = "write", !.was = old]
      OBVIOUS
    <3>4. t \in PlanTask /\ t.step = "write" /\ t.was = old /\ t.row = q.row /\ t.plan = q.plan
      BY <3>3, <1>1 DEF PlanTask
    <3>5. Holds(t) /\ t.plan <= made
      BY <3>1, <3>4, <2>1 DEF Holds, PlanInv, Numbered
    <3>6. tasks' = [tasks EXCEPT ![w] = t]
      BY <3>2, <3>3, <2>1, <2>4 DEF Plans!SelectPlan, Plans!Become
    <3>7. QED
      BY <3>4, <3>5, <3>6, <2>2, <2>3, PlanMoves
  <2>5. CASE Plans!SelectCondominium(w)
    <3>1. q.step = "pick"
      BY <2>1, <2>5 DEF Plans!SelectCondominium, Plans!At
    <3>2. PICK old \in CondoRow \cup {None} : old = condos[q.of]
      BY <3>1, <2>1 DEF Holds, PlanInv, PlanTyped
    <3>3. PICK t : t = [q EXCEPT !.step = "store", !.was = old]
      OBVIOUS
    <3>4. t \in PlanTask /\ t.step = "store" /\ t.was = old /\ t.row = q.row /\ t.of = q.of
      BY <3>3, <1>1 DEF PlanTask
    <3>5. Holds(t)
      BY <3>1, <3>4, <2>1 DEF Holds
    <3>6. tasks' = [tasks EXCEPT ![w] = t]
      BY <3>2, <3>3, <2>1, <2>5 DEF Plans!SelectCondominium, Plans!Become
    <3>7. QED
      BY <3>4, <3>5, <3>6, <2>2, <2>3, PlanMoves
  <2>6. CASE tasks' = [tasks EXCEPT ![w] = Plans!Idle]
    <3>1. Holds(Plans!Idle)
      BY DEF Plans!Idle, Holds
    <3>2. QED
      BY <3>1, <2>2, <2>3, <2>6, PlanIdle, PlanMoves
  <2>7. ASSUME NEW step \in {"users", "delete"}, q.step \in {"condos", "users"},
               tasks' = [tasks EXCEPT ![w] = [q EXCEPT !.step = step]]
        PROVE  PlanInv'
    <3>1. PICK t : t = [q EXCEPT !.step = step]
      OBVIOUS
    <3>2. t \in PlanTask /\ t.step = step /\ t.plan = q.plan
      BY <3>1, <1>1 DEF PlanTask
    <3>3. Holds(t)
      BY <3>2, <2>1, <2>7 DEF Holds
    <3>4. QED
      BY <3>1, <3>2, <3>3, <2>2, <2>3, <2>7, PlanMoves
  <2>8. CASE Plans!CountCondominiums(w) \/ Plans!CountUsers(w)
    <3>1. \/ tasks' = [tasks EXCEPT ![w] = Plans!Idle]
          \/ \E step \in {"users", "delete"} :
                q.step \in {"condos", "users"} /\ tasks' = [tasks EXCEPT ![w] = [q EXCEPT !.step = step]]
      BY <2>1, <2>8 DEF Plans!CountCondominiums, Plans!CountUsers, Plans!Become, Plans!Move, Plans!At
    <3>2. QED
      BY <3>1, <2>6, <2>7
  <2>9. CASE Plans!Interrupt(w)
    BY <2>6, <2>9 DEF Plans!Interrupt, Plans!Become
  <2>10. QED
    BY <1>8, <2>4, <2>5, <2>8, <2>9
<1>9. ASSUME NEW c \in Condominiums, Plans!RemoveCondominium(c), NEW w \in Slots PROVE PlanInv'
  BY <1>9, CondominiumWritten DEF Plans!RemoveCondominium
<1>10. ASSUME NEW c \in Condominiums, Plans!RemoveCondominium(c), Slots = {} PROVE PlanInv'
  <2>1. /\ condos' = [condos EXCEPT ![c] = None] /\ UNCHANGED <<plans, made, planOf, tasks, overlaps>>
    BY <1>10 DEF Plans!RemoveCondominium
  <2>2. PlanTyped' /\ Plans!PlansKept' /\ \A p \in Plans!Existing' : Plans!AssertValid(plans'[p].bands)
    BY <2>1 DEF PlanInv, PlanTyped, Plans!PlansKept, Plans!Existing
  <2>3. QED
    BY <2>2, <1>10 DEF PlanInv, Numbered
<1>11. CASE UNCHANGED Plans!planVars
  BY <1>11 DEF Plans!planVars, PlanInv, PlanTyped, Numbered, Holds, Plans!PlansKept, Plans!Existing
<1>12. QED
  BY <1>3, <1>4, <1>5, <1>6, <1>7, <1>8, <1>9, <1>10, <1>11, PlanCreated, PlanWritten, PlanMarked, PlanDeleted,
     AccountWritten, CondominiumStored DEF Plans!Next

LEMMA PlanInvariant == ASSUME PlanParameters PROVE Plans!Spec => []PlanInv
<1>1. Plans!Init => PlanInv
  BY InitPlans
<1>2. PlanInv /\ [Plans!Next]_Plans!planVars => PlanInv'
  BY NextPlans
<1>3. QED
  BY <1>1, <1>2, PTL DEF Plans!Spec

\* PlansKept: the counts that precede the deletion of a plan may be out of date, and an
\* account or a condominium may be on its way to a plan that goes meanwhile; no row refers
\* to a plan that is gone all the same.
THEOREM PlansStay == ASSUME PlanParameters PROVE Plans!Spec => []Plans!PlansKept
<1>1. PlanInv => Plans!PlansKept
  BY DEF PlanInv
<1>2. QED
  BY <1>1, PlanInvariant, PTL

\* What a request holds agrees with the plans while no other request runs.
Steady(q) ==
    /\ q.step \in {"select", "write"} =>
          q.plan \in Plans!Existing /\ q.row.default = plans[q.plan].default
    /\ q.step = "write" => q.was = plans[q.plan]
    /\ q.step \in {"mark", "condos", "users", "delete"} => q.plan \in Plans!Existing
    /\ q.step \in {"condos", "users", "delete"} => ~ plans[q.plan].default

Alone == \A v, w \in Slots : tasks[v] # Plans!Idle /\ tasks[w] # Plans!Idle => v = w

SoleDefault == \E p \in Plans!Existing : Plans!Defaults = {p}

OnePlan == ~ overlaps => Alone /\ SoleDefault /\ \A w \in Slots : Steady(tasks[w])

LEMMA IdleSteady == \A q : q = Plans!Idle => Steady(q)
  BY DEF Plans!Idle, Steady

LEMMA InitOnePlan == ASSUME PlanParameters PROVE Plans!Init => OnePlan
<1> SUFFICES ASSUME Plans!Init PROVE OnePlan
  OBVIOUS
<1>1. PICK first : first = [price |-> 0, bands |-> <<>>, active |-> TRUE, default |-> TRUE]
  OBVIOUS
<1>2. first \in Plans!Plan /\ first.default = TRUE
  BY <1>1 DEF PlanParameters, Plans!Plan
<1>3. plans = [p \in Plans!Ids |-> IF p = 1 THEN first ELSE None] /\ 1 \in Plans!Ids
  BY <1>1 DEF Plans!Init, Plans!Ids, PlanParameters
<1>4. Plans!Existing = {1}
  BY <1>2, <1>3 DEF PlanParameters, Plans!Existing
<1>5. Plans!Defaults = {1}
  BY <1>2, <1>3, <1>4 DEF Plans!Defaults
<1>6. \A w \in Slots : tasks[w] = Plans!Idle
  BY DEF Plans!Init
<1>7. QED
  BY <1>4, <1>5, <1>6, IdleSteady DEF OnePlan, Alone, SoleDefault

\* A step that writes no plan.
LEMMA OnePlanMoves ==
  ASSUME PlanInv, OnePlan, NEW w \in Slots, NEW q, tasks' = [tasks EXCEPT ![w] = q],
         plans' = plans, ~ overlaps' => ~ overlaps,
         ~ overlaps' /\ q # Plans!Idle => \A v \in Slots \ {w} : tasks[v] = Plans!Idle,
         ~ overlaps' => Steady(q)
  PROVE  OnePlan'
<1> SUFFICES ASSUME ~ overlaps' PROVE (Alone /\ SoleDefault /\ \A v \in Slots : Steady(tasks[v]))'
  BY DEF OnePlan
<1>1. Alone /\ SoleDefault /\ \A v \in Slots : Steady(tasks[v])
  BY DEF OnePlan
<1>2. tasks'[w] = q /\ \A v \in Slots \ {w} : tasks'[v] = tasks[v]
  BY DEF PlanInv, PlanTyped
<1>3. Plans!Existing' = Plans!Existing /\ Plans!Defaults' = Plans!Defaults
  BY DEF Plans!Existing, Plans!Defaults
<1>4. SoleDefault'
  BY <1>1, <1>3 DEF SoleDefault
<1>5. \A v \in Slots : Steady(tasks'[v])
  BY <1>1, <1>2
<1>6. \A v \in Slots : Steady(tasks[v])'
  BY <1>3, <1>5 DEF Steady
<1>7. Alone'
  BY <1>1, <1>2 DEF Alone
<1>8. QED
  BY <1>4, <1>6, <1>7

\* A step that writes plans: the request that takes it is the only one.
LEMMA OnePlanWrites ==
  ASSUME PlanInv, OnePlan, NEW w \in Slots,
         \/ tasks' = [tasks EXCEPT ![w] = Plans!Idle]
         \/ tasks' = tasks /\ tasks[w] = Plans!Idle,
         ~ overlaps' => ~ overlaps,
         ~ overlaps' => \A v \in Slots \ {w} : tasks[v] = Plans!Idle,
         ~ overlaps' => SoleDefault'
  PROVE  OnePlan'
<1>1. tasks'[w] = Plans!Idle /\ \A v \in Slots \ {w} : tasks'[v] = tasks[v]
  BY DEF PlanInv, PlanTyped
<1>2. ~ overlaps' => \A v \in Slots : tasks'[v] = Plans!Idle
  BY <1>1
<1>3. ~ overlaps' => \A v \in Slots : Steady(tasks[v])'
  BY <1>2 DEF Plans!Idle, Steady
<1>4. QED
  BY <1>2, <1>3 DEF OnePlan, Alone

LEMMA OthersIdle ==
  ASSUME OnePlan, ~ overlaps, NEW w \in Slots, tasks[w] # Plans!Idle
  PROVE  \A v \in Slots \ {w} : tasks[v] = Plans!Idle
  BY DEF OnePlan, Alone

\* The default survives where no row of it is touched and no other becomes one.
LEMMA SameDefaults ==
  ASSUME SoleDefault, NEW d \in Plans!Ids,
         \A p \in Plans!Ids \ {d} : plans'[p] = plans[p],
         plans'[d] # None /\ plans'[d].default <=> plans[d] # None /\ plans[d].default
  PROVE  SoleDefault'
<1>1. Plans!Defaults' = Plans!Defaults
  BY DEF Plans!Defaults, Plans!Existing
<1>2. Plans!Defaults' \subseteq Plans!Existing'
  BY DEF Plans!Defaults
<1>3. QED
  BY <1>1, <1>2 DEF SoleDefault

LEMMA OnePlanCreated ==
  ASSUME PlanParameters, PlanInv, OnePlan, NEW w \in Slots, NEW bands \in Bands \cup {<<>>}, NEW price \in Prices,
         Plans!CreatePlan(w, bands, price)
  PROVE  OnePlan'
<1>1. tasks' = tasks /\ tasks[w] = Plans!Idle /\ (~ overlaps' => ~ overlaps)
      /\ (~ overlaps' => \A v \in Slots \ {w} : tasks[v] = Plans!Idle)
  BY DEF Plans!CreatePlan
<1>2. PICK d \in Plans!Ids : d = made + 1
  BY NewPlan
<1>3. plans[d] = None /\ ~ plans'[d].default /\ \A p \in Plans!Ids \ {d} : plans'[p] = plans[p]
  BY <1>2, NewPlan DEF Plans!Existing
<1>4. SoleDefault => SoleDefault'
  BY <1>3, SameDefaults
<1>5. QED
  BY <1>1, <1>4, OnePlanWrites DEF OnePlan

LEMMA OnePlanSaved ==
  ASSUME PlanParameters, PlanInv, OnePlan, NEW w \in Slots, Plans!WritePlan(w)
  PROVE  OnePlan'
<1>1. PICK q : q = tasks[w]
  OBVIOUS
<1>2. q.step = "write" /\ tasks[w] # Plans!Idle
  BY <1>1, PlanIdle DEF Plans!WritePlan, Plans!At
<1>3. tasks' = [tasks EXCEPT ![w] = Plans!Idle] /\ overlaps' = overlaps
  BY <1>1, PlanSaved
<1>4. ASSUME ~ overlaps PROVE SoleDefault'
  <2>1. q.plan \in Plans!Existing /\ q.was = plans[q.plan] /\ q.row.default = plans[q.plan].default /\ SoleDefault
    BY <1>1, <1>2, <1>4 DEF OnePlan, Steady
  <2>2. q.plan \in Plans!Ids /\ plans[q.plan] # None /\ q.was # None
    BY <2>1 DEF Plans!Existing
  <2>3. plans'[q.plan] # None /\ \A p \in Plans!Ids \ {q.plan} : plans'[p] = plans[p]
    BY <2>2, <1>1, PlanSaved
  <2>4. plans'[q.plan].default = IF q.row.default = q.was.default THEN plans[q.plan].default ELSE q.row.default
    BY <2>2, <1>1, PlanSaved
  <2>5. plans'[q.plan].default = plans[q.plan].default
    BY <2>1, <2>4
  <2>6. QED
    BY <2>1, <2>2, <2>3, <2>5, SameDefaults
<1>5. ~ overlaps => \A v \in Slots \ {w} : tasks[v] = Plans!Idle
  BY <1>2, OthersIdle
<1>6. (~ overlaps' => ~ overlaps) /\ (~ overlaps' => SoleDefault')
  BY <1>3, <1>4
<1>7. QED
  BY <1>3, <1>5, <1>6, OnePlanWrites

LEMMA OnePlanMarked ==
  ASSUME PlanParameters, PlanInv, OnePlan, NEW w \in Slots, Plans!MarkDefault(w)
  PROVE  OnePlan'
<1>1. PICK d : d = tasks[w].plan
  OBVIOUS
<1>2. tasks' = [tasks EXCEPT ![w] = Plans!Idle] /\ overlaps' = overlaps /\ tasks[w].step = "mark"
  BY DEF Plans!MarkDefault, Plans!Become, Plans!At
<1>3. ASSUME ~ overlaps PROVE SoleDefault'
  <2>1. d \in Plans!Existing
    BY <1>1, <1>2, <1>3 DEF OnePlan, Steady
  <2>2. Plans!Existing' = Plans!Existing /\ \A p \in Plans!Existing : plans'[p].default = (p = d)
    BY <1>1, Marked
  <2>3. Plans!Defaults' = {d}
    BY <2>1, <2>2 DEF Plans!Defaults
  <2>4. QED
    BY <2>1, <2>2, <2>3 DEF SoleDefault
<1>4. ~ overlaps => \A v \in Slots \ {w} : tasks[v] = Plans!Idle
  BY <1>2, PlanIdle, OthersIdle
<1>5. (~ overlaps' => ~ overlaps) /\ (~ overlaps' => SoleDefault')
  BY <1>2, <1>3
<1>6. QED
  BY <1>2, <1>4, <1>5, OnePlanWrites

LEMMA OnePlanDeleted ==
  ASSUME PlanParameters, PlanInv, OnePlan, NEW w \in Slots, Plans!Delete(w)
  PROVE  OnePlan'
<1>1. PICK d : d = tasks[w].plan
  OBVIOUS
<1>2. /\ tasks' = [tasks EXCEPT ![w] = Plans!Idle] /\ overlaps' = overlaps /\ tasks[w].step = "delete"
      /\ plans' = IF Plans!Restricted(d) THEN plans ELSE [plans EXCEPT ![d] = None]
  BY <1>1 DEF Plans!Delete, Plans!Become, Plans!At
<1>3. ASSUME ~ overlaps PROVE SoleDefault'
  <2>1. d \in Plans!Existing /\ ~ plans[d].default /\ SoleDefault
    BY <1>1, <1>2, <1>3 DEF OnePlan, Steady
  <2>2. d \in Plans!Ids /\ plans \in [Plans!Ids -> Plans!Plan \cup {None}]
    BY <2>1 DEF PlanInv, PlanTyped, Plans!Existing
  <2>3. \A p \in Plans!Ids \ {d} : plans'[p] = plans[p]
    BY <1>2, <2>2
  <2>4. plans'[d] = plans[d] \/ plans'[d] = None
    BY <1>2, <2>2
  <2>5. QED
    BY <2>1, <2>2, <2>3, <2>4, SameDefaults
<1>4. ~ overlaps => \A v \in Slots \ {w} : tasks[v] = Plans!Idle
  BY <1>2, PlanIdle, OthersIdle
<1>5. (~ overlaps' => ~ overlaps) /\ (~ overlaps' => SoleDefault')
  BY <1>2, <1>3
<1>6. QED
  BY <1>2, <1>4, <1>5, OnePlanWrites

\* A request after its first read.
LEMMA OnePlanBegins ==
  ASSUME PlanParameters, PlanInv, OnePlan, NEW w \in Slots, NEW t, Plans!Start(w, t),
         \/ /\ t.step = "select" /\ t.plan \in Plans!Existing
            /\ t.row.default = plans[t.plan].default
         \/ t.step = "mark" /\ t.plan \in Plans!Existing
         \/ t.step = "condos" /\ t.plan \in Plans!Existing /\ ~ plans[t.plan].default
         \/ t.step \in {"account", "assign", "pick"}
  PROVE  OnePlan'
<1>1. Steady(t)
  BY DEF Steady
<1>2. /\ tasks' = [tasks EXCEPT ![w] = t] /\ plans' = plans /\ (~ overlaps' => ~ overlaps)
      /\ (~ overlaps' => \A v \in Slots \ {w} : tasks[v] = Plans!Idle)
  BY DEF Plans!Start, Plans!Become
<1>3. QED
  BY <1>1, <1>2, OnePlanMoves

\* A later step of a request that writes no plan.
LEMMA OnePlanGoesOn ==
  ASSUME PlanParameters, PlanInv, OnePlan, NEW w \in Slots, tasks[w] # Plans!Idle,
         NEW t, tasks' = [tasks EXCEPT ![w] = t], plans' = plans, overlaps' = overlaps,
         ~ overlaps => Steady(t)
  PROVE  OnePlan'
  BY OthersIdle, OnePlanMoves

LEMMA NextOnePlan ==
  ASSUME PlanParameters, PlanInv, OnePlan, [Plans!Next]_Plans!planVars
  PROVE  OnePlan'
<1>1. Plans!Existing \subseteq Plans!Ids
  BY DEF Plans!Existing
<1>2. ASSUME NEW w \in Slots, NEW p \in Plans!Ids, NEW q \in Patches, Plans!PatchPlan(w, p, q) PROVE OnePlan'
  <2>1. p \in Plans!Existing /\ plans[p] \in Plans!Plan /\ Plans!AssertValid(plans[p].bands)
        /\ (q.bands # None => Plans!AssertValid(q.bands))
    BY <1>2 DEF Plans!PatchPlan, Plans!Existing, PlanInv, PlanTyped
  <2>2. PICK row : row = Plans!Patched(plans[p], q)
    OBVIOUS
  <2>3. row.default = plans[p].default
    BY <2>1, <2>2, PatchedPlan
  <2>4. PICK t : t = [Plans!Idle EXCEPT !.step = "select", !.plan = p, !.row = row]
    OBVIOUS
  <2>5. t.step = "select" /\ t.plan = p /\ t.row = row
    BY <2>4 DEF Plans!Idle
  <2>6. Plans!Start(w, t)
    BY <1>2, <2>2, <2>4 DEF Plans!PatchPlan
  <2>7. QED
    BY <2>1, <2>3, <2>5, <2>6, OnePlanBegins
<1>3. ASSUME NEW w \in Slots, NEW p \in Plans!Ids, Plans!SetDefaultPlan(w, p) PROVE OnePlan'
  <2>1. PICK t : t = [Plans!Idle EXCEPT !.step = "mark", !.plan = p]
    OBVIOUS
  <2>2. t.step = "mark" /\ t.plan = p
    BY <2>1 DEF Plans!Idle
  <2>3. p \in Plans!Existing /\ Plans!Start(w, t)
    BY <1>3, <2>1 DEF Plans!SetDefaultPlan
  <2>4. QED
    BY <2>2, <2>3, OnePlanBegins
<1>4. ASSUME NEW w \in Slots, NEW p \in Plans!Ids, Plans!DeletePlan(w, p) PROVE OnePlan'
  <2>1. PICK t : t = [Plans!Idle EXCEPT !.step = "condos", !.plan = p]
    OBVIOUS
  <2>2. t.step = "condos" /\ t.plan = p
    BY <2>1 DEF Plans!Idle
  <2>3. p \in Plans!Existing /\ ~ plans[p].default /\ Plans!Start(w, t)
    BY <1>4, <2>1 DEF Plans!DeletePlan
  <2>4. QED
    BY <2>2, <2>3, OnePlanBegins
<1>5. ASSUME NEW w \in Slots, NEW u \in Users, Plans!Register(w, u) PROVE OnePlan'
  <2>1. PICK p : Plans!Start(w, [Plans!Idle EXCEPT !.step = "account", !.plan = p, !.of = u])
    BY <1>5 DEF Plans!Register
  <2>2. PICK t : t = [Plans!Idle EXCEPT !.step = "account", !.plan = p, !.of = u]
    OBVIOUS
  <2>3. t.step = "account"
    BY <2>2 DEF Plans!Idle
  <2>4. QED
    BY <2>1, <2>2, <2>3, OnePlanBegins
<1>6. ASSUME NEW w \in Slots, NEW u \in Users, NEW c \in Condominiums, NEW chosen,
             Plans!CreateCondominium(w, c, u, chosen)
      PROVE  OnePlan'
  <2>1. PICK p : Plans!Start(w, [Plans!Idle EXCEPT !.step = "assign", !.plan = p, !.of = c,
                                                   !.row = [owner |-> u, plan |-> p]])
    BY <1>6 DEF Plans!CreateCondominium
  <2>2. PICK row : row = [owner |-> u, plan |-> p]
    OBVIOUS
  <2>3. PICK t : t = [Plans!Idle EXCEPT !.step = "assign", !.plan = p, !.of = c, !.row = row]
    OBVIOUS
  <2>4. t.step = "assign"
    BY <2>3 DEF Plans!Idle
  <2>5. QED
    BY <2>1, <2>2, <2>3, <2>4, OnePlanBegins
<1>7. ASSUME NEW w \in Slots, NEW c \in Condominiums, NEW chosen, Plans!UpdateCondominium(w, c, chosen)
      PROVE  OnePlan'
  <2>1. PICK row : Plans!Start(w, [Plans!Idle EXCEPT !.step = "pick", !.plan = row.plan, !.of = c, !.row = row])
    BY <1>7 DEF Plans!UpdateCondominium
  <2>2. PICK p : p = row.plan
    OBVIOUS
  <2>3. PICK t : t = [Plans!Idle EXCEPT !.step = "pick", !.plan = p, !.of = c, !.row = row]
    OBVIOUS
  <2>4. t.step = "pick"
    BY <2>3 DEF Plans!Idle
  <2>5. QED
    BY <2>1, <2>2, <2>3, <2>4, OnePlanBegins
<1>8. ASSUME NEW w \in Slots,
             Plans!SelectPlan(w) \/ Plans!CountCondominiums(w) \/ Plans!CountUsers(w)
             \/ Plans!InsertAccount(w) \/ Plans!InsertCondominium(w)
             \/ Plans!SelectCondominium(w) \/ Plans!StoreCondominium(w) \/ Plans!Interrupt(w)
      PROVE  OnePlan'
  <2>1. PICK q \in PlanTask : q = tasks[w]
    BY DEF PlanInv, PlanTyped
  <2>2. plans' = plans /\ overlaps' = overlaps
    BY <1>8 DEF Plans!SelectPlan, Plans!CountCondominiums, Plans!CountUsers, Plans!InsertAccount,
                Plans!InsertCondominium, Plans!SelectCondominium, Plans!StoreCondominium, Plans!Interrupt
  <2>3. tasks[w] # Plans!Idle
    BY <1>8, PlanIdle DEF Plans!SelectPlan, Plans!CountCondominiums, Plans!CountUsers, Plans!InsertAccount, Plans!At,
                Plans!InsertCondominium, Plans!SelectCondominium, Plans!StoreCondominium, Plans!Interrupt
  <2>4. ~ overlaps => Steady(q)
    BY <2>1 DEF OnePlan
  <2>5. CASE tasks' = [tasks EXCEPT ![w] = Plans!Idle]
    BY <2>2, <2>3, <2>5, IdleSteady, OnePlanGoesOn
  <2>6. CASE Plans!SelectPlan(w)
    <3>1. PICK old : old = plans[q.plan]
      OBVIOUS
    <3>2. PICK t : t = [q EXCEPT !.step = "write", !.was = old]
      OBVIOUS
    <3>3. t.step = "write" /\ t.was = old /\ t.row = q.row /\ t.plan = q.plan
      BY <3>2 DEF PlanTask
    <3>4. q.step = "select" /\ tasks' = [tasks EXCEPT ![w] = t]
      BY <3>1, <3>2, <2>1, <2>6 DEF Plans!SelectPlan, Plans!Become, Plans!At
    <3>5. ~ overlaps => Steady(t)
      BY <3>1, <3>3, <3>4, <2>4 DEF Steady
    <3>6. QED
      BY <3>4, <3>5, <2>2, <2>3, OnePlanGoesOn
  <2>7. CASE Plans!SelectCondominium(w)
    <3>1. PICK old : old = condos[q.of]
      OBVIOUS
    <3>2. PICK t : t = [q EXCEPT !.step = "store", !.was = old]
      OBVIOUS
    <3>3. t.step = "store"
      BY <3>2 DEF PlanTask
    <3>4. tasks' = [tasks EXCEPT ![w] = t]
      BY <3>1, <3>2, <2>1, <2>7 DEF Plans!SelectCondominium, Plans!Become
    <3>5. Steady(t)
      BY <3>3 DEF Steady
    <3>6. QED
      BY <3>4, <3>5, <2>2, <2>3, OnePlanGoesOn
  <2>8. ASSUME NEW step \in {"users", "delete"}, q.step \in {"condos", "users"},
               tasks' = [tasks EXCEPT ![w] = [q EXCEPT !.step = step]]
        PROVE  OnePlan'
    <3>1. PICK t : t = [q EXCEPT !.step = step]
      OBVIOUS
    <3>2. t.step = step /\ t.plan = q.plan
      BY <3>1 DEF PlanTask
    <3>3. ~ overlaps => Steady(t)
      BY <3>2, <2>4, <2>8 DEF Steady
    <3>4. QED
      BY <3>1, <3>3, <2>2, <2>3, <2>8, OnePlanGoesOn
  <2>9. CASE Plans!CountCondominiums(w) \/ Plans!CountUsers(w)
    <3>1. \/ tasks' = [tasks EXCEPT ![w] = Plans!Idle]
          \/ \E step \in {"users", "delete"} :
                q.step \in {"condos", "users"} /\ tasks' = [tasks EXCEPT ![w] = [q EXCEPT !.step = step]]
      BY <2>1, <2>9 DEF Plans!CountCondominiums, Plans!CountUsers, Plans!Become, Plans!Move, Plans!At
    <3>2. QED
      BY <3>1, <2>5, <2>8
  <2>10. CASE Plans!InsertAccount(w) \/ Plans!InsertCondominium(w) \/ Plans!StoreCondominium(w) \/ Plans!Interrupt(w)
    BY <2>5, <2>10 DEF Plans!InsertAccount, Plans!InsertCondominium, Plans!StoreCondominium, Plans!Interrupt,
                       Plans!Become
  <2>11. QED
    BY <1>8, <2>6, <2>7, <2>9, <2>10
<1>9. ASSUME UNCHANGED <<plans, tasks, overlaps>> PROVE OnePlan'
  BY <1>9 DEF OnePlan, Alone, SoleDefault, Steady, Plans!Existing, Plans!Defaults
<1>10. ASSUME NEW c \in Condominiums, Plans!RemoveCondominium(c) PROVE OnePlan'
  BY <1>9, <1>10 DEF Plans!RemoveCondominium
<1>11. CASE UNCHANGED Plans!planVars
  BY <1>9, <1>11 DEF Plans!planVars
<1>12. QED
  BY <1>2, <1>3, <1>4, <1>5, <1>6, <1>7, <1>8, <1>10, <1>11, OnePlanCreated, OnePlanSaved, OnePlanMarked,
     OnePlanDeleted DEF Plans!Next

LEMMA OnePlanInvariant == ASSUME PlanParameters PROVE Plans!Spec => [](PlanInv /\ OnePlan)
<1>1. Plans!Init => OnePlan
  BY InitOnePlan
<1>2. PlanInv /\ OnePlan /\ [Plans!Next]_Plans!planVars => OnePlan'
  BY NextOnePlan
<1>3. QED
  BY <1>1, <1>2, PlanInvariant, PTL DEF Plans!Spec

LEMMA PlansCount == \A S : Plans!Cardinality(S) = Cardinality(S)
  BY DEF Plans!Cardinality, Cardinality

\* OneDefault: while requests do not overlap, the platform has one default plan after
\* every step, also of a request that was interrupted between its read and its write.
THEOREM OneDefaultPlan == ASSUME PlanParameters PROVE Plans!Spec => []Plans!OneDefault
<1>1. SoleDefault => Cardinality(Plans!Defaults) = 1
  BY FS_Singleton DEF SoleDefault
<1>2. OnePlan => Plans!OneDefault
  BY <1>1, PlansCount DEF OnePlan, Plans!OneDefault
<1>3. QED
  BY <1>2, OnePlanInvariant, PTL

\* EveryCondominiumBilled: while requests do not overlap, a plan is found for every
\* condominium: its own, its owner's, or the default one.
THEOREM CondominiumsBilled == ASSUME PlanParameters PROVE Plans!Spec => []Plans!EveryCondominiumBilled
<1>1. ASSUME PlanInv, SoleDefault, NEW c \in Condominiums, condos[c] # None
      PROVE  Plans!PlanOfCondominium(c) \in Plans!Existing
  <2>1. PICK row \in CondoRow : row = condos[c]
    BY <1>1 DEF PlanInv, PlanTyped
  <2>2. PICK p : p = row.plan
    OBVIOUS
  <2>3. p \in Plans!Existing /\ p \in Plans!Ids
    BY <1>1, <2>1, <2>2 DEF PlanInv, Plans!PlansKept, Plans!Existing
  <2>4. PICK d \in Plans!Existing : Plans!Defaults = {d}
    BY <1>1 DEF SoleDefault
  <2>5. Plans!PlanOfOwner(row.owner) \in Plans!Existing
    <3>1. row.owner \in Users
      BY DEF CondoRow
    <3>2. planOf[row.owner] # None => planOf[row.owner] \in Plans!Existing
      BY <1>1, <3>1 DEF PlanInv, Plans!PlansKept
    <3>3. QED
      BY <2>4, <3>2 DEF Plans!PlanOfOwner
  <2>6. Plans!PlanOfCondominium(c) \in {p, Plans!PlanOfOwner(row.owner)}
    BY <2>1, <2>2 DEF Plans!PlanOfCondominium
  <2>7. QED
    BY <2>3, <2>5, <2>6
<1>2. PlanInv /\ OnePlan => Plans!EveryCondominiumBilled
  BY <1>1 DEF OnePlan, Plans!EveryCondominiumBilled
<1>3. QED
  BY <1>2, OnePlanInvariant, PTL

\* How many bands begin no later than the i-th; bands of distinct minima have distinct ranks.
Rank(bands, i) == Plans!Cardinality(Plans!ByMin(bands, i))

BandList(bands, N) ==
    /\ N \in Nat /\ DOMAIN bands = 1..N /\ \A i \in 1..N : bands[i].min \in Int
    /\ Plans!DistinctMinima(bands)

LEMMA BandRank ==
  ASSUME NEW N, NEW bands, BandList(bands, N)
  PROVE  /\ \A i \in 1..N : Rank(bands, i) \in 1..N
         /\ \A i, j \in 1..N : bands[i].min < bands[j].min =>
               Rank(bands, i) < Rank(bands, j)
         /\ \A n \in 1..N : \E i \in 1..N : Rank(bands, i) = n
<1> USE DEF BandList
<1> DEFINE B(i) == Plans!ByMin(bands, i)
<1>1. IsFiniteSet(1..N) /\ Cardinality(1..N) = N
  BY FS_Interval
<1>2. ASSUME NEW i \in 1..N
      PROVE  B(i) \in SUBSET (1..N) /\ IsFiniteSet(B(i)) /\ Cardinality(B(i)) \in 1..N
  <2>1. B(i) \in SUBSET (1..N) /\ i \in B(i)
    BY DEF Plans!ByMin
  <2>2. IsFiniteSet(B(i)) /\ Cardinality(B(i)) <= N
    BY <2>1, <1>1, FS_Subset
  <2>3. Cardinality(B(i)) \in Nat /\ Cardinality(B(i)) # 0
    BY <2>1, <2>2, FS_CardinalityType, FS_EmptySet
  <2>4. QED
    BY <2>1, <2>2, <2>3
<1>3. ASSUME NEW i \in 1..N, NEW j \in 1..N, bands[i].min < bands[j].min
      PROVE  Cardinality(B(i)) < Cardinality(B(j))
  <2>1. B(i) \in SUBSET B(j) /\ j \in B(j) /\ j \notin B(i)
    BY <1>3 DEF Plans!ByMin
  <2>2. Cardinality(B(i)) <= Cardinality(B(j)) /\ Cardinality(B(j)) # Cardinality(B(i))
    BY <2>1, <1>2, FS_Subset
  <2>3. Cardinality(B(i)) \in Int /\ Cardinality(B(j)) \in Int
    BY <1>2
  <2>4. QED
    BY <2>2, <2>3
<1>4. ASSUME NEW n \in 1..N PROVE \E i \in 1..N : Cardinality(B(i)) = n
  <2> SUFFICES ASSUME \A i \in 1..N : Cardinality(B(i)) # n PROVE FALSE
    OBVIOUS
  <2>1. PICK f : f = [i \in 1..N |-> Cardinality(B(i))]
    OBVIOUS
  <2>2. PICK T : T = (1..N) \ {n}
    OBVIOUS
  <2>3. \A i \in 1..N : Cardinality(B(i)) \in 1..N
    BY <1>2
  <2> HIDE DEF B
  <2>4. f \in [1..N -> T]
    BY <2>1, <2>2, <2>3
  <2>5. IsFiniteSet(T) /\ Cardinality(T) = N - 1
    BY <1>1, <2>2, FS_RemoveElement
  <2>6. Cardinality(T) < Cardinality(1..N)
    BY <1>1, <2>5
  <2>7. PICK i, j \in 1..N : i # j /\ f[i] = f[j]
    BY <1>1, <2>4, <2>5, <2>6, FS_PigeonHole
  <2>8. Cardinality(B(i)) = Cardinality(B(j)) /\ Cardinality(B(i)) \in Int
    BY <2>1, <2>3, <2>7
  <2>9. bands[i].min < bands[j].min \/ bands[j].min < bands[i].min
    BY <2>7 DEF Plans!DistinctMinima
  <2>10. QED
    BY <2>8, <2>9, <1>3
<1> HIDE DEF B
<1>5. \A i \in 1..N : Rank(bands, i) = Cardinality(B(i))
  BY PlansCount DEF B, Rank
<1>6. QED
  BY <1>2, <1>3, <1>4, <1>5

\* The sorted bands are the bands, each once, in the order of their first unit.
LEMMA SortedBands ==
  ASSUME NEW N, NEW bands, BandList(bands, N)
  PROVE  \E pos \in [1..N -> 1..N] :
            /\ DOMAIN Plans!Sorted(bands) = 1..N
            /\ \A n \in 1..N : Plans!Sorted(bands)[n] = bands[pos[n]]
            /\ \A i \in 1..N : \E n \in 1..N : pos[n] = i
            /\ \A m, n \in 1..N : m < n => bands[pos[m]].min < bands[pos[n]].min
<1>1. /\ \A i \in 1..N : Rank(bands, i) \in 1..N
      /\ \A i, j \in 1..N : bands[i].min < bands[j].min => Rank(bands, i) < Rank(bands, j)
      /\ \A n \in 1..N : \E i \in 1..N : Rank(bands, i) = n
  BY BandRank
<1> USE DEF BandList
<1> DEFINE pos == [n \in 1..N |-> CHOOSE i \in 1..N : Rank(bands, i) = n]
<1>2. Plans!Sorted(bands) = [n \in 1..N |-> bands[CHOOSE i \in 1..N : Rank(bands, i) = n]]
  BY DEF Plans!Sorted, Rank
<1>3. \A n \in 1..N : pos[n] \in 1..N /\ Rank(bands, pos[n]) = n
  BY <1>1
<1>4. Plans!Sorted(bands) = [n \in 1..N |-> bands[pos[n]]]
  BY <1>2
<1>5. pos \in [1..N -> 1..N]
  BY <1>3
<1> HIDE DEF pos
<1>6. \A i, j \in 1..N : i # j => Rank(bands, i) # Rank(bands, j)
  <2> SUFFICES ASSUME NEW i \in 1..N, NEW j \in 1..N, i # j PROVE Rank(bands, i) # Rank(bands, j)
    OBVIOUS
  <2>1. bands[i].min < bands[j].min \/ bands[j].min < bands[i].min
    BY DEF Plans!DistinctMinima
  <2>2. Rank(bands, i) < Rank(bands, j) \/ Rank(bands, j) < Rank(bands, i)
    BY <1>1, <2>1
  <2>3. PICK m \in 1..N, n \in 1..N : m = Rank(bands, i) /\ n = Rank(bands, j)
    BY <1>1
  <2>4. QED
    BY <2>2, <2>3
<1>7. \A i \in 1..N : pos[Rank(bands, i)] = i
  BY <1>1, <1>3, <1>6
<1>8. ASSUME NEW m \in 1..N, NEW n \in 1..N, m < n PROVE bands[pos[m]].min < bands[pos[n]].min
  <2>1. PICK i \in 1..N, j \in 1..N : i = pos[m] /\ j = pos[n]
    BY <1>3
  <2>2. Rank(bands, i) = m /\ Rank(bands, j) = n
    BY <1>3, <2>1
  <2>3. bands[i].min \in Int /\ bands[j].min \in Int /\ bands[i].min # bands[j].min
    BY <2>2, <1>8 DEF Plans!DistinctMinima
  <2>4. ~ (bands[j].min < bands[i].min)
    BY <1>1, <1>8, <2>2
  <2>5. QED
    BY <2>1, <2>3, <2>4
<1>9. \A i \in 1..N : \E n \in 1..N : pos[n] = i
  BY <1>1, <1>7
<1>10. QED
  BY <1>4, <1>5, <1>8, <1>9

\* Bands that start with unit 1, follow one another and end with no upper limit hold every
\* number of units once.
LEMMA OneBandFits ==
  ASSUME NEW N \in Nat \ {0}, NEW t, NEW n \in Nat \ {0},
         \A k \in 1..N : t[k].min \in Nat /\ t[k].max \in Nat,
         t[1].min = 1, t[N].max = 0,
         \A k \in 1..(N - 1) : t[k].max # 0 /\ t[k + 1].min = t[k].max + 1,
         \A j, k \in 1..N : j < k => t[j].min < t[k].min
  PROVE  \E k \in 1..N : Plans!Covers(t[k], n) /\ \A j \in 1..N : Plans!Covers(t[j], n) => j = k
<1> DEFINE K == {k \in 1..N : t[k].min <= n}
<1>1. IsFiniteSet(K) /\ K \subseteq Int /\ K # {}
  <2>1. IsFiniteSet(1..N)
    BY FS_Interval
  <2>2. K \in SUBSET (1..N) /\ 1 \in K
    OBVIOUS
  <2>3. IsFiniteSet(K)
    BY <2>1, <2>2, FS_Subset
  <2>4. QED
    BY <2>2, <2>3
<1>2. PICK k \in K : \A j \in K : k >= j
  BY <1>1, MaxExists
<1>3. k \in 1..N /\ t[k].min <= n
  BY <1>2
<1>4. \A j \in 1..N : k < j => ~ Plans!Covers(t[j], n)
  BY <1>2, <1>3 DEF Plans!Covers
<1>5. Plans!Covers(t[k], n)
  <2>1. CASE k = N
    BY <2>1, <1>3 DEF Plans!Covers
  <2>2. CASE k # N
    <3>1. k \in 1..(N - 1) /\ k + 1 \in 1..N /\ k + 1 \notin K
      BY <2>2, <1>2, <1>3
    <3>2. t[k + 1].min > n /\ t[k + 1].min = t[k].max + 1
      BY <3>1
    <3>3. t[k].max \in Nat /\ t[k].max >= n
      BY <3>2, <1>3
    <3>4. QED
      BY <3>3, <1>3 DEF Plans!Covers
  <2>3. QED
    BY <2>1, <2>2
<1>6. ASSUME NEW j \in 1..N, j < k PROVE ~ Plans!Covers(t[j], n)
  <2>1. j \in 1..(N - 1) /\ j + 1 \in 1..N /\ (j + 1 < k \/ j + 1 = k)
    BY <1>3, <1>6
  <2>2. t[j].max # 0 /\ t[j + 1].min = t[j].max + 1
    BY <2>1
  <2>3. t[j + 1].min \in Nat /\ t[k].min \in Nat /\ t[j + 1].min <= t[k].min
    BY <2>1, <1>3
  <2>4. t[j].max \in Nat /\ t[j].max < n
    BY <2>2, <2>3, <1>3
  <2>5. QED
    BY <2>2, <2>4 DEF Plans!Covers
<1>7. QED
  BY <1>3, <1>4, <1>5, <1>6

LEMMA UnitPriced ==
  ASSUME PlanParameters, NEW plan \in Plans!Plan, Plans!AssertValid(plan.bands), NEW n \in Nat \ {0},
         NEW bands, bands = plan.bands, bands # <<>>
  PROVE  \E i \in DOMAIN bands :
            /\ {j \in DOMAIN bands : Plans!Covers(bands[j], n)} = {i}
            /\ Plans!PricePerUnit(plan, n) = bands[i].price
<1>1. bands \in Bands \cup {<<>>}
  BY DEF Plans!Plan
<1>2. PICK N \in Nat \ {0} : N = Len(bands) /\ DOMAIN bands = 1..N /\ \A i \in 1..N : bands[i] \in Plans!Band
  BY <1>1, BandsOfPlan
<1>3. \A i \in 1..N : bands[i].min \in Nat /\ bands[i].max \in Nat
  BY <1>2 DEF Plans!Band, PlanParameters
<1>4. PICK t : t = Plans!Sorted(bands)
  OBVIOUS
<1>5. Plans!Len(bands) = N
  BY <1>2
<1>6. /\ Plans!DistinctMinima(bands) /\ t[1].min = 1 /\ t[N].max = 0
      /\ \A k \in 1..(N - 1) : t[k].max # 0 /\ t[k + 1].min = t[k].max + 1
  BY <1>2, <1>4, <1>5 DEF Plans!AssertValid, Plans!DistinctMinima
<1>7. PICK pos \in [1..N -> 1..N] :
        /\ DOMAIN t = 1..N /\ \A k \in 1..N : t[k] = bands[pos[k]]
        /\ \A i \in 1..N : \E k \in 1..N : pos[k] = i
        /\ \A j, k \in 1..N : j < k => bands[pos[j]].min < bands[pos[k]].min
  <2>1. BandList(bands, N)
    BY <1>2, <1>3, <1>6 DEF BandList
  <2>2. PICK pos \in [1..N -> 1..N] :
            /\ DOMAIN Plans!Sorted(bands) = 1..N
            /\ \A k \in 1..N : Plans!Sorted(bands)[k] = bands[pos[k]]
            /\ \A i \in 1..N : \E k \in 1..N : pos[k] = i
            /\ \A j, k \in 1..N : j < k => bands[pos[j]].min < bands[pos[k]].min
    BY ONLY <2>1, SortedBands
  <2>3. QED
    BY <2>2, <1>4
<1>8. /\ DOMAIN t = 1..N
      /\ \A k \in 1..N : t[k] = bands[pos[k]] /\ t[k].min \in Nat /\ t[k].max \in Nat
      /\ \A j, k \in 1..N : j < k => t[j].min < t[k].min
  <2>1. \A k \in 1..N : pos[k] \in 1..N /\ t[k] = bands[pos[k]]
    BY <1>7
  <2>2. \A k \in 1..N : t[k].min \in Nat /\ t[k].max \in Nat
    BY <2>1, <1>3
  <2>3. QED
    BY <2>1, <2>2, <1>7
<1>9. PICK k \in 1..N : Plans!Covers(t[k], n) /\ \A j \in 1..N : Plans!Covers(t[j], n) => j = k
  <2>1. t[1].min = 1 /\ t[N].max = 0 /\ N \in Nat \ {0} /\ n \in Nat \ {0}
    BY <1>6
  <2>2. \A k \in 1..(N - 1) : t[k].max # 0 /\ t[k + 1].min = t[k].max + 1
    BY <1>6
  <2>3. /\ \A k \in 1..N : t[k].min \in Nat /\ t[k].max \in Nat
        /\ \A j, k \in 1..N : j < k => t[j].min < t[k].min
    BY <1>8
  <2>4. QED
    BY ONLY <2>1, <2>2, <2>3, OneBandFits
<1>10. pos[k] \in DOMAIN bands /\ Plans!Covers(bands[pos[k]], n)
  BY <1>2, <1>8, <1>9
<1>11. ASSUME NEW i \in DOMAIN bands, Plans!Covers(bands[i], n) PROVE i = pos[k]
  <2>1. PICK j \in 1..N : pos[j] = i
    BY <1>2, <1>7
  <2>2. QED
    BY <2>1, <1>8, <1>9, <1>11
<1>12. Plans!PricePerUnit(plan, n) = t[k].price
  <2>1. {i \in DOMAIN t : Plans!Covers(t[i], n)} = {k}
    BY <1>8, <1>9
  <2>2. (CHOOSE i \in {k} : \A j \in {k} : i <= j) = k
    OBVIOUS
  <2>3. PICK m : m = IF n < 1 THEN 1 ELSE n
    OBVIOUS
  <2>4. PICK fit : fit = {i \in DOMAIN t : Plans!Covers(t[i], m)}
    OBVIOUS
  <2>5. Plans!PricePerUnit(plan, n) =
          IF bands = <<>> \/ fit = {} THEN plan.price ELSE t[CHOOSE i \in fit : \A j \in fit : i <= j].price
    BY ONLY <2>3, <2>4, <1>4, bands = plan.bands DEF Plans!PricePerUnit
  <2>6. fit = {k} /\ bands # <<>>
    <3>1. m = n
      BY <2>3
    <3>2. QED
      BY <3>1, <2>1, <2>4
  <2>7. QED
    BY <2>2, <2>5, <2>6
<1>13. QED
  BY <1>8, <1>10, <1>11, <1>12

\* EveryUnitPriced: whatever bands requests sent and however saves of plans overlapped, a
\* stored plan prices every number of units, by one band when it has bands.
THEOREM UnitsPriced == ASSUME PlanParameters PROVE Plans!Spec => []Plans!EveryUnitPriced
<1>1. ASSUME PlanInv, NEW p \in Plans!Existing, NEW n \in 1..MaxUnits
      PROVE  LET bands == plans[p].bands
                 fit == {i \in DOMAIN bands : Plans!Covers(bands[i], n)} IN
             IF bands = <<>> THEN Plans!PricePerUnit(plans[p], n) = plans[p].price
             ELSE \E i \in fit : fit = {i} /\ Plans!PricePerUnit(plans[p], n) = bands[i].price
  <2>1. PICK plan \in Plans!Plan : plan = plans[p] /\ Plans!AssertValid(plan.bands)
    BY <1>1 DEF PlanInv, PlanTyped, Plans!Existing
  <2>2. PICK bands : bands = plan.bands
    OBVIOUS
  <2>3. n \in Nat \ {0}
    BY DEF PlanParameters
  <2>4. CASE bands = <<>>
    BY <2>1, <2>2, <2>4 DEF Plans!PricePerUnit
  <2>5. CASE bands # <<>>
    <3>1. \E i \in DOMAIN bands :
            /\ {j \in DOMAIN bands : Plans!Covers(bands[j], n)} = {i}
            /\ Plans!PricePerUnit(plan, n) = bands[i].price
      <4>1. plan \in Plans!Plan /\ Plans!AssertValid(plan.bands) /\ bands = plan.bands
        BY <2>1, <2>2
      <4>2. QED
        BY <4>1, <2>3, <2>5, UnitPriced
    <3>2. PICK fit : fit = {j \in DOMAIN bands : Plans!Covers(bands[j], n)}
      OBVIOUS
    <3>3. \E i \in fit : fit = {i} /\ Plans!PricePerUnit(plan, n) = bands[i].price
      BY <3>1, <3>2
    <3>4. QED
      BY <3>2, <3>3, <2>1, <2>2, <2>5
  <2>6. QED
    BY <2>4, <2>5, <2>1, <2>2
<1>2. PlanInv => Plans!EveryUnitPriced
  BY <1>1 DEF Plans!EveryUnitPriced
<1>3. QED
  BY <1>2, PlanInvariant, PTL

\* The bounds of the requests and of their interruptions.
PlanBounds == MaxCalls \in Nat /\ MaxStops \in Nat

PlanCounts == made \in 1..MaxPlans /\ calls \in 0..MaxCalls /\ stops \in 0..MaxStops

LEMMA PlansCounted ==
  ASSUME PlanParameters, PlanBounds, PlanCounts, [Plans!Next]_Plans!planVars PROVE PlanCounts'
<1>1. ASSUME made' = made \/ (made' = made + 1 /\ made < MaxPlans),
             calls' = calls \/ (calls' = calls + 1 /\ calls < MaxCalls),
             stops' = stops \/ (stops' = stops + 1 /\ stops < MaxStops)
      PROVE  PlanCounts'
  BY <1>1 DEF PlanParameters, PlanBounds, PlanCounts
<1>2. ASSUME NEW w, NEW t, Plans!Start(w, t) PROVE PlanCounts'
  BY <1>1, <1>2 DEF Plans!Start
<1>3. ASSUME NEW w \in Slots, NEW bands \in Bands \cup {<<>>}, NEW price \in Prices, Plans!CreatePlan(w, bands, price)
      PROVE  PlanCounts'
  BY <1>1, <1>3 DEF Plans!CreatePlan
<1>4. ASSUME NEW w \in Slots, NEW p \in Plans!Ids,
             \/ \E q \in Patches : Plans!PatchPlan(w, p, q)
             \/ Plans!SetDefaultPlan(w, p) \/ Plans!DeletePlan(w, p)
      PROVE  PlanCounts'
  BY <1>2, <1>4 DEF Plans!PatchPlan, Plans!SetDefaultPlan, Plans!DeletePlan
<1>5. ASSUME NEW w \in Slots, NEW u \in Users,
             Plans!Register(w, u)
             \/ \E c \in Condominiums, p \in Plans!Ids \cup {None} : Plans!CreateCondominium(w, c, u, p)
      PROVE  PlanCounts'
  BY <1>2, <1>5 DEF Plans!Register, Plans!CreateCondominium
<1>6. ASSUME NEW w \in Slots, NEW c \in Condominiums, NEW p \in Plans!Ids \cup {None}, Plans!UpdateCondominium(w, c, p)
      PROVE  PlanCounts'
  BY <1>2, <1>6 DEF Plans!UpdateCondominium
<1>7. ASSUME NEW w \in Slots,
             \/ Plans!SelectPlan(w) \/ Plans!WritePlan(w) \/ Plans!MarkDefault(w)
             \/ Plans!CountCondominiums(w) \/ Plans!CountUsers(w) \/ Plans!Delete(w)
             \/ Plans!InsertAccount(w) \/ Plans!InsertCondominium(w)
             \/ Plans!SelectCondominium(w) \/ Plans!StoreCondominium(w)
      PROVE  PlanCounts'
  BY <1>7 DEF Plans!SelectPlan, Plans!WritePlan, Plans!MarkDefault, Plans!CountCondominiums,
     Plans!CountUsers, Plans!Delete, Plans!InsertAccount, Plans!InsertCondominium,
     Plans!SelectCondominium, Plans!StoreCondominium, PlanCounts
<1>8. ASSUME NEW c \in Condominiums, Plans!RemoveCondominium(c) PROVE PlanCounts'
  BY <1>8 DEF Plans!RemoveCondominium, PlanCounts
<1>11. ASSUME NEW w \in Slots, Plans!Interrupt(w) PROVE PlanCounts'
  BY <1>1, <1>11 DEF Plans!Interrupt
<1>9. CASE UNCHANGED Plans!planVars
  BY <1>9 DEF Plans!planVars, PlanCounts
<1>10. QED
  BY <1>3, <1>4, <1>5, <1>6, <1>7, <1>8, <1>9, <1>11 DEF Plans!Next

\* PlanTypeOK: however requests overlap and are interrupted, plans are numbered as they are
\* made, and whoever has one names a number that was given out.
THEOREM PlansTyped == ASSUME PlanParameters, PlanBounds PROVE Plans!Spec => []Plans!PlanTypeOK
<1>1. Plans!Init => PlanInv /\ PlanCounts
  <2>1. Plans!Init => PlanCounts
    BY DEF Plans!Init, PlanCounts, PlanParameters, PlanBounds
  <2>2. QED
    BY <2>1, InitPlans
<1>2. PlanInv /\ PlanCounts /\ [Plans!Next]_Plans!planVars => PlanInv' /\ PlanCounts'
  BY NextPlans, PlansCounted
<1>3. PlanInv /\ PlanCounts => Plans!PlanTypeOK
  <2> SUFFICES ASSUME PlanInv, PlanCounts PROVE Plans!PlanTypeOK
    OBVIOUS
  <2>1. \A c \in Condominiums : condos[c] # None => condos[c].owner \in Users /\ condos[c].plan \in Plans!Ids
    BY DEF PlanInv, PlanTyped, CondoRow
  <2>2. \A w \in Slots : tasks[w].plan \in Plans!Ids \cup {0}
    BY DEF PlanInv, PlanTyped, PlanTask
  <2>3. QED
    BY <2>1, <2>2 DEF PlanInv, PlanTyped, PlanCounts, Plans!PlanTypeOK, Plans!Ids
<1>4. QED
  BY <1>1, <1>2, <1>3, PTL DEF Plans!Spec

(***************************************************************************)
(* Governance.                                                             *)
(***************************************************************************)

Assembly == INSTANCE AssemblyGovernance

\* The owner has an account, the absent value is neither an account nor a document, and
\* rows of documents are loaded as they are saved.
GovernanceParameters ==
    /\ Owner \in Users /\ None \notin Users /\ None \notin Assembly!Doc /\ None \notin Docs
    /\ MaxRequests \in Nat /\ MaxStops \in Nat

DutyPcs == {"idle", "bootstrap", "assign_olds", "assign_remove", "assign_find", "assign_save",
            "remove", "log_created", "log_updated", "log_removed", "elect_find", "elect_remove",
            "elect_syndic", "elect_admins", "save_doc"}

Duty == [pc : DutyPcs, user : Users \cup {None}, role : Assembly!Assignable \cup {None},
         rows : SUBSET (Users \X Assembly!Assignable), doc : Docs \cup {None},
         row : Assembly!Doc \cup {None}]

Electing == {"elect_find", "elect_remove", "elect_syndic", "elect_admins"}

\* What a request goes on with, in whatever order requests interleave: the bootstrap apart,
\* it found the owner's row, and it never names the role of owner.
Bound(q) ==
    /\ q.pc \notin {"idle", "bootstrap"} => <<Owner, "owner">> \in roles
    /\ q.pc \in {"assign_olds", "assign_remove", "assign_find", "assign_save", "remove",
                 "log_created", "log_updated", "log_removed"}
          => q.user \in Users /\ q.role \in Assembly!Assignable
    /\ q.pc \in {"elect_find", "elect_remove"} => q.role \in {"syndic", "admin"}
    /\ q.pc \in Electing => q.doc \in Docs /\ q.row \in Assembly!Doc /\ q.row.elected \in Users
    /\ q.pc = "elect_admins" => q.rows \subseteq Users \X {"admin"}
    /\ q.pc = "save_doc" => q.doc \in Docs /\ q.row \in Assembly!Doc

OwnerInv ==
    /\ roles \subseteq Users \X Assembly!Role
    /\ Assembly!OwnerRowStays
    /\ docs \in [Docs -> Assembly!Doc \cup {None}]
    /\ closed \in BOOLEAN /\ asked \in 0..MaxRequests /\ stops \in 0..MaxStops
    /\ tasks \in [Slots -> Duty]
    /\ \A s \in Slots : Bound(tasks[s])

LEMMA BlankDuty == GovernanceParameters =>
                     Assembly!Blank \in Duty /\ Assembly!Blank.pc = "idle" /\ Bound(Assembly!Blank)
  BY DEF Assembly!Blank, Duty, DutyPcs, Bound, Electing

LEMMA InitOwner == ASSUME GovernanceParameters, Assembly!Init PROVE OwnerInv
<1>1. tasks \in [Slots -> Duty] /\ \A s \in Slots : Bound(tasks[s])
  BY BlankDuty DEF Assembly!Init
<1>2. docs \in [Docs -> Assembly!Doc \cup {None}] /\ closed \in BOOLEAN
  BY DEF Assembly!Init
<1>3. roles = {} /\ asked \in 0..MaxRequests /\ stops \in 0..MaxStops
  BY DEF Assembly!Init, GovernanceParameters
<1>4. QED
  BY <1>1, <1>2, <1>3 DEF OwnerInv, Assembly!OwnerRowStays

\* The request of a slot moves on, and rows of roles other than the owner's come and go.
LEMMA OwnerMoves ==
  ASSUME GovernanceParameters, OwnerInv, NEW s \in Slots, NEW t \in Duty, Bound(t),
         tasks' = [tasks EXCEPT ![s] = t],
         roles' \subseteq Users \X Assembly!Role,
         roles' # {} => <<Owner, "owner">> \in roles',
         <<Owner, "owner">> \in roles => <<Owner, "owner">> \in roles',
         docs' \in [Docs -> Assembly!Doc \cup {None}],
         asked' \in 0..MaxRequests, stops' \in 0..MaxStops, UNCHANGED closed
  PROVE  OwnerInv'
<1>1. tasks' \in [Slots -> Duty] /\ tasks'[s] = t /\ \A r \in Slots \ {s} : tasks'[r] = tasks[r]
  BY DEF OwnerInv
<1>2. \A q : Bound(q) => Bound(q)'
  BY DEF Bound
<1>3. \A r \in Slots : Bound(tasks[r])
  BY DEF OwnerInv
<1>4. ASSUME NEW r \in Slots PROVE Bound(tasks[r])'
  <2>1. CASE r = s
    <3>1. tasks'[r] = t
      BY <2>1, <1>1
    <3>2. QED
      BY <3>1, <1>2 DEF Bound
  <2>2. CASE r # s
    <3>1. PICK q : q = tasks[r] /\ Bound(q)
      BY <1>3
    <3>2. Bound(q)' /\ tasks'[r] = q
      BY <3>1, <1>2, <2>2, <1>1
    <3>3. QED
      BY <3>2 DEF Bound
  <2>3. QED
    BY <2>1, <2>2
<1>5. QED
  BY <1>1, <1>4 DEF OwnerInv, Assembly!OwnerRowStays

LEMMA OwnerAsked ==
  ASSUME GovernanceParameters, OwnerInv, NEW s \in Slots, NEW t \in Duty, Bound(t), Assembly!Asks(s, t),
         UNCHANGED <<roles, docs, closed, stops>>
  PROVE  OwnerInv'
<1>1. tasks' = [tasks EXCEPT ![s] = t] /\ asked' \in 0..MaxRequests
  BY DEF Assembly!Asks, Assembly!Goes, OwnerInv, GovernanceParameters
<1>2. QED
  BY <1>1, OwnerMoves DEF OwnerInv, Assembly!OwnerRowStays

\* Rows are inserted into a table that has, or gets, the owner's row.
LEMMA OwnerInserted ==
  ASSUME GovernanceParameters, OwnerInv, NEW s \in Slots, NEW t \in Duty, Bound(t),
         NEW rows \in SUBSET (Users \X Assembly!Role), <<Owner, "owner">> \in roles \cup rows,
         Assembly!Insert(s, rows, t), UNCHANGED <<docs, closed, asked, stops>>
  PROVE  OwnerInv'
<1>1. CASE tasks' = [tasks EXCEPT ![s] = t] /\ roles' = roles \cup rows
  BY <1>1, OwnerMoves DEF OwnerInv
<1>2. CASE tasks' = [tasks EXCEPT ![s] = Assembly!Blank] /\ UNCHANGED roles
  BY <1>2, OwnerMoves, BlankDuty DEF OwnerInv, Assembly!OwnerRowStays
<1>3. QED
  BY <1>1, <1>2 DEF Assembly!Insert, Assembly!Goes, Assembly!Ends

LEMMA OwnerStep ==
  ASSUME GovernanceParameters, OwnerInv, NEW s \in Slots, Assembly!Steps(s) PROVE OwnerInv'
<1> USE DEF Assembly!At, Assembly!Goes, Assembly!Ends
<1>1. PICK q \in Duty : q = tasks[s] /\ Bound(q)
  BY DEF OwnerInv
<1>2. roles \subseteq Users \X Assembly!Role /\ (roles # {} => <<Owner, "owner">> \in roles)
  BY DEF OwnerInv, Assembly!OwnerRowStays
<1>3. docs \in [Docs -> Assembly!Doc \cup {None}] /\ asked \in 0..MaxRequests /\ stops \in 0..MaxStops
  BY DEF OwnerInv
<1>4. Assembly!Assignable \subseteq Assembly!Role /\ "owner" \notin Assembly!Assignable
      /\ "syndic" \in Assembly!Assignable /\ "admin" \in Assembly!Assignable /\ "owner" \in Assembly!Role
  BY DEF Assembly!Assignable, Assembly!Role, Assembly!Sole
<1>5. CASE Assembly!BootstrapSave(s)
  <2>1. Assembly!Founding \in SUBSET (Users \X Assembly!Role) /\ <<Owner, "owner">> \in roles \cup Assembly!Founding
    BY <1>4 DEF Assembly!Founding, GovernanceParameters
  <2>2. QED
    BY <2>1, <1>5, BlankDuty, OwnerInserted DEF Assembly!BootstrapSave
<1>6. ASSUME NEW t \in Duty, Bound(t), tasks' = [tasks EXCEPT ![s] = t],
             UNCHANGED <<roles, docs, closed, asked, stops>>
      PROVE  OwnerInv'
  BY <1>2, <1>3, <1>6, OwnerMoves
<1>7. CASE Assembly!FindOlds(s)
  <2>1. PICK t : t = [q EXCEPT !.pc = "assign_remove", !.rows = Assembly!Replaced(q.role)]
    OBVIOUS
  <2>2. Assembly!Replaced(q.role) \in SUBSET (Users \X Assembly!Assignable)
    BY <1>1, <1>7 DEF Assembly!Replaced, Assembly!Holders, Assembly!Assignable, Assembly!FindOlds
  <2>3. t \in Duty /\ Bound(t)
    BY <2>1, <2>2, <1>1, <1>7 DEF Assembly!FindOlds, Duty, DutyPcs, Bound, Electing
  <2>4. QED
    BY <2>1, <2>3, <1>1, <1>6, <1>7 DEF Assembly!FindOlds
<1>8. CASE Assembly!RemoveOlds(s)
  <2>1. PICK t : t = [q EXCEPT !.pc = "assign_find", !.rows = {}]
    OBVIOUS
  <2>2. t \in Duty /\ Bound(t)
    BY <2>1, <1>1, <1>8 DEF Assembly!RemoveOlds, Duty, DutyPcs, Bound, Electing
  <2>3. q.rows \subseteq Users \X Assembly!Assignable /\ <<Owner, "owner">> \notin q.rows
    BY <1>4 DEF Duty
  <2>4. roles' = roles \ q.rows /\ tasks' = [tasks EXCEPT ![s] = t] /\ UNCHANGED <<docs, closed, asked, stops>>
    BY <2>1, <1>1, <1>8 DEF Assembly!RemoveOlds
  <2>5. roles' # {} => <<Owner, "owner">> \in roles'
    BY <2>3, <2>4, <1>2
  <2>6. QED
    BY <2>2, <2>3, <2>4, <2>5, <1>2, <1>3, OwnerMoves
<1>9. CASE Assembly!FindSame(s)
  <2>1. PICK t : t = [q EXCEPT !.pc = IF Assembly!Named(q) \in roles THEN "log_updated" ELSE "assign_save"]
    OBVIOUS
  <2>2. t \in Duty /\ Bound(t)
    BY <2>1, <1>1, <1>9 DEF Assembly!FindSame, Duty, DutyPcs, Bound, Electing
  <2>3. QED
    BY <2>1, <2>2, <1>1, <1>6, <1>9 DEF Assembly!FindSame
<1>10. CASE Assembly!SaveParticipant(s)
  <2>1. PICK t : t = [q EXCEPT !.pc = "log_created"]
    OBVIOUS
  <2>2. t \in Duty /\ Bound(t)
    BY <2>1, <1>1, <1>10 DEF Assembly!SaveParticipant, Duty, DutyPcs, Bound, Electing
  <2>3. {Assembly!Named(q)} \in SUBSET (Users \X Assembly!Role) /\ <<Owner, "owner">> \in roles
    BY <1>1, <1>4, <1>10 DEF Assembly!SaveParticipant, Bound, Assembly!Named
  <2>4. QED
    BY <2>1, <2>2, <2>3, <1>1, <1>10, OwnerInserted DEF Assembly!SaveParticipant
<1>11. CASE Assembly!RemoveRow(s)
  <2>1. PICK t : t = [q EXCEPT !.pc = "log_removed"]
    OBVIOUS
  <2>2. t \in Duty /\ Bound(t)
    BY <2>1, <1>1, <1>11 DEF Assembly!RemoveRow, Duty, DutyPcs, Bound, Electing
  <2>3. roles' = roles \ {Assembly!Named(q)} /\ tasks' = [tasks EXCEPT ![s] = t]
        /\ UNCHANGED <<docs, closed, asked, stops>>
    BY <2>1, <1>1, <1>11 DEF Assembly!RemoveRow
  <2>4. <<Owner, "owner">> # Assembly!Named(q)
    BY <1>1, <1>4, <1>11 DEF Assembly!RemoveRow, Bound, Assembly!Named
  <2>5. roles' # {} => <<Owner, "owner">> \in roles'
    BY <2>3, <2>4, <1>2
  <2>6. QED
    BY <2>2, <2>3, <2>4, <2>5, <1>2, <1>3, OwnerMoves
<1>12. CASE Assembly!Log(s)
  BY <1>6, <1>12, BlankDuty DEF Assembly!Log
<1>13. CASE Assembly!FindInOffice(s)
  <2>1. PICK t : t = [q EXCEPT !.pc = "elect_remove", !.rows = Assembly!Holders(q.role) \X {q.role}]
    OBVIOUS
  <2>2. Assembly!Holders(q.role) \X {q.role} \in SUBSET (Users \X Assembly!Assignable)
    BY <1>1, <1>4, <1>13 DEF Assembly!FindInOffice, Assembly!Holders, Bound
  <2>3. t \in Duty /\ Bound(t)
    BY <2>1, <2>2, <1>1, <1>13 DEF Assembly!FindInOffice, Duty, DutyPcs, Bound, Electing
  <2>4. QED
    BY <2>1, <2>3, <1>1, <1>6, <1>13 DEF Assembly!FindInOffice
<1>14. CASE Assembly!RemoveFromOffice(s)
  <2>1. PICK row \in q.rows : roles' = roles \ {row} /\ tasks' = [tasks EXCEPT ![s] = [q EXCEPT !.rows = @ \ {row}]]
    BY <1>1, <1>14 DEF Assembly!RemoveFromOffice
  <2>2. PICK t : t = [q EXCEPT !.rows = @ \ {row}]
    OBVIOUS
  <2>3. t \in Duty /\ Bound(t)
    BY <2>2, <1>1 DEF Duty, Bound, Electing
  <2>4. row # <<Owner, "owner">>
    BY <1>4 DEF Duty
  <2>5. roles' # {} => <<Owner, "owner">> \in roles'
    BY <2>1, <2>4, <1>2
  <2>6. roles' \subseteq Users \X Assembly!Role /\ (<<Owner, "owner">> \in roles => <<Owner, "owner">> \in roles')
    BY <2>1, <2>4, <1>2
  <2>7. UNCHANGED <<docs, closed, asked, stops>>
    BY <1>14 DEF Assembly!RemoveFromOffice
  <2>8. QED
    BY <2>1, <2>2, <2>3, <2>5, <2>6, <2>7, <1>3, OwnerMoves
<1>15. CASE Assembly!OfficeCleared(s)
  <2>1. PICK t : t = IF q.role = "syndic" THEN [q EXCEPT !.pc = "elect_find", !.role = "admin"]
                     ELSE [q EXCEPT !.pc = "elect_syndic"]
    OBVIOUS
  <2>2. t \in Duty /\ Bound(t)
    BY <2>1, <1>1, <1>4, <1>15 DEF Assembly!OfficeCleared, Duty, DutyPcs, Bound, Electing
  <2>3. QED
    BY <2>1, <2>2, <1>1, <1>6, <1>15 DEF Assembly!OfficeCleared
<1>16. CASE Assembly!ElectSyndic(s)
  <2>1. PICK t : t = [q EXCEPT !.pc = "elect_admins", !.rows = Assembly!ElectedAdmins(q.row) \X {"admin"}]
    OBVIOUS
  <2>2. q.row \in Assembly!Doc /\ q.row.elected \in Users /\ <<Owner, "owner">> \in roles
    BY <1>1, <1>16 DEF Assembly!ElectSyndic, Bound, Electing
  <2>3. Assembly!ElectedAdmins(q.row) \X {"admin"} \in SUBSET (Users \X Assembly!Assignable)
        /\ Assembly!ElectedAdmins(q.row) \X {"admin"} \subseteq Users \X {"admin"}
    BY <2>2, <1>4 DEF Assembly!ElectedAdmins, Assembly!Doc
  <2>4. t \in Duty /\ Bound(t)
    BY <2>1, <2>3, <1>1, <1>16 DEF Assembly!ElectSyndic, Duty, DutyPcs, Bound, Electing
  <2>5. {<<q.row.elected, "syndic">>} \in SUBSET (Users \X Assembly!Role)
    BY <2>2, <1>4
  <2>6. QED
    BY <2>1, <2>2, <2>4, <2>5, <1>1, <1>16, OwnerInserted DEF Assembly!ElectSyndic
<1>17. CASE Assembly!ElectAdmin(s)
  <2>1. PICK row \in q.rows : Assembly!Insert(s, {row}, [q EXCEPT !.rows = @ \ {row}])
    BY <1>1, <1>17 DEF Assembly!ElectAdmin
  <2>2. PICK t : t = [q EXCEPT !.rows = @ \ {row}]
    OBVIOUS
  <2>3. t \in Duty /\ Bound(t)
    BY <2>2, <1>1 DEF Duty, Bound, Electing
  <2>4. {row} \in SUBSET (Users \X Assembly!Role) /\ <<Owner, "owner">> \in roles
    BY <1>1, <1>4, <1>17 DEF Duty, Bound, Assembly!ElectAdmin
  <2>5. QED
    BY <2>1, <2>2, <2>3, <2>4, <1>17, OwnerInserted DEF Assembly!ElectAdmin
<1>18. CASE Assembly!LogElection(s)
  <2>1. PICK t : t = [q EXCEPT !.pc = "save_doc"]
    OBVIOUS
  <2>2. t \in Duty /\ Bound(t)
    BY <2>1, <1>1, <1>18 DEF Assembly!LogElection, Duty, DutyPcs, Bound, Electing
  <2>3. QED
    BY <2>1, <2>2, <1>1, <1>6, <1>18 DEF Assembly!LogElection
<1>19. CASE Assembly!SaveDoc(s)
  <2>1. docs' = [docs EXCEPT ![q.doc] = q.row] /\ tasks' = [tasks EXCEPT ![s] = Assembly!Blank]
        /\ UNCHANGED <<roles, closed, asked, stops>>
    BY <1>1, <1>19 DEF Assembly!SaveDoc
  <2>2. q.row \in Assembly!Doc /\ docs' \in [Docs -> Assembly!Doc \cup {None}]
    BY <2>1, <1>1, <1>3, <1>19 DEF Assembly!SaveDoc, Bound
  <2>3. QED
    BY <2>1, <2>2, <1>2, <1>3, BlankDuty, OwnerMoves
<1>20. QED
  BY <1>5, <1>7, <1>8, <1>9, <1>10, <1>11, <1>12, <1>13, <1>14, <1>15, <1>16, <1>17, <1>18, <1>19
  DEF Assembly!Steps

LEMMA SignedDoc ==
  ASSUME NEW row \in Assembly!Doc
  PROVE  /\ Assembly!Signed(row) \in Assembly!Doc /\ Assembly!Published(row) \in Assembly!Doc
         /\ Assembly!Signed(row).elected = row.elected /\ Assembly!Published(row).elected = row.elected
         /\ Assembly!Signed(row).poll = row.poll /\ Assembly!Published(row).poll = row.poll
         /\ Assembly!Signed(row).status = "published" => Assembly!Signed(row).visible
         /\ Assembly!Signed(row).status = "published" \/ Assembly!Signed(row).visible = row.visible
         /\ Assembly!Published(row).status = "published" /\ Assembly!Published(row).visible
<1>1. Assembly!Final(row.kind) \in {"meeting_final", "assembly_final"}
  BY DEF Assembly!Final
<1>2. PICK final : final = [row EXCEPT !.kind = Assembly!Final(@), !.status = "pending_upload"]
  OBVIOUS
<1>3. final \in Assembly!Doc /\ final.elected = row.elected /\ final.poll = row.poll
      /\ final.visible = row.visible /\ final.status = "pending_upload"
  BY <1>1, <1>2 DEF Assembly!Doc
<1>4. PICK shown : shown = [final EXCEPT !.visible = TRUE, !.status = "published"]
  OBVIOUS
<1>5. shown \in Assembly!Doc /\ shown.elected = row.elected /\ shown.poll = row.poll
      /\ shown.visible = TRUE /\ shown.status = "published"
  BY <1>3, <1>4 DEF Assembly!Doc
<1>6. Assembly!Signed(row) = IF row.poll = "election" THEN final ELSE shown
  BY <1>2, <1>4 DEF Assembly!Signed
<1>7. PICK public : public = [row EXCEPT !.visible = TRUE, !.status = "published"]
  OBVIOUS
<1>8. public \in Assembly!Doc /\ public.elected = row.elected /\ public.poll = row.poll
      /\ public.visible = TRUE /\ public.status = "published"
  BY <1>7 DEF Assembly!Doc
<1>9. Assembly!Published(row) = public
  BY <1>7 DEF Assembly!Published
<1>10. CASE row.poll = "election"
  BY <1>3, <1>6, <1>8, <1>9, <1>10
<1>11. CASE row.poll # "election"
  BY <1>5, <1>6, <1>8, <1>9, <1>11
<1>12. QED
  BY <1>10, <1>11

LEMMA OwnerBegins ==
  ASSUME GovernanceParameters, OwnerInv, NEW s \in Slots, Assembly!Requests(s) PROVE OwnerInv'
<1>1. Assembly!Blank \in Duty /\ Assembly!Blank.pc = "idle"
  BY BlankDuty
<1>2. roles # {} => <<Owner, "owner">> \in roles
  BY DEF OwnerInv, Assembly!OwnerRowStays
<1>3. docs \in [Docs -> Assembly!Doc \cup {None}] /\ roles \subseteq Users \X Assembly!Role
  BY DEF OwnerInv
<1>4. CASE Assembly!BootstrapCount(s)
  <2>1. PICK t : t = [Assembly!Blank EXCEPT !.pc = "bootstrap"]
    OBVIOUS
  <2>2. t \in Duty /\ Bound(t)
    BY <2>1, <1>1 DEF Duty, DutyPcs, Bound, Electing
  <2>3. QED
    BY <2>1, <2>2, <1>4, OwnerAsked DEF Assembly!BootstrapCount
<1>5. ASSUME NEW a \in Users, NEW u \in Users, NEW role \in Assembly!Assignable,
             Assembly!CreateParticipant(s, a, u, role)
      PROVE  OwnerInv'
  <2>1. PICK t : t = [Assembly!Blank EXCEPT !.pc = "assign_olds", !.user = u, !.role = role]
    OBVIOUS
  <2>2. <<Owner, "owner">> \in roles
    BY <1>2, <1>5 DEF Assembly!CreateParticipant, Assembly!Governs
  <2>3. t \in Duty /\ Bound(t)
    BY <2>1, <2>2, <1>1 DEF Duty, DutyPcs, Bound, Electing
  <2>4. QED
    BY <2>1, <2>3, <1>5, OwnerAsked DEF Assembly!CreateParticipant
<1>6. ASSUME NEW a \in Users, NEW row \in roles, Assembly!RemoveParticipant(s, a, row)
      PROVE  OwnerInv'
  <2>1. PICK t : t = [Assembly!Blank EXCEPT !.pc = "remove", !.user = row[1], !.role = row[2]]
    OBVIOUS
  <2>2. <<Owner, "owner">> \in roles /\ row[1] \in Users /\ row[2] \in Assembly!Assignable
    BY <1>2, <1>3, <1>6 DEF Assembly!RemoveParticipant, Assembly!Governs, Assembly!Role
  <2>3. t \in Duty /\ Bound(t)
    BY <2>1, <2>2, <1>1 DEF Duty, DutyPcs, Bound, Electing
  <2>4. QED
    BY <2>1, <2>3, <1>6, OwnerAsked DEF Assembly!RemoveParticipant
<1>7. ASSUME NEW d \in Docs, NEW row \in Assembly!Doc, roles # {},
             Assembly!Asks(s, [Assembly!Blank EXCEPT !.pc = "save_doc", !.doc = d, !.row = row]),
             UNCHANGED <<roles, docs, closed, stops>>
      PROVE  OwnerInv'
  <2>1. PICK t : t = [Assembly!Blank EXCEPT !.pc = "save_doc", !.doc = d, !.row = row]
    OBVIOUS
  <2>2. t \in Duty /\ Bound(t)
    BY <2>1, <1>1, <1>2, <1>7 DEF Duty, DutyPcs, Bound, Electing
  <2>3. QED
    BY <2>1, <2>2, <1>7, OwnerAsked
<1>8. ASSUME NEW a \in Users, NEW d \in Docs, Assembly!UploadFinalPdf(s, a, d)
      PROVE  OwnerInv'
  <2>1. Assembly!Signed(docs[d]) \in Assembly!Doc
    BY <1>3, <1>8, SignedDoc DEF Assembly!UploadFinalPdf
  <2>2. QED
    BY <2>1, <1>7, <1>8 DEF Assembly!UploadFinalPdf, Assembly!Governs
<1>9. ASSUME NEW a \in Users, NEW d \in Docs, NEW u \in Users \cup {None}, NEW admins \in SUBSET Users,
             Assembly!Publish(s, a, d, u, admins)
      PROVE  OwnerInv'
  <2>1. PICK row \in Assembly!Doc : row = Assembly!Published(docs[d])
    BY <1>3, <1>9, SignedDoc DEF Assembly!Publish
  <2>2. CASE docs[d].poll = "election" /\ u # None
    <3>1. PICK new : new = [row EXCEPT !.elected = u, !.admins = admins]
      OBVIOUS
    <3>2. new \in Assembly!Doc /\ new.elected \in Users
      BY <3>1, <2>2 DEF Assembly!Doc
    <3>3. PICK t : t = [Assembly!Blank EXCEPT !.pc = "elect_find", !.role = "syndic", !.doc = d, !.row = new]
      OBVIOUS
    <3>4. t \in Duty /\ Bound(t)
      BY <3>2, <3>3, <1>1, <1>2, <1>9
      DEF Duty, DutyPcs, Bound, Electing, Assembly!Publish, Assembly!Governs, Assembly!Assignable,
          Assembly!Sole
    <3>5. QED
      BY <3>1, <3>3, <3>4, <2>1, <2>2, <1>9, OwnerAsked DEF Assembly!Publish
  <2>3. CASE ~ (docs[d].poll = "election" /\ u # None)
    BY <2>1, <2>3, <1>7, <1>9 DEF Assembly!Publish, Assembly!Governs
  <2>4. QED
    BY <2>2, <2>3
<1>10. QED
  BY <1>4, <1>5, <1>6, <1>8, <1>9 DEF Assembly!Requests

\* Polls close and drafts are written beside the requests.
LEMMA OwnerElse ==
  ASSUME GovernanceParameters, OwnerInv,
         \/ \E a \in Users, d \in Docs, poll \in Polls : Assembly!Generate(a, d, poll)
         \/ Assembly!ClosePolls \/ UNCHANGED Assembly!governanceVars
  PROVE  OwnerInv'
<1>1. docs' \in [Docs -> Assembly!Doc \cup {None}] /\ closed' \in BOOLEAN
      /\ UNCHANGED <<roles, tasks, asked, stops>>
  <2>1. ASSUME NEW a \in Users, NEW d \in Docs, NEW poll \in Polls, Assembly!Generate(a, d, poll)
        PROVE  docs' \in [Docs -> Assembly!Doc \cup {None}]
    <3>1. PICK row : row = [poll |-> poll, kind |-> IF poll = "none" THEN "meeting_draft" ELSE "assembly_draft",
                            status |-> "generated", visible |-> FALSE, elected |-> None, admins |-> {}]
      OBVIOUS
    <3>2. row \in Assembly!Doc
      BY <3>1 DEF Assembly!Doc
    <3>3. QED
      BY <3>1, <3>2, <2>1 DEF Assembly!Generate, OwnerInv
  <2>2. QED
    BY <2>1 DEF OwnerInv, Assembly!Generate, Assembly!ClosePolls, Assembly!governanceVars
<1>2. \A s \in Slots : Bound(tasks[s])'
  BY <1>1 DEF OwnerInv, Bound
<1>3. QED
  BY <1>1, <1>2 DEF OwnerInv, Assembly!OwnerRowStays

LEMMA OwnerStop ==
  ASSUME GovernanceParameters, OwnerInv, NEW s \in Slots, Assembly!Stop(s) PROVE OwnerInv'
<1>1. tasks' = [tasks EXCEPT ![s] = Assembly!Blank] /\ stops' \in 0..MaxStops
      /\ UNCHANGED <<roles, docs, closed, asked>>
  BY DEF Assembly!Stop, Assembly!Ends, Assembly!Goes, OwnerInv, GovernanceParameters
<1>2. QED
  BY <1>1, BlankDuty, OwnerMoves DEF OwnerInv, Assembly!OwnerRowStays

LEMMA NextOwner ==
  ASSUME GovernanceParameters, OwnerInv, [Assembly!Next]_Assembly!governanceVars PROVE OwnerInv'
  BY OwnerElse, OwnerBegins, OwnerStep, OwnerStop DEF Assembly!Next

LEMMA OwnerInvariant == ASSUME GovernanceParameters PROVE Assembly!Spec => []OwnerInv
<1>1. Assembly!Init => OwnerInv
  BY InitOwner
<1>2. OwnerInv /\ [Assembly!Next]_Assembly!governanceVars => OwnerInv'
  BY NextOwner
<1>3. QED
  BY <1>1, <1>2, PTL DEF Assembly!Spec

\* GovernanceTypeOK: roles are those the code knows and documents are rows of their table.
THEOREM GovernanceTyped == ASSUME GovernanceParameters PROVE Assembly!Spec => []Assembly!GovernanceTypeOK
<1>1. OwnerInv => Assembly!GovernanceTypeOK
  BY DEF OwnerInv, Assembly!GovernanceTypeOK
<1>2. QED
  BY <1>1, OwnerInvariant, PTL

\* OwnerRowStays: once there are roles the owner's row is among them, whatever requests
\* overlap or are cut short.
THEOREM OwnersStay == ASSUME GovernanceParameters PROVE Assembly!Spec => []Assembly!OwnerRowStays
<1>1. OwnerInv => Assembly!OwnerRowStays
  BY DEF OwnerInv
<1>2. QED
  BY <1>1, OwnerInvariant, PTL

(***************************************************************************)
(* Governance, one request at a time.                                      *)
(***************************************************************************)

OneSlot == \A r, s \in Slots : r = s

\* The accounts in office.
Filled(role, users) == \A u \in Users : <<u, role>> \in roles <=> u \in users

InOffice(row) ==
    row.elected \in Users /\ Filled("syndic", {row.elected}) /\ Filled("admin", Assembly!ElectedAdmins(row))

Vacated(q) == \A u \in Users : <<u, q.role>> \in roles => <<u, q.role>> \in q.rows

\* A document that is kept until the save: it becomes visible by a publication only.
Kept(q) ==
    /\ docs[q.doc] # None /\ q.row.poll = docs[q.doc].poll
    /\ q.row.status = "published" => q.row.visible
    /\ q.row.status = "published" \/ q.row.visible = docs[q.doc].visible

\* What the request that runs alone relies on at its next step: an office is vacant before
\* it is filled, an insertion meets no row, and a result is saved with the elected in office.
Relies(q) ==
    /\ q.pc = "bootstrap" => roles = {}
    /\ q.pc = "assign_remove" /\ q.role \in Assembly!Sole => Vacated(q)
    /\ q.pc \in {"assign_find", "assign_save"} /\ q.role \in Assembly!Sole => Filled(q.role, {})
    /\ q.pc = "assign_save" => Assembly!Named(q) \notin roles
    /\ q.pc \in {"elect_find", "elect_remove"} /\ q.role = "admin" => Filled("syndic", {})
    /\ q.pc = "elect_remove" => Vacated(q)
    /\ q.pc = "elect_syndic" => Filled("syndic", {}) /\ Filled("admin", {})
    /\ q.pc = "elect_admins" =>
          /\ Filled("syndic", {q.row.elected}) /\ q.rows \cap roles = {}
          /\ \A u \in Users : <<u, "admin">> \in roles \cup q.rows <=> u \in Assembly!ElectedAdmins(q.row)
    /\ q.pc \in Electing \cup {"save_doc"} => Kept(q)
    /\ q.pc = "save_doc" => q.row.elected = docs[q.doc].elected \/ InOffice(q.row)

OneEach == \A role \in Assembly!Sole, u, v \in Users : <<u, role>> \in roles /\ <<v, role>> \in roles => u = v

PublishedShown == \A d \in Docs : docs[d] # None /\ docs[d].status = "published" => docs[d].visible

\* The log has the row, or the request is about to write it there.
Told(row) == \E action \in {"log_created", "elected"} : <<action, row[1], row[2]>> \in log

Telling(q, row) ==
    \/ q.pc = "log_created" /\ row = Assembly!Named(q)
    \/ q.pc = "elect_admins" /\ (row = <<q.row.elected, "syndic">> \/ \E u \in q.row.admins : row = <<u, "admin">>)

Accounted == stops = 0 => \A row \in roles \ Assembly!Founding : Told(row) \/ \E s \in Slots : Telling(tasks[s], row)

OfficeInv == OneEach /\ PublishedShown /\ Accounted /\ \A s \in Slots : Relies(tasks[s])

LEMMA BlankRelies == Relies(Assembly!Blank) /\ \A row : ~ Telling(Assembly!Blank, row)
<1>1. Assembly!Blank.pc = "idle"
  BY DEF Assembly!Blank
<1>2. QED
  BY <1>1 DEF Relies, Electing, Telling

LEMMA InitOffice == ASSUME GovernanceParameters, Assembly!Init PROVE OfficeInv
<1>1. \A s \in Slots : Relies(tasks[s])
  BY BlankRelies DEF Assembly!Init
<1>2. OneEach /\ Accounted
  BY DEF Assembly!Init, OneEach, Accounted
<1>3. PublishedShown
  BY DEF Assembly!Init, PublishedShown
<1>4. QED
  BY <1>1, <1>2, <1>3 DEF OfficeInv

LEMMA AloneMoves ==
  ASSUME OneSlot, OwnerInv, NEW s \in Slots, NEW t, tasks' = [tasks EXCEPT ![s] = t]
  PROVE  \A r \in Slots : r = s /\ tasks'[r] = t
<1>1. \A r \in Slots : r = s
  BY DEF OneSlot
<1>2. tasks'[s] = t
  BY DEF OwnerInv
<1>3. QED
  BY <1>1, <1>2

LEMMA OfficeWrites ==
  ASSUME OneSlot, OwnerInv, NEW s \in Slots, NEW t, tasks' = [tasks EXCEPT ![s] = t], Relies(t)',
         OneEach', PublishedShown',
         stops' = 0 => \A row \in roles' \ Assembly!Founding : Told(row)' \/ Telling(t, row)
  PROVE  OfficeInv'
<1>1. \A r \in Slots : r = s /\ tasks'[r] = t
  BY AloneMoves
<1>2. \A r \in Slots : Relies(tasks[r])'
  <2> SUFFICES ASSUME NEW r \in Slots PROVE Relies(tasks[r])'
    OBVIOUS
  <2>1. tasks'[r] = t
    BY <1>1
  <2>2. QED
    BY <2>1 DEF Relies, Filled, InOffice, Vacated, Kept
<1>3. Accounted'
  <2>1. tasks'[s] = t
    BY <1>1
  <2>2. \A row : Telling(t, row) => Telling(tasks'[s], row)
    BY <2>1
  <2>3. QED
    BY <2>2 DEF Accounted, Told, Telling
<1>4. QED
  BY <1>2, <1>3 DEF OfficeInv

\* Who was told of before, and who is told of by the request that takes a step.
LEMMA ToldSoFar ==
  ASSUME OneSlot, OfficeInv, NEW s \in Slots, NEW q, q = tasks[s], stops = 0,
         NEW row \in roles \ Assembly!Founding
  PROVE  Told(row) \/ Telling(q, row)
<1>1. Told(row) \/ \E r \in Slots : Telling(tasks[r], row)
  BY DEF OfficeInv, Accounted
<1>2. \A r \in Slots : r = s
  BY DEF OneSlot
<1>3. QED
  BY <1>1, <1>2

\* A step that writes nothing but its own state.
LEMMA OfficeMoves ==
  ASSUME OneSlot, OwnerInv, OfficeInv, NEW s \in Slots, NEW q, q = tasks[s], NEW t,
         tasks' = [tasks EXCEPT ![s] = t], Relies(t), UNCHANGED <<roles, log, docs>>,
         stops' = 0 => stops = 0 /\ \A row : Telling(q, row) => Telling(t, row)
  PROVE  OfficeInv'
<1>1. Relies(t)'
  BY DEF Relies, Filled, InOffice, Vacated, Kept
<1>2. OneEach' /\ PublishedShown'
  BY DEF OfficeInv, OneEach, PublishedShown
<1>3. ASSUME stops' = 0, NEW row \in roles' \ Assembly!Founding PROVE Told(row)' \/ Telling(t, row)
  <2>1. Told(row) \/ Telling(q, row)
    BY <1>3, ToldSoFar
  <2>2. QED
    BY <2>1, <1>3 DEF Told
<1>4. QED
  BY <1>1, <1>2, <1>3, OfficeWrites

\* A step that removes rows of roles.
LEMMA OfficeRemoves ==
  ASSUME OneSlot, OwnerInv, OfficeInv, NEW s \in Slots, NEW q, q = tasks[s], NEW t,
         tasks' = [tasks EXCEPT ![s] = t], Relies(t)', roles' \subseteq roles,
         UNCHANGED <<log, docs, stops>>, \A row : ~ Telling(q, row)
  PROVE  OfficeInv'
<1>1. OneEach' /\ PublishedShown'
  BY DEF OfficeInv, OneEach, PublishedShown
<1>2. ASSUME stops' = 0, NEW row \in roles' \ Assembly!Founding PROVE Told(row)' \/ Telling(t, row)
  <2>1. Told(row) \/ Telling(q, row)
    BY <1>2, ToldSoFar
  <2>2. QED
    BY <2>1 DEF Told
<1>3. QED
  BY <1>1, <1>2, OfficeWrites

\* A step that inserts rows of roles, which are not there yet.
LEMMA OfficeInserts ==
  ASSUME OneSlot, OwnerInv, OfficeInv, NEW s \in Slots, NEW q, q = tasks[s], NEW t, NEW rows,
         Assembly!Insert(s, rows, t), rows \cap roles = {}, Relies(t)', UNCHANGED <<log, docs, stops>>,
         \A role \in Assembly!Sole, u \in Users :
            <<u, role>> \in rows => \A v \in Users : <<v, role>> \in roles \cup rows => v = u,
         \A row \in rows \ Assembly!Founding : Telling(t, row), \A row : Telling(q, row) => Telling(t, row)
  PROVE  OfficeInv'
<1>1. roles' = roles \cup rows /\ tasks' = [tasks EXCEPT ![s] = t]
  BY DEF Assembly!Insert, Assembly!Goes
<1>2. OneEach'
  BY <1>1 DEF OfficeInv, OneEach
<1>3. PublishedShown'
  BY DEF OfficeInv, PublishedShown
<1>4. ASSUME stops' = 0, NEW row \in roles' \ Assembly!Founding PROVE Told(row)' \/ Telling(t, row)
  <2>1. CASE row \in rows
    BY <2>1, <1>4
  <2>2. CASE row \notin rows
    <3>1. Told(row) \/ Telling(q, row)
      BY <2>2, <1>1, <1>4, ToldSoFar
    <3>2. QED
      BY <3>1 DEF Told
  <2>3. QED
    BY <2>1, <2>2
<1>5. QED
  BY <1>1, <1>2, <1>3, <1>4, OfficeWrites

LEMMA OfficeAssigns ==
  ASSUME GovernanceParameters, OneSlot, OwnerInv, OfficeInv, NEW s \in Slots,
         Assembly!BootstrapSave(s) \/ Assembly!FindOlds(s) \/ Assembly!RemoveOlds(s)
            \/ Assembly!FindSame(s) \/ Assembly!SaveParticipant(s)
  PROVE  OfficeInv'
<1> USE DEF Assembly!At, Assembly!Goes, Assembly!Ends
<1>1. PICK q \in Duty : q = tasks[s] /\ Bound(q) /\ Relies(q)
  BY DEF OwnerInv, OfficeInv
<1>2. roles \subseteq Users \X Assembly!Role
  BY DEF OwnerInv
<1>3. stops \in Nat
  BY DEF OwnerInv
<1>4. CASE Assembly!BootstrapSave(s)
  <2>1. roles = {}
    BY <1>1, <1>4 DEF Assembly!BootstrapSave, Relies
  <2>2. Relies(Assembly!Blank)'
    BY DEF Relies, Electing, Assembly!Blank
  <2>3. \A row : ~ Telling(q, row)
    BY <1>1, <1>4 DEF Assembly!BootstrapSave, Telling
  <2>4. \A role \in Assembly!Sole, u \in Users :
            <<u, role>> \in Assembly!Founding => \A v \in Users : <<v, role>> \in roles \cup Assembly!Founding => v = u
    BY <2>1 DEF Assembly!Founding, Assembly!Sole
  <2>5. QED
    BY <2>1, <2>2, <2>3, <2>4, <1>1, <1>4, OfficeInserts DEF Assembly!BootstrapSave
<1>5. CASE Assembly!FindOlds(s)
  <2>1. PICK t : t = [q EXCEPT !.pc = "assign_remove", !.rows = Assembly!Replaced(q.role)]
    OBVIOUS
  <2>2. t.pc = "assign_remove" /\ t.role = q.role /\ t.rows = Assembly!Replaced(q.role)
    BY <2>1 DEF Duty
  <2>3. q.role \in Assembly!Sole => Vacated(t)
    BY <2>2, <1>1, <1>2 DEF Vacated, Assembly!Replaced, Assembly!Holders
  <2>4. Relies(t)
    BY <2>2, <2>3 DEF Relies, Electing
  <2>5. \A row : ~ Telling(q, row)
    BY <1>1, <1>5 DEF Assembly!FindOlds, Telling
  <2>6. QED
    BY <2>1, <2>4, <2>5, <1>1, <1>5, OfficeMoves DEF Assembly!FindOlds
<1>6. CASE Assembly!RemoveOlds(s)
  <2>1. PICK t : t = [q EXCEPT !.pc = "assign_find", !.rows = {}]
    OBVIOUS
  <2>2. t.pc = "assign_find" /\ t.role = q.role
    BY <2>1 DEF Duty
  <2>3. roles' = roles \ q.rows
    BY <1>1, <1>6 DEF Assembly!RemoveOlds
  <2>4. q.role \in Assembly!Sole => Filled(q.role, {})'
    BY <2>3, <1>1, <1>6 DEF Assembly!RemoveOlds, Relies, Vacated, Filled
  <2>5. Relies(t)'
    BY <2>2, <2>4 DEF Relies, Electing, Filled
  <2>6. \A row : ~ Telling(q, row)
    BY <1>1, <1>6 DEF Assembly!RemoveOlds, Telling
  <2>7. QED
    BY <2>1, <2>3, <2>5, <2>6, <1>1, <1>6, OfficeRemoves DEF Assembly!RemoveOlds
<1>7. CASE Assembly!FindSame(s)
  <2>1. PICK t : t = [q EXCEPT !.pc = IF Assembly!Named(q) \in roles THEN "log_updated" ELSE "assign_save"]
    OBVIOUS
  <2>2. t.pc \in {"log_updated", "assign_save"} /\ t.role = q.role /\ t.user = q.user
        /\ (t.pc = "assign_save" => Assembly!Named(q) \notin roles)
    BY <2>1 DEF Duty
  <2>3. Relies(t)
    BY <2>2, <1>1, <1>7 DEF Relies, Electing, Assembly!FindSame, Assembly!Named
  <2>4. \A row : ~ Telling(q, row)
    BY <1>1, <1>7 DEF Assembly!FindSame, Telling
  <2>5. QED
    BY <2>1, <2>3, <2>4, <1>1, <1>7, OfficeMoves DEF Assembly!FindSame
<1>8. CASE Assembly!SaveParticipant(s)
  <2>1. PICK t : t = [q EXCEPT !.pc = "log_created"]
    OBVIOUS
  <2>2. t.pc = "log_created" /\ Assembly!Named(t) = Assembly!Named(q)
    BY <2>1 DEF Duty, Assembly!Named
  <2>3. Relies(t)'
    BY <2>2 DEF Relies, Electing
  <2>4. \A row \in {Assembly!Named(q)} : Telling(t, row)
    BY <2>2 DEF Telling
  <2>5. \A row : ~ Telling(q, row)
    BY <1>1, <1>8 DEF Assembly!SaveParticipant, Telling
  <2>6. {Assembly!Named(q)} \cap roles = {} /\ (q.role \in Assembly!Sole => Filled(q.role, {}))
    BY <1>1, <1>8 DEF Assembly!SaveParticipant, Relies
  <2>7. \A role \in Assembly!Sole, u \in Users :
            <<u, role>> \in {Assembly!Named(q)} => \A v \in Users : <<v, role>> \in roles \cup {Assembly!Named(q)} => v = u
    BY <2>6 DEF Assembly!Named, Filled
  <2>8. QED
    BY <2>1, <2>3, <2>4, <2>5, <2>6, <2>7, <1>1, <1>8, OfficeInserts DEF Assembly!SaveParticipant
<1>9. QED
  BY <1>4, <1>5, <1>6, <1>7, <1>8

LEMMA OfficeLogs ==
  ASSUME GovernanceParameters, OneSlot, OwnerInv, OfficeInv, NEW s \in Slots,
         Assembly!RemoveRow(s) \/ Assembly!Log(s) \/ Assembly!SaveDoc(s)
  PROVE  OfficeInv'
<1> USE DEF Assembly!At, Assembly!Goes, Assembly!Ends
<1>1. PICK q \in Duty : q = tasks[s] /\ Bound(q) /\ Relies(q)
  BY DEF OwnerInv, OfficeInv
<1>2. Relies(Assembly!Blank)'
  BY DEF Relies, Electing, Assembly!Blank
<1>3. CASE Assembly!RemoveRow(s)
  <2>1. PICK t : t = [q EXCEPT !.pc = "log_removed"]
    OBVIOUS
  <2>2. t.pc = "log_removed"
    BY <2>1 DEF Duty
  <2>3. Relies(t)'
    BY <2>2 DEF Relies, Electing
  <2>4. \A row : ~ Telling(q, row)
    BY <1>1, <1>3 DEF Assembly!RemoveRow, Telling
  <2>5. QED
    BY <2>1, <2>3, <2>4, <1>1, <1>3, OfficeRemoves DEF Assembly!RemoveRow
<1>4. CASE Assembly!Log(s)
  <2>1. log' = log \cup {<<q.pc, q.user, q.role>>} /\ tasks' = [tasks EXCEPT ![s] = Assembly!Blank]
        /\ UNCHANGED <<roles, docs, stops>>
    BY <1>1, <1>4 DEF Assembly!Log
  <2>2. OneEach' /\ PublishedShown'
    BY <2>1 DEF OfficeInv, OneEach, PublishedShown
  <2>3. ASSUME stops' = 0, NEW row \in roles' \ Assembly!Founding PROVE Told(row)'
    <3>1. Told(row) \/ Telling(q, row)
      BY <2>1, <2>3, <1>1, ToldSoFar
    <3>2. CASE Told(row)
      BY <3>2, <2>1 DEF Told
    <3>3. CASE Telling(q, row)
      <4>1. q.pc = "log_created" /\ row = Assembly!Named(q)
        BY <3>3, <1>1, <1>4 DEF Telling, Assembly!Log
      <4>2. <<"log_created", row[1], row[2]>> \in log'
        BY <4>1, <2>1 DEF Assembly!Named
      <4>3. QED
        BY <4>2 DEF Told
    <3>4. QED
      BY <3>1, <3>2, <3>3
  <2>4. QED
    BY <2>1, <2>2, <2>3, <1>2, OfficeWrites
<1>5. CASE Assembly!SaveDoc(s)
  <2>1. docs' = [docs EXCEPT ![q.doc] = q.row] /\ tasks' = [tasks EXCEPT ![s] = Assembly!Blank]
        /\ UNCHANGED <<roles, log, stops>> /\ q.pc = "save_doc"
    BY <1>1, <1>5 DEF Assembly!SaveDoc
  <2>2. q.row.status = "published" => q.row.visible
    BY <2>1, <1>1 DEF Relies, Kept
  <2>3. OneEach'
    BY <2>1 DEF OfficeInv, OneEach
  <2>4. PublishedShown'
    <3> SUFFICES ASSUME NEW d \in Docs, docs'[d] # None, docs'[d].status = "published" PROVE docs'[d].visible
      BY DEF PublishedShown
    <3>1. docs \in [Docs -> Assembly!Doc \cup {None}]
      BY DEF OwnerInv
    <3>2. CASE d = q.doc
      <4>1. docs'[d] = q.row
        BY <3>1, <3>2, <2>1
      <4>2. QED
        BY <4>1, <2>2
    <3>3. CASE d # q.doc
      BY <3>1, <3>3, <2>1 DEF OfficeInv, PublishedShown
    <3>4. QED
      BY <3>2, <3>3
  <2>5. \A row : ~ Telling(q, row)
    BY <2>1 DEF Telling
  <2>6. ASSUME stops' = 0, NEW row \in roles' \ Assembly!Founding PROVE Told(row)'
    <3>1. Told(row)
      BY <2>1, <2>5, <2>6, <1>1, ToldSoFar
    <3>2. QED
      BY <3>1, <2>1 DEF Told
  <2>7. QED
    BY <2>1, <2>3, <2>4, <2>6, <1>2, OfficeWrites
<1>6. QED
  BY <1>3, <1>4, <1>5

LEMMA OfficeElects ==
  ASSUME GovernanceParameters, OneSlot, OwnerInv, OfficeInv, NEW s \in Slots,
         Assembly!FindInOffice(s) \/ Assembly!RemoveFromOffice(s) \/ Assembly!OfficeCleared(s)
            \/ Assembly!ElectSyndic(s) \/ Assembly!ElectAdmin(s) \/ Assembly!LogElection(s)
  PROVE  OfficeInv'
<1> USE DEF Assembly!At, Assembly!Goes, Assembly!Ends
<1>1. PICK q \in Duty : q = tasks[s] /\ Bound(q) /\ Relies(q)
  BY DEF OwnerInv, OfficeInv
<1>2. roles \subseteq Users \X Assembly!Role
  BY DEF OwnerInv
<1>3. CASE Assembly!FindInOffice(s)
  <2>1. PICK t : t = [q EXCEPT !.pc = "elect_remove", !.rows = Assembly!Holders(q.role) \X {q.role}]
    OBVIOUS
  <2>2. t.pc = "elect_remove" /\ t.role = q.role /\ t.row = q.row /\ t.doc = q.doc
        /\ t.rows = Assembly!Holders(q.role) \X {q.role}
    BY <2>1 DEF Duty
  <2>3. Vacated(t)
    BY <2>2 DEF Vacated, Assembly!Holders
  <2>4. Relies(t)
    BY <2>2, <2>3, <1>1, <1>3 DEF Relies, Electing, Kept, Assembly!FindInOffice
  <2>5. \A row : ~ Telling(q, row)
    BY <1>1, <1>3 DEF Assembly!FindInOffice, Telling
  <2>6. QED
    BY <2>1, <2>4, <2>5, <1>1, <1>3, OfficeMoves DEF Assembly!FindInOffice
<1>4. CASE Assembly!RemoveFromOffice(s)
  <2>1. PICK row \in q.rows : roles' = roles \ {row} /\ tasks' = [tasks EXCEPT ![s] = [q EXCEPT !.rows = @ \ {row}]]
    BY <1>1, <1>4 DEF Assembly!RemoveFromOffice
  <2>2. PICK t : t = [q EXCEPT !.rows = @ \ {row}]
    OBVIOUS
  <2>3. t.pc = "elect_remove" /\ q.pc = "elect_remove" /\ t.role = q.role /\ t.row = q.row /\ t.doc = q.doc
        /\ t.rows = q.rows \ {row}
    BY <2>2, <1>1, <1>4 DEF Duty, Assembly!RemoveFromOffice
  <2>4. Vacated(t)'
    BY <2>1, <2>3, <1>1 DEF Relies, Vacated
  <2>5. UNCHANGED <<log, docs, stops>>
    BY <1>4 DEF Assembly!RemoveFromOffice
  <2>6. Kept(t)'
    BY <2>3, <2>5, <1>1 DEF Relies, Electing, Kept
  <2>7. t.role = "admin" => Filled("syndic", {})'
    BY <2>1, <2>3, <1>1 DEF Relies, Filled
  <2>8. Relies(t)'
    BY <2>3, <2>4, <2>6, <2>7 DEF Relies, Filled
  <2>9. \A r : ~ Telling(q, r)
    BY <2>3 DEF Telling
  <2>10. QED
    BY <2>1, <2>2, <2>5, <2>8, <2>9, <1>1, OfficeRemoves
<1>5. CASE Assembly!OfficeCleared(s)
  <2>1. PICK t : t = IF q.role = "syndic" THEN [q EXCEPT !.pc = "elect_find", !.role = "admin"]
                     ELSE [q EXCEPT !.pc = "elect_syndic"]
    OBVIOUS
  <2>2. q.pc = "elect_remove" /\ q.rows = {} /\ q.role \in {"syndic", "admin"} /\ Filled(q.role, {}) /\ Kept(q)
    BY <1>1, <1>5 DEF Assembly!OfficeCleared, Bound, Relies, Vacated, Filled, Electing
  <2>3. t.row = q.row /\ t.doc = q.doc
        /\ \/ q.role = "syndic" /\ t.pc = "elect_find" /\ t.role = "admin"
           \/ q.role = "admin" /\ t.pc = "elect_syndic"
    BY <2>1, <2>2 DEF Duty
  <2>4. Kept(t)
    BY <2>2, <2>3 DEF Kept
  <2>5. t.pc = "elect_syndic" => Filled("syndic", {})
    BY <2>2, <2>3, <1>1 DEF Relies
  <2>6. Relies(t)
    BY <2>2, <2>3, <2>4, <2>5 DEF Relies
  <2>7. \A row : ~ Telling(q, row)
    BY <2>2 DEF Telling
  <2>8. QED
    BY <2>1, <2>6, <2>7, <1>1, <1>5, OfficeMoves DEF Assembly!OfficeCleared
<1>6. CASE Assembly!ElectSyndic(s)
  <2>1. PICK t : t = [q EXCEPT !.pc = "elect_admins", !.rows = Assembly!ElectedAdmins(q.row) \X {"admin"}]
    OBVIOUS
  <2>2. t.pc = "elect_admins" /\ t.row = q.row /\ t.doc = q.doc /\ q.pc = "elect_syndic"
        /\ t.rows = Assembly!ElectedAdmins(q.row) \X {"admin"}
    BY <2>1, <1>1, <1>6 DEF Duty, Assembly!ElectSyndic
  <2>3. Filled("syndic", {}) /\ Filled("admin", {}) /\ Kept(q) /\ q.row.elected \in Users
        /\ Assembly!ElectedAdmins(q.row) \subseteq Users
    BY <2>2, <1>1 DEF Relies, Bound, Electing, Assembly!ElectedAdmins, Assembly!Doc
  <2>4. {<<q.row.elected, "syndic">>} \cap roles = {}
    BY <2>3 DEF Filled
  <2>5. roles' = roles \cup {<<q.row.elected, "syndic">>} /\ UNCHANGED <<log, docs, stops>>
    BY <2>4, <1>1, <1>6 DEF Assembly!ElectSyndic, Assembly!Insert
  <2>6. Filled("syndic", {q.row.elected})'
    BY <2>3, <2>5 DEF Filled
  <2>7. t.rows \cap roles' = {}
    BY <2>2, <2>3, <2>5 DEF Filled
  <2>8. \A u \in Users : <<u, "admin">> \in roles' \cup t.rows <=> u \in Assembly!ElectedAdmins(q.row)
    BY <2>2, <2>3, <2>5 DEF Filled
  <2>9. Kept(t)'
    BY <2>2, <2>3, <2>5 DEF Kept
  <2>10. Relies(t)'
    BY <2>2, <2>6, <2>7, <2>8, <2>9 DEF Relies, Filled
  <2>11. \A role \in Assembly!Sole, u \in Users :
            <<u, role>> \in {<<q.row.elected, "syndic">>}
               => \A v \in Users : <<v, role>> \in roles \cup {<<q.row.elected, "syndic">>} => v = u
    BY <2>3 DEF Filled
  <2>12. (\A row : ~ Telling(q, row)) /\ Telling(t, <<q.row.elected, "syndic">>)
    BY <2>2 DEF Telling
  <2>13. QED
    BY <2>1, <2>4, <2>5, <2>10, <2>11, <2>12, <1>1, <1>6, OfficeInserts DEF Assembly!ElectSyndic
<1>7. CASE Assembly!ElectAdmin(s)
  <2>1. PICK row \in q.rows : Assembly!Insert(s, {row}, [q EXCEPT !.rows = @ \ {row}])
    BY <1>1, <1>7 DEF Assembly!ElectAdmin
  <2>2. PICK t : t = [q EXCEPT !.rows = @ \ {row}]
    OBVIOUS
  <2>3. t.pc = "elect_admins" /\ q.pc = "elect_admins" /\ t.row = q.row /\ t.doc = q.doc
        /\ t.rows = q.rows \ {row}
    BY <2>2, <1>1, <1>7 DEF Duty, Assembly!ElectAdmin
  <2>4. /\ Filled("syndic", {q.row.elected}) /\ q.rows \cap roles = {} /\ Kept(q)
        /\ \A u \in Users : <<u, "admin">> \in roles \cup q.rows <=> u \in Assembly!ElectedAdmins(q.row)
        /\ q.rows \subseteq Users \X {"admin"}
    BY <2>3, <1>1 DEF Relies, Bound, Electing
  <2>5. PICK u \in Users : row = <<u, "admin">>
    BY <2>4
  <2>6. {row} \cap roles = {} /\ u \in q.row.admins
    BY <2>4, <2>5 DEF Assembly!ElectedAdmins
  <2>7. roles' = roles \cup {row} /\ UNCHANGED <<log, docs, stops>>
    BY <2>1, <2>6, <1>7 DEF Assembly!ElectAdmin, Assembly!Insert
  <2>8. Filled("syndic", {q.row.elected})'
    BY <2>4, <2>5, <2>7 DEF Filled
  <2>9. t.rows \cap roles' = {} /\ roles' \cup t.rows = roles \cup q.rows
    BY <2>3, <2>4, <2>7
  <2>10. Kept(t)'
    BY <2>3, <2>4, <2>7 DEF Kept
  <2>11. Relies(t)'
    <3>1. \A v \in Users : <<v, "admin">> \in roles' \cup t.rows <=> v \in Assembly!ElectedAdmins(t.row)
      BY <2>3, <2>4, <2>9
    <3>2. QED
      BY <3>1, <2>3, <2>8, <2>9, <2>10 DEF Relies, Filled
  <2>12. \A role \in Assembly!Sole, v \in Users :
            <<v, role>> \in {row} => \A x \in Users : <<x, role>> \in roles \cup {row} => x = v
    BY <2>5 DEF Assembly!Sole
  <2>13. (\A r : Telling(q, r) => Telling(t, r)) /\ Telling(t, row)
    BY <2>3, <2>5, <2>6 DEF Telling
  <2>14. PICK rows : rows = {row}
    OBVIOUS
  <2>15. Assembly!Insert(s, rows, t) /\ rows \cap roles = {} /\ UNCHANGED <<log, docs, stops>>
    BY <2>1, <2>2, <2>6, <2>7, <2>14
  <2>16. \A r \in rows \ Assembly!Founding : Telling(t, r)
    BY <2>13, <2>14
  <2>17. \A role \in Assembly!Sole, v \in Users :
            <<v, role>> \in rows => \A x \in Users : <<x, role>> \in roles \cup rows => x = v
    BY <2>12, <2>14
  <2>18. QED
    BY <2>11, <2>13, <2>15, <2>16, <2>17, <1>1, OfficeInserts
<1>8. CASE Assembly!LogElection(s)
  <2>1. PICK t : t = [q EXCEPT !.pc = "save_doc"]
    OBVIOUS
  <2>2. t.pc = "save_doc" /\ t.row = q.row /\ t.doc = q.doc /\ q.pc = "elect_admins" /\ q.rows = {}
    BY <2>1, <1>1, <1>8 DEF Duty, Assembly!LogElection
  <2>3. /\ log' = log \cup {<<"elected", q.row.elected, "syndic">>} \cup {<<"elected", u, "admin">> : u \in q.row.admins}
        /\ tasks' = [tasks EXCEPT ![s] = t] /\ UNCHANGED <<roles, docs, stops>>
    BY <2>1, <1>1, <1>8 DEF Assembly!LogElection
  <2>4. InOffice(q.row) /\ Kept(q)
    BY <2>2, <1>1 DEF Relies, Bound, Electing, InOffice, Filled
  <2>5. Relies(t)'
    <3>1. Kept(t)' /\ InOffice(t.row)'
      BY <2>2, <2>3, <2>4 DEF Kept, InOffice, Filled
    <3>2. QED
      BY <3>1, <2>2 DEF Relies, Electing, Filled
  <2>6. OneEach' /\ PublishedShown'
    BY <2>3 DEF OfficeInv, OneEach, PublishedShown
  <2>7. ASSUME stops' = 0, NEW row \in roles' \ Assembly!Founding PROVE Told(row)'
    <3>1. Told(row) \/ Telling(q, row)
      BY <2>3, <2>7, <1>1, ToldSoFar
    <3>2. CASE Told(row)
      BY <3>2, <2>3 DEF Told
    <3>3. CASE Telling(q, row)
      <4>1. <<"elected", row[1], row[2]>> \in log'
        BY <3>3, <2>2, <2>3 DEF Telling
      <4>2. QED
        BY <4>1 DEF Told
    <3>4. QED
      BY <3>1, <3>2, <3>3
  <2>8. QED
    BY <2>3, <2>5, <2>6, <2>7, OfficeWrites
<1>9. QED
  BY <1>3, <1>4, <1>5, <1>6, <1>7, <1>8

LEMMA OfficeBegins ==
  ASSUME GovernanceParameters, OneSlot, OwnerInv, OfficeInv, NEW s \in Slots, Assembly!Requests(s)
  PROVE  OfficeInv'
<1>1. Assembly!Blank \in Duty
  BY BlankDuty
<1>2. docs \in [Docs -> Assembly!Doc \cup {None}]
  BY DEF OwnerInv
<1>3. ASSUME NEW t, Assembly!Asks(s, t), Relies(t), UNCHANGED <<roles, log, docs, stops>>
      PROVE  OfficeInv'
  <2>1. tasks' = [tasks EXCEPT ![s] = t] /\ tasks[s].pc = "idle"
    BY <1>3 DEF Assembly!Asks, Assembly!Goes, Assembly!At
  <2>2. PICK q : q = tasks[s]
    OBVIOUS
  <2>3. \A row : ~ Telling(q, row)
    BY <2>1, <2>2 DEF Telling
  <2>4. QED
    BY <2>1, <2>2, <2>3, <1>3, OfficeMoves
<1>4. CASE Assembly!BootstrapCount(s)
  <2>1. PICK t : t = [Assembly!Blank EXCEPT !.pc = "bootstrap"]
    OBVIOUS
  <2>2. Relies(t)
    BY <2>1, <1>1, <1>4 DEF Duty, Relies, Electing, Assembly!BootstrapCount
  <2>3. QED
    BY <2>1, <2>2, <1>3, <1>4 DEF Assembly!BootstrapCount
<1>5. ASSUME NEW a \in Users, NEW u \in Users, NEW role \in Assembly!Assignable,
             Assembly!CreateParticipant(s, a, u, role)
      PROVE  OfficeInv'
  <2>1. PICK t : t = [Assembly!Blank EXCEPT !.pc = "assign_olds", !.user = u, !.role = role]
    OBVIOUS
  <2>2. Relies(t)
    BY <2>1, <1>1 DEF Duty, Relies, Electing
  <2>3. QED
    BY <2>1, <2>2, <1>3, <1>5 DEF Assembly!CreateParticipant
<1>6. ASSUME NEW a \in Users, NEW row \in roles, Assembly!RemoveParticipant(s, a, row)
      PROVE  OfficeInv'
  <2>1. PICK t : t = [Assembly!Blank EXCEPT !.pc = "remove", !.user = row[1], !.role = row[2]]
    OBVIOUS
  <2>2. Relies(t)
    BY <2>1, <1>1 DEF Duty, Relies, Electing
  <2>3. QED
    BY <2>1, <2>2, <1>3, <1>6 DEF Assembly!RemoveParticipant
<1>7. ASSUME NEW d \in Docs, docs[d] # None, NEW row \in Assembly!Doc, row.poll = docs[d].poll,
             row.elected = docs[d].elected, row.status = "published" => row.visible,
             row.status = "published" \/ row.visible = docs[d].visible,
             Assembly!Asks(s, [Assembly!Blank EXCEPT !.pc = "save_doc", !.doc = d, !.row = row]),
             UNCHANGED <<roles, log, docs, closed, stops>>
      PROVE  OfficeInv'
  <2>1. PICK t : t = [Assembly!Blank EXCEPT !.pc = "save_doc", !.doc = d, !.row = row]
    OBVIOUS
  <2>2. t.pc = "save_doc" /\ t.doc = d /\ t.row = row
    BY <2>1, <1>1 DEF Duty
  <2>3. Relies(t)
    BY <2>2, <1>7 DEF Relies, Electing, Kept
  <2>4. QED
    BY <2>1, <2>3, <1>3, <1>7
<1>8. ASSUME NEW a \in Users, NEW d \in Docs, Assembly!UploadFinalPdf(s, a, d)
      PROVE  OfficeInv'
  <2>1. docs[d] \in Assembly!Doc
    BY <1>2, <1>8 DEF Assembly!UploadFinalPdf
  <2>2. PICK row : row = Assembly!Signed(docs[d])
    OBVIOUS
  <2>3. /\ row \in Assembly!Doc /\ row.poll = docs[d].poll /\ row.elected = docs[d].elected
        /\ row.status = "published" => row.visible
        /\ row.status = "published" \/ row.visible = docs[d].visible
    BY <2>1, <2>2, SignedDoc
  <2>4. QED
    BY <2>2, <2>3, <1>7, <1>8 DEF Assembly!UploadFinalPdf
<1>9. ASSUME NEW a \in Users, NEW d \in Docs, NEW u \in Users \cup {None}, NEW admins \in SUBSET Users,
             Assembly!Publish(s, a, d, u, admins)
      PROVE  OfficeInv'
  <2>1. docs[d] \in Assembly!Doc /\ docs[d] # None
    BY <1>2, <1>9 DEF Assembly!Publish
  <2>2. PICK row : row = Assembly!Published(docs[d])
    OBVIOUS
  <2>3. /\ row \in Assembly!Doc /\ row.poll = docs[d].poll /\ row.elected = docs[d].elected
        /\ row.status = "published" /\ row.visible
    BY <2>1, <2>2, SignedDoc
  <2>4. CASE docs[d].poll = "election" /\ u # None
    <3>1. PICK new : new = [row EXCEPT !.elected = u, !.admins = admins]
      OBVIOUS
    <3>2. new.poll = docs[d].poll /\ new.status = "published" /\ new.visible
      BY <3>1, <2>3 DEF Assembly!Doc
    <3>3. PICK t : t = [Assembly!Blank EXCEPT !.pc = "elect_find", !.role = "syndic", !.doc = d, !.row = new]
      OBVIOUS
    <3>4. t.pc = "elect_find" /\ t.role = "syndic" /\ t.doc = d /\ t.row = new
      BY <3>3, <1>1 DEF Duty
    <3>5. Relies(t)
      BY <3>2, <3>4, <2>1 DEF Relies, Electing, Kept
    <3>6. QED
      BY <3>1, <3>3, <3>5, <2>2, <2>4, <1>3, <1>9 DEF Assembly!Publish
  <2>5. CASE ~ (docs[d].poll = "election" /\ u # None)
    BY <2>1, <2>2, <2>3, <2>5, <1>7, <1>9 DEF Assembly!Publish
  <2>6. QED
    BY <2>4, <2>5
<1>10. QED
  BY <1>4, <1>5, <1>6, <1>8, <1>9 DEF Assembly!Requests

LEMMA OfficeElse ==
  ASSUME GovernanceParameters, OwnerInv, OfficeInv,
         \/ \E a \in Users, d \in Docs, poll \in Polls : Assembly!Generate(a, d, poll)
         \/ Assembly!ClosePolls \/ UNCHANGED Assembly!governanceVars
  PROVE  OfficeInv'
<1>1. UNCHANGED <<roles, log, tasks, stops>>
      /\ \A d \in Docs : docs[d] # None => docs'[d] = docs[d]
  BY DEF OwnerInv, Assembly!Generate, Assembly!ClosePolls, Assembly!governanceVars
<1>2. OneEach' /\ Accounted'
  BY <1>1 DEF OfficeInv, OneEach, Accounted, Told, Telling
<1>3. PublishedShown'
  <2>1. CASE UNCHANGED docs
    BY <2>1 DEF OfficeInv, PublishedShown
  <2>2. ASSUME NEW a \in Users, NEW e \in Docs, NEW poll \in Polls, Assembly!Generate(a, e, poll)
        PROVE  PublishedShown'
    <3>1. docs'[e].status = "generated" /\ \A d \in Docs \ {e} : docs'[d] = docs[d]
      BY <2>2 DEF Assembly!Generate, OwnerInv
    <3>2. QED
      BY <3>1 DEF OfficeInv, PublishedShown
  <2>3. QED
    BY <2>1, <2>2 DEF Assembly!ClosePolls, Assembly!governanceVars
<1>4. ASSUME NEW s \in Slots PROVE Relies(tasks[s])'
  <2>1. PICK q \in Duty : q = tasks[s] /\ Bound(q) /\ Relies(q)
    BY DEF OwnerInv, OfficeInv
  <2>2. q.pc \in Electing \cup {"save_doc"} => docs'[q.doc] = docs[q.doc]
    BY <1>1, <2>1 DEF Relies, Kept, Bound
  <2>3. Relies(q)'
    BY <1>1, <2>1, <2>2 DEF Relies, Kept, Filled, Vacated, InOffice
  <2>4. tasks'[s] = q
    BY <1>1, <2>1
  <2>5. QED
    BY <2>3, <2>4 DEF Relies, Kept, Filled, Vacated, InOffice
<1>5. QED
  BY <1>2, <1>3, <1>4 DEF OfficeInv

LEMMA NextOffice ==
  ASSUME GovernanceParameters, OneSlot, OwnerInv, OfficeInv, [Assembly!Next]_Assembly!governanceVars
  PROVE  OfficeInv'
<1>1. ASSUME NEW s \in Slots, Assembly!Stop(s) PROVE OfficeInv'
  <2>1. tasks' = [tasks EXCEPT ![s] = Assembly!Blank] /\ stops' = stops + 1 /\ UNCHANGED <<roles, log, docs>>
    BY <1>1 DEF Assembly!Stop, Assembly!Ends, Assembly!Goes
  <2>2. stops' # 0
    BY <2>1 DEF OwnerInv
  <2>3. PICK q : q = tasks[s]
    OBVIOUS
  <2>4. QED
    BY <2>1, <2>2, <2>3, BlankRelies, OfficeMoves
<1>2. ASSUME NEW s \in Slots, Assembly!Steps(s) PROVE OfficeInv'
  BY <1>2, OfficeAssigns, OfficeLogs, OfficeElects DEF Assembly!Steps
<1>3. QED
  BY <1>1, <1>2, OfficeBegins, OfficeElse DEF Assembly!Next

LEMMA OfficeInvariant == ASSUME GovernanceParameters, OneSlot PROVE Assembly!Spec => [](OwnerInv /\ OfficeInv)
<1>1. Assembly!Init => OfficeInv
  BY InitOffice
<1>2. OwnerInv /\ OfficeInv /\ [Assembly!Next]_Assembly!governanceVars => OfficeInv'
  BY NextOffice
<1>3. QED
  BY <1>1, <1>2, OwnerInvariant, PTL DEF Assembly!Spec

LEMMA AssemblyCount == \A S : Assembly!Cardinality(S) = Cardinality(S)
  BY DEF Assembly!Cardinality, Cardinality

\* OneHolder: with requests one at a time there is never a second syndic or subsyndic,
\* wherever an assignment or an election is cut short.
THEOREM OfficesHeldByOne == ASSUME GovernanceParameters, OneSlot PROVE Assembly!Spec => []Assembly!OneHolder
<1>1. ASSUME OwnerInv, OneEach, NEW role \in Assembly!Sole PROVE Cardinality(Assembly!Holders(role)) <= 1
  <2>1. CASE Assembly!Holders(role) = {}
    BY <2>1, FS_EmptySet
  <2>2. CASE Assembly!Holders(role) # {}
    <3>1. PICK u : u \in Assembly!Holders(role)
      BY <2>2
    <3>2. Assembly!Holders(role) = {u}
      BY <3>1, <1>1 DEF OneEach, Assembly!Holders
    <3>3. Cardinality(Assembly!Holders(role)) = 1
      BY <3>2, FS_Singleton
    <3>4. QED
      BY <3>3
  <2>3. QED
    BY <2>1, <2>2
<1>2. OwnerInv /\ OfficeInv => Assembly!OneHolder
  BY <1>1, AssemblyCount DEF OfficeInv, Assembly!OneHolder
<1>3. QED
  BY <1>2, OfficeInvariant, PTL

\* RolesAreLogged: with requests one at a time and none cut short, the audit log says how
\* each holder of a role got it, the founding roles apart.
THEOREM RolesLogged == ASSUME GovernanceParameters, OneSlot PROVE Assembly!Spec => []Assembly!RolesAreLogged
<1>1. ASSUME Accounted, Assembly!AtRest, stops = 0, NEW row \in roles \ Assembly!Founding PROVE Told(row)
  <2>1. \A s \in Slots : ~ Telling(tasks[s], row)
    BY <1>1 DEF Assembly!AtRest, Assembly!At, Telling
  <2>2. QED
    BY <2>1, <1>1 DEF Accounted
<1>2. OfficeInv => Assembly!RolesAreLogged
  BY <1>1 DEF OfficeInv, Assembly!RolesAreLogged, Told
<1>3. QED
  BY <1>2, OfficeInvariant, PTL

\* A document that is there changes by a save only.
LEMMA OnlySaves ==
  ASSUME OwnerInv, [Assembly!Next]_Assembly!governanceVars, NEW d \in Docs, docs[d] # None, docs'[d] # docs[d]
  PROVE  \E s \in Slots : Assembly!SaveDoc(s)
<1>1. ~ \E a \in Users, e \in Docs, poll \in Polls : Assembly!Generate(a, e, poll)
  BY DEF Assembly!Generate, OwnerInv
<1>2. ~ Assembly!ClosePolls /\ ~ UNCHANGED Assembly!governanceVars /\ \A s \in Slots : ~ Assembly!Stop(s)
  BY DEF Assembly!ClosePolls, Assembly!governanceVars, Assembly!Stop
<1>3. \A s \in Slots : ~ Assembly!Requests(s)
  BY DEF Assembly!Requests, Assembly!BootstrapCount, Assembly!CreateParticipant,
     Assembly!RemoveParticipant, Assembly!UploadFinalPdf, Assembly!Publish
<1>4. \A s \in Slots : Assembly!Steps(s) => Assembly!SaveDoc(s)
  BY DEF Assembly!Steps, Assembly!BootstrapSave, Assembly!FindOlds, Assembly!RemoveOlds,
     Assembly!FindSame, Assembly!SaveParticipant, Assembly!RemoveRow, Assembly!Log,
     Assembly!FindInOffice, Assembly!RemoveFromOffice, Assembly!OfficeCleared,
     Assembly!ElectSyndic, Assembly!ElectAdmin, Assembly!LogElection
<1>5. QED
  BY <1>1, <1>2, <1>3, <1>4 DEF Assembly!Next

\* ElectionInForce: with requests one at a time, the result of an election is saved in the
\* minutes only when the elected are in office, and nobody else is.
THEOREM ElectedInOffice == ASSUME GovernanceParameters, OneSlot PROVE Assembly!Spec => Assembly!ElectionInForce
<1>1. ASSUME OwnerInv, OfficeInv, [Assembly!Next]_Assembly!governanceVars PROVE Assembly!ElectionSettles
  <2> SUFFICES ASSUME NEW d \in Docs, docs[d] # None, docs'[d].elected # docs[d].elected
               PROVE  /\ Assembly!Holders("syndic")' = {docs'[d].elected}
                      /\ Assembly!Holders("admin")' = docs'[d].admins \ {docs'[d].elected}
    BY DEF Assembly!ElectionSettles
  <2>1. docs \in [Docs -> Assembly!Doc \cup {None}]
    BY <1>1 DEF OwnerInv
  <2>2. PICK s \in Slots : Assembly!SaveDoc(s)
    BY <1>1, OnlySaves
  <2>3. PICK q \in Duty : q = tasks[s] /\ Bound(q) /\ Relies(q)
    BY <1>1 DEF OwnerInv, OfficeInv
  <2>4. q.pc = "save_doc" /\ docs' = [docs EXCEPT ![q.doc] = q.row] /\ roles' = roles
    BY <2>2, <2>3 DEF Assembly!SaveDoc, Assembly!At
  <2>5. d = q.doc /\ docs'[d] = q.row
    BY <2>1, <2>4
  <2>6. InOffice(q.row) /\ q.row \in Assembly!Doc /\ q.row.elected \in Users \cup {None}
    BY <2>3, <2>4, <2>5 DEF Relies, Bound, Assembly!Doc
  <2>7. q.row.elected \in Users
    BY <2>6 DEF InOffice
  <2>8. q.row.admins \subseteq Users
    BY <2>6 DEF Assembly!Doc
  <2>9. Assembly!Holders("syndic") = {q.row.elected} /\ Assembly!Holders("admin") = q.row.admins \ {q.row.elected}
    BY <2>6, <2>7, <2>8 DEF InOffice, Filled, Assembly!Holders, Assembly!ElectedAdmins
  <2>10. QED
    BY <2>4, <2>5, <2>9 DEF Assembly!Holders
<1>2. QED
  BY <1>1, OfficeInvariant, PTL DEF Assembly!Spec, Assembly!ElectionInForce

\* MinutesShown: with requests one at a time, residents can read the minutes of an election
\* from their publication on, whatever is uploaded and closed before.
THEOREM MinutesPublished == ASSUME GovernanceParameters, OneSlot PROVE Assembly!Spec => Assembly!MinutesShown
<1>1. ASSUME OwnerInv, OfficeInv, [Assembly!Next]_Assembly!governanceVars
      PROVE  Assembly!ElectionShownByPublication
  <2> SUFFICES ASSUME NEW d \in Docs, docs[d] # None, docs[d].poll = "election",
                      ~ Assembly!ReadByResidents(docs[d]), Assembly!ReadByResidents(docs[d])'
               PROVE  docs'[d].status = "published" /\ docs[d].status # "published"
    BY DEF Assembly!ElectionShownByPublication
  <2>1. ~ docs[d].visible
    BY DEF Assembly!ReadByResidents
  <2>2. docs[d].status # "published"
    BY <2>1, <1>1 DEF OfficeInv, PublishedShown
  <2>3. docs'[d] # docs[d]
    BY <2>1 DEF Assembly!ReadByResidents
  <2>4. PICK s \in Slots : Assembly!SaveDoc(s)
    BY <2>3, <1>1, OnlySaves
  <2>5. PICK q \in Duty : q = tasks[s] /\ Bound(q) /\ Relies(q)
    BY <1>1 DEF OwnerInv, OfficeInv
  <2>6. q.pc = "save_doc" /\ docs' = [docs EXCEPT ![q.doc] = q.row]
    BY <2>4, <2>5 DEF Assembly!SaveDoc, Assembly!At
  <2>7. d = q.doc /\ docs'[d] = q.row
    BY <2>3, <2>6, <1>1 DEF OwnerInv
  <2>8. Kept(q)
    BY <2>5, <2>6 DEF Relies
  <2>9. q.row.poll = "election"
    BY <2>7, <2>8 DEF Kept
  <2>10. q.row.visible
    BY <2>7, <2>9 DEF Assembly!ReadByResidents
  <2>11. QED
    BY <2>1, <2>2, <2>7, <2>8, <2>10 DEF Kept
<1>2. QED
  BY <1>1, OfficeInvariant, PTL DEF Assembly!Spec, Assembly!MinutesShown

(***************************************************************************)
(* Accruals of the funds.                                                  *)
(***************************************************************************)

Accruals == INSTANCE FundAccruals

\* Funds are set up as the module says, and there is a month for the rows of earlier
\* releases.
AccrualParameters ==
    /\ MaxMonth \in Nat \ {0} /\ MaxUnits \in Nat /\ MaxCents \in Nat /\ MaxIds \in Nat
    /\ MaxCalls \in Nat /\ MaxFaults \in Nat
    /\ Legacy \subseteq Funds /\ Setups \subseteq Accruals!Fund

\* The accrual that a transaction is of, and that a request is at.
KeyOf(row) == <<row.fund, row.month>>

Referring == {"read", "drop", "share", "turn", "mark"}

\* What a request holds between two awaits: a transaction it refers to was made, and is one
\* of the fund and month it is at, if it is still there.
Closing(q) ==
    /\ q.step # "idle" => q.month \in Accruals!Months
    /\ q.step \notin {"idle", "list", "paid", "clear"} => q.fund \in Funds
    /\ q.step \in Referring =>
          /\ q.tx \in Accruals!Ids /\ q.tx <= made
          /\ q.tx \in DOMAIN txs => KeyOf(txs[q.tx]) = KeyOf(q)
    /\ q.step \in {"drop", "share", "turn", "make"} => q.ent \in Accruals!Tx /\ KeyOf(q.ent) = KeyOf(q)

\* Requests that refer to one transaction are at one fund and month, also when it is gone.
Agreeing(q, p) ==
    q.step \in Referring /\ p.step \in Referring /\ q.tx = p.tx => KeyOf(q) = KeyOf(p)

TxsTyped ==
    /\ txs \in [DOMAIN txs -> Accruals!Tx] /\ DOMAIN txs \subseteq Accruals!Ids
    /\ \A i \in DOMAIN txs : i <= made

AccrualsTyped ==
    /\ DOMAIN accruals \subseteq Accruals!Keys
    /\ \A k \in DOMAIN accruals : accruals[k] \in DOMAIN txs /\ k = KeyOf(txs[accruals[k]])

RestTyped ==
    /\ plans \in [Funds -> Accruals!Fund] /\ units \in [Funds -> Accruals!Counts]
    /\ tasks \in [Slots -> Accruals!Task]
    /\ closed \subseteq Accruals!Months /\ made \in 0..MaxIds /\ calls \in 0..MaxCalls
    /\ faults \in 0..MaxFaults /\ overlaps \in BOOLEAN

AccrualInv ==
    /\ TxsTyped /\ AccrualsTyped /\ RestTyped
    /\ \A w \in Slots : Closing(tasks[w])
    /\ \A v, w \in Slots : Agreeing(tasks[v], tasks[w])

LEMMA AccrualIdle ==
  /\ Accruals!Idle \in Accruals!Task /\ Accruals!Idle.step = "idle"
  /\ Closing(Accruals!Idle) /\ \A q : Agreeing(Accruals!Idle, q) /\ Agreeing(q, Accruals!Idle)
<1>1. Accruals!Idle \in Accruals!Task /\ Accruals!Idle.step = "idle"
  BY DEF Accruals!Idle, Accruals!Task
<1>2. QED
  BY <1>1 DEF Closing, Agreeing, Referring

LEMMA AccrualCount == \A S : Accruals!Cardinality(S) = Cardinality(S)
  BY DEF Accruals!Cardinality, Cardinality

LEMMA InitAccruals == ASSUME AccrualParameters, Accruals!Init PROVE AccrualInv
<1>0. PICK old \in SUBSET Legacy : \E id \in [old -> Accruals!Ids] :
        /\ \A f, g \in old : f # g => id[f] # id[g]
        /\ \A i \in Accruals!Range(id) : i <= Cardinality(old)
        /\ txs = [i \in Accruals!Range(id) |-> Accruals!LegacyTx(CHOOSE f \in old : id[f] = i)]
        /\ accruals = [k \in old \X {1} |-> id[k[1]]]
        /\ made = Cardinality(old)
  BY AccrualCount DEF Accruals!Init
<1>1. PICK id \in [old -> Accruals!Ids] :
        /\ \A f, g \in old : f # g => id[f] # id[g]
        /\ \A i \in Accruals!Range(id) : i <= Cardinality(old)
        /\ txs = [i \in Accruals!Range(id) |-> Accruals!LegacyTx(CHOOSE f \in old : id[f] = i)]
        /\ accruals = [k \in old \X {1} |-> id[k[1]]]
        /\ made = Cardinality(old)
  BY <1>0
<1>2. made \in 0..MaxIds
  <2>1. id \in Injection(old, Accruals!Ids)
    BY <1>1 DEF Injection, IsInjective
  <2>2. IsFiniteSet(Accruals!Ids) /\ Cardinality(Accruals!Ids) = MaxIds
    BY FS_Interval DEF Accruals!Ids, AccrualParameters
  <2>3. IsFiniteSet(old) /\ Cardinality(old) <= Cardinality(Accruals!Ids)
    BY <2>1, <2>2, FS_Injection
  <2>4. Cardinality(old) \in Nat
    BY <2>3, FS_CardinalityType
  <2>5. QED
    BY <2>2, <2>3, <2>4, <1>1 DEF AccrualParameters
<1>3. ASSUME NEW f \in old PROVE id[f] \in DOMAIN txs /\ txs[id[f]] = Accruals!LegacyTx(f)
  <2>1. id[f] \in Accruals!Range(id)
    BY <1>1 DEF Accruals!Range
  <2>2. \A g \in old : id[g] = id[f] => g = f
    BY <1>1
  <2>3. (CHOOSE g \in old : id[g] = id[f]) = f
    BY <2>2
  <2>4. QED
    BY <2>1, <2>3, <1>1
<1>4. \A f \in Funds : Accruals!LegacyTx(f) \in Accruals!Tx /\ KeyOf(Accruals!LegacyTx(f)) = <<f, 1>>
  BY DEF Accruals!LegacyTx, Accruals!Tx, Accruals!Shares, KeyOf, Accruals!Months, AccrualParameters
<1>5. \A i \in DOMAIN txs : \E f \in old : i = id[f] /\ txs[i] = Accruals!LegacyTx(f)
  BY <1>1, <1>3 DEF Accruals!Range
<1>6. TxsTyped
  <2>1. DOMAIN txs = Accruals!Range(id)
    BY <1>1
  <2>2. txs = [i \in DOMAIN txs |-> txs[i]]
    BY <1>1
  <2>3. \A i \in DOMAIN txs : txs[i] \in Accruals!Tx
    BY <1>4, <1>5 DEF AccrualParameters
  <2>4. \A i \in DOMAIN txs : i \in Accruals!Ids /\ i <= made
    BY <1>1, <1>5, <2>1
  <2>5. QED
    BY <2>2, <2>3, <2>4 DEF TxsTyped
<1>7. AccrualsTyped
  <2>1. DOMAIN accruals = old \X {1}
    BY <1>1
  <2>2. ASSUME NEW k \in DOMAIN accruals
        PROVE  k \in Accruals!Keys /\ accruals[k] \in DOMAIN txs /\ k = KeyOf(txs[accruals[k]])
    <3>1. PICK f \in old : k = <<f, 1>>
      BY <2>1
    <3>2. accruals[k] = id[f] /\ f \in Funds
      BY <3>1, <1>1 DEF AccrualParameters
    <3>3. QED
      BY <3>1, <3>2, <1>3, <1>4 DEF Accruals!Keys, Accruals!Months, AccrualParameters
  <2>3. QED
    BY <2>2 DEF AccrualsTyped
<1>8. tasks \in [Slots -> Accruals!Task] /\ \A w \in Slots : tasks[w] = Accruals!Idle
  BY AccrualIdle DEF Accruals!Init
<1>9. RestTyped
  <2>1. plans \in [Funds -> Accruals!Fund] /\ units \in [Funds -> Accruals!Counts]
    BY DEF Accruals!Init, AccrualParameters
  <2>2. closed = {} /\ calls = 0 /\ faults = 0 /\ overlaps \in BOOLEAN
    BY DEF Accruals!Init
  <2>3. QED
    BY <2>1, <2>2, <1>2, <1>8 DEF RestTyped, AccrualParameters
<1>10. \A v, w \in Slots : Closing(tasks[w]) /\ Agreeing(tasks[v], tasks[w])
  BY <1>8, AccrualIdle
<1>11. QED
  BY <1>6, <1>7, <1>9, <1>10 DEF AccrualInv

\* Transactions keep their fund and month, and one that comes back is of the fund and month
\* of those who refer to it.
SameKeys ==
    \A i \in DOMAIN txs' : i <= made =>
        /\ i \in DOMAIN txs => KeyOf(txs'[i]) = KeyOf(txs[i])
        /\ i \notin DOMAIN txs =>
              \A v \in Slots : tasks[v].step \in Referring /\ tasks[v].tx = i => KeyOf(txs'[i]) = KeyOf(tasks[v])

LEMMA ClosingKept ==
  ASSUME AccrualInv, SameKeys, made' \in Nat, made <= made', NEW v \in Slots, NEW q, q = tasks[v]
  PROVE  Closing(q)'
<1>1. Closing(q) /\ made \in Nat
  BY DEF AccrualInv, RestTyped
<1>2. ASSUME q.step \in Referring PROVE q.tx \in Accruals!Ids /\ q.tx <= made' /\ q.tx <= made
  BY <1>1, <1>2 DEF Closing, Accruals!Ids
<1>3. ASSUME q.step \in Referring, q.tx \in DOMAIN txs' PROVE KeyOf(txs'[q.tx]) = KeyOf(q)
  BY <1>1, <1>2, <1>3 DEF Closing, SameKeys
<1>4. QED
  BY <1>1, <1>2, <1>3 DEF Closing, KeyOf

\* A step of one request.
LEMMA AccrualWrites ==
  ASSUME AccrualInv, NEW w \in Slots, NEW t \in Accruals!Task, tasks' = [tasks EXCEPT ![w] = t],
         TxsTyped', AccrualsTyped', SameKeys, made' \in 0..MaxIds, made <= made', Closing(t)',
         \A v \in Slots \ {w} : Agreeing(t, tasks[v]),
         closed' \subseteq Accruals!Months, calls' \in 0..MaxCalls, faults' \in 0..MaxFaults,
         overlaps' \in BOOLEAN, UNCHANGED <<plans, units>>
  PROVE  AccrualInv'
<1>1. tasks' \in [Slots -> Accruals!Task] /\ tasks'[w] = t /\ \A v \in Slots \ {w} : tasks'[v] = tasks[v]
  BY DEF AccrualInv, RestTyped
<1>2. RestTyped'
  BY <1>1 DEF AccrualInv, RestTyped
<1>3. ASSUME NEW v \in Slots PROVE Closing(tasks[v])'
  <2>1. CASE v = w
    <3>1. tasks'[v] = t
      BY <2>1, <1>1
    <3>2. QED
      BY <3>1 DEF Closing, KeyOf
  <2>2. CASE v # w
    <3>1. PICK q : q = tasks[v]
      OBVIOUS
    <3>2. Closing(q)'
      BY <3>1, ClosingKept
    <3>3. tasks'[v] = q
      BY <3>1, <2>2, <1>1
    <3>4. QED
      BY <3>2, <3>3 DEF Closing, KeyOf
  <2>3. QED
    BY <2>1, <2>2
<1>4. ASSUME NEW u \in Slots, NEW v \in Slots PROVE Agreeing(tasks'[u], tasks'[v])
  <2>1. CASE u # w /\ v # w
    BY <2>1, <1>1 DEF AccrualInv
  <2>2. CASE u = w \/ v = w
    BY <2>2, <1>1 DEF Agreeing
  <2>3. QED
    BY <2>1, <2>2
<1>5. \A u, v \in Slots : Agreeing(tasks[u], tasks[v])'
  BY <1>4 DEF Agreeing, KeyOf
<1>6. QED
  BY <1>2, <1>3, <1>5 DEF AccrualInv

\* A step that writes no transaction and no accrual.
LEMMA AccrualMoves ==
  ASSUME AccrualInv, NEW w \in Slots, NEW t \in Accruals!Task, tasks' = [tasks EXCEPT ![w] = t],
         Closing(t), \A v \in Slots \ {w} : Agreeing(t, tasks[v]),
         UNCHANGED <<txs, accruals, made, plans, units>>,
         closed' \subseteq Accruals!Months, calls' \in 0..MaxCalls, faults' \in 0..MaxFaults,
         overlaps' \in BOOLEAN
  PROVE  AccrualInv'
<1>1. TxsTyped' /\ AccrualsTyped' /\ SameKeys
  BY DEF AccrualInv, TxsTyped, AccrualsTyped, SameKeys, KeyOf
<1>2. made' \in 0..MaxIds /\ made <= made'
  BY DEF AccrualInv, RestTyped
<1>3. Closing(t)'
  BY DEF Closing, KeyOf
<1>4. QED
  BY <1>1, <1>2, <1>3, AccrualWrites

LEMMA NextOfFunds ==
  ASSUME AccrualInv, NEW w \in Slots, tasks[w].step # "idle", Accruals!NextFund(w)
  PROVE  /\ closed' \subseteq Accruals!Months
         /\ \E t \in Accruals!Task :
               /\ tasks' = [tasks EXCEPT ![w] = t] /\ t.step \in {"idle", "find"}
               /\ Closing(t) /\ Closing(t)' /\ \A q : Agreeing(t, q)
<1>1. PICK q \in Accruals!Task : q = tasks[w] /\ Closing(q)
  BY DEF AccrualInv, RestTyped
<1>2. q.month \in Accruals!Months /\ closed \subseteq Accruals!Months /\ q.left \subseteq Funds
  BY <1>1 DEF Closing, AccrualInv, RestTyped, Accruals!Task
<1>3. CASE q.left = {}
  <2>1. tasks' = [tasks EXCEPT ![w] = Accruals!Idle] /\ closed' = closed \cup {q.month}
    BY <1>1, <1>3 DEF Accruals!NextFund, Accruals!Become
  <2>2. Closing(Accruals!Idle)'
    BY AccrualIdle DEF Closing, Referring
  <2>3. QED
    BY <2>1, <2>2, <1>2, AccrualIdle
<1>4. CASE q.left # {}
  <2>1. PICK f \in q.left : tasks' = [tasks EXCEPT ![w] = [Accruals!Idle EXCEPT !.step = "find", !.month = q.month,
                                           !.fund = f, !.left = q.left \ {f}]]
    BY <1>1, <1>4 DEF Accruals!NextFund, Accruals!Become
  <2>2. PICK t : t = [Accruals!Idle EXCEPT !.step = "find", !.month = q.month, !.fund = f, !.left = q.left \ {f}]
    OBVIOUS
  <2>3. t \in Accruals!Task /\ t.step = "find" /\ t.month = q.month /\ t.fund = f
    BY <2>2, <1>2, AccrualIdle DEF Accruals!Task
  <2>4. Closing(t) /\ Closing(t)' /\ \A p : Agreeing(t, p)
    BY <2>3, <1>2 DEF Closing, Agreeing, Referring
  <2>5. closed' = closed
    BY <1>1, <1>4 DEF Accruals!NextFund
  <2>6. QED
    BY <2>1, <2>2, <2>3, <2>4, <2>5, <1>2
<1>5. QED
  BY <1>3, <1>4

LEMMA AccrualStarts ==
  ASSUME AccrualParameters, AccrualInv, NEW w \in Slots, NEW m \in Accruals!Months,
         Accruals!CloseMonth(w, m) \/ Accruals!RegenerateMonth(w, m)
  PROVE  AccrualInv'
<1>1. PICK t \in Accruals!Task : Accruals!Start(w, t) /\ Closing(t) /\ \A q : Agreeing(t, q)
  <2>1. CASE Accruals!CloseMonth(w, m)
    <3>1. PICK f \in Funds : Accruals!Start(w, [Accruals!Idle EXCEPT !.step = "find", !.month = m, !.fund = f, !.left = Funds \ {f}])
      BY <2>1 DEF Accruals!CloseMonth
    <3>2. PICK t : t = [Accruals!Idle EXCEPT !.step = "find", !.month = m, !.fund = f, !.left = Funds \ {f}]
      OBVIOUS
    <3>3. t \in Accruals!Task /\ t.step = "find" /\ t.month = m /\ t.fund = f
      BY <3>2, AccrualIdle DEF Accruals!Task
    <3>4. Closing(t) /\ \A q : Agreeing(t, q)
      BY <3>3 DEF Closing, Agreeing, Referring
    <3>5. Accruals!Start(w, t)
      BY <3>1, <3>2
    <3>6. QED
      BY <3>3, <3>4, <3>5
  <2>2. CASE Accruals!RegenerateMonth(w, m)
    <3>1. PICK t : t = [Accruals!Idle EXCEPT !.step = "list", !.month = m]
      OBVIOUS
    <3>2. t \in Accruals!Task /\ t.step = "list" /\ t.month = m
      BY <3>1, AccrualIdle DEF Accruals!Task
    <3>3. Closing(t) /\ \A q : Agreeing(t, q)
      BY <3>2 DEF Closing, Agreeing, Referring
    <3>4. Accruals!Start(w, t)
      BY <3>1, <2>2 DEF Accruals!RegenerateMonth
    <3>5. QED
      BY <3>2, <3>3, <3>4
  <2>3. QED
    BY <2>1, <2>2
<1>2. tasks' = [tasks EXCEPT ![w] = t] /\ UNCHANGED <<made, plans, units, txs, accruals, closed, faults>>
      /\ calls' = calls + 1 /\ calls < MaxCalls /\ overlaps' \in BOOLEAN
  BY <1>1 DEF Accruals!Start, Accruals!Become, AccrualInv, RestTyped
<1>3. closed' \subseteq Accruals!Months /\ calls' \in 0..MaxCalls /\ faults' \in 0..MaxFaults
  BY <1>2 DEF AccrualInv, RestTyped, AccrualParameters
<1>4. QED
  BY <1>1, <1>2, <1>3, AccrualMoves

LEMMA AccrualReads ==
  ASSUME AccrualParameters, AccrualInv, NEW w \in Slots,
         Accruals!ListAccruals(w) \/ Accruals!ReadStatus(w) \/ Accruals!FindAccrual(w) \/ Accruals!ReadAccrued(w)
  PROVE  AccrualInv'
<1>1. PICK q \in Accruals!Task : q = tasks[w] /\ Closing(q) /\ \A v \in Slots : Agreeing(q, tasks[v])
  BY DEF AccrualInv, RestTyped
<1>2. closed \subseteq Accruals!Months /\ calls \in 0..MaxCalls /\ faults \in 0..MaxFaults /\ overlaps \in BOOLEAN
  BY DEF AccrualInv, RestTyped
<1>3. AccrualsTyped /\ TxsTyped
  BY DEF AccrualInv
<1>4. ASSUME NEW t \in Accruals!Task, tasks' = [tasks EXCEPT ![w] = t], Closing(t),
             \A v \in Slots \ {w} : Agreeing(t, tasks[v]),
             UNCHANGED <<made, plans, units, txs, accruals, closed, calls, faults, overlaps>>
      PROVE  AccrualInv'
  BY <1>2, <1>4, AccrualMoves
<1>5. CASE Accruals!ListAccruals(w)
  <2>1. PICK ids : ids = {accruals[k] : k \in {x \in DOMAIN accruals : x[2] = q.month}}
    OBVIOUS
  <2>2. ids \subseteq Accruals!Ids
    BY <2>1, <1>3 DEF AccrualsTyped, TxsTyped
  <2>3. PICK t : t = [q EXCEPT !.step = "paid", !.ids = ids]
    OBVIOUS
  <2>4. t \in Accruals!Task /\ t.step = "paid" /\ t.month = q.month
    BY <2>2, <2>3 DEF Accruals!Task
  <2>5. Closing(t) /\ \A p : Agreeing(t, p)
    BY <2>4, <1>1, <1>5 DEF Closing, Agreeing, Referring, Accruals!ListAccruals
  <2>6. tasks' = [tasks EXCEPT ![w] = t]
    BY <2>1, <2>3, <1>1, <1>5 DEF Accruals!ListAccruals, Accruals!Become
  <2>7. QED
    BY <2>4, <2>5, <2>6, <1>4, <1>5 DEF Accruals!ListAccruals
<1>6. CASE Accruals!ReadStatus(w)
  <2>1. PICK ids : ids = {i \in q.ids \cap DOMAIN txs : txs[i].status = "pending"}
    OBVIOUS
  <2>2. ids \subseteq Accruals!Ids
    BY <2>1 DEF Accruals!Task
  <2>3. PICK t : t = [q EXCEPT !.step = "clear", !.ids = ids]
    OBVIOUS
  <2>4. t \in Accruals!Task /\ t.step = "clear" /\ t.month = q.month
    BY <2>2, <2>3 DEF Accruals!Task
  <2>5. Closing(t) /\ \A p : Agreeing(t, p)
    BY <2>4, <1>1, <1>6 DEF Closing, Agreeing, Referring, Accruals!ReadStatus
  <2>6. tasks' = [tasks EXCEPT ![w] = t]
    BY <2>1, <2>3, <1>1, <1>6 DEF Accruals!ReadStatus, Accruals!Become
  <2>7. QED
    BY <2>4, <2>5, <2>6, <1>4, <1>6 DEF Accruals!ReadStatus
<1>7. CASE Accruals!FindAccrual(w)
  <2>1. q.step = "find" /\ q.fund \in Funds /\ q.month \in Accruals!Months
    BY <1>1, <1>7 DEF Accruals!FindAccrual, Closing
  <2>2. CASE <<q.fund, q.month>> \in DOMAIN accruals
    <3>1. PICK i : i = accruals[<<q.fund, q.month>>]
      OBVIOUS
    <3>2. i \in Accruals!Ids /\ i <= made /\ i \in DOMAIN txs /\ KeyOf(txs[i]) = <<q.fund, q.month>>
      BY <3>1, <2>2, <1>3 DEF AccrualsTyped, TxsTyped
    <3>3. PICK t : t = [q EXCEPT !.step = "read", !.tx = i]
      OBVIOUS
    <3>4. t \in Accruals!Task /\ t.step = "read" /\ t.tx = i /\ t.month = q.month /\ t.fund = q.fund
      BY <3>2, <3>3 DEF Accruals!Task
    <3>5. Closing(t)
      BY <3>2, <3>4, <2>1 DEF Closing, Referring, KeyOf
    <3>6. ASSUME NEW v \in Slots PROVE Agreeing(t, tasks[v])
      <4>1. Closing(tasks[v])
        BY DEF AccrualInv
      <4>2. QED
        BY <4>1, <3>2, <3>4 DEF Closing, Agreeing, KeyOf
    <3>7. tasks' = [tasks EXCEPT ![w] = t]
      BY <3>1, <3>3, <2>2, <1>1, <1>7 DEF Accruals!FindAccrual, Accruals!Become
    <3>8. QED
      BY <3>4, <3>5, <3>6, <3>7, <1>4, <1>7 DEF Accruals!FindAccrual
  <2>3. CASE <<q.fund, q.month>> \notin DOMAIN accruals
    <3>1. PICK t : t = [q EXCEPT !.step = "units"]
      OBVIOUS
    <3>2. t \in Accruals!Task /\ t.step = "units" /\ t.month = q.month /\ t.fund = q.fund
      BY <3>1 DEF Accruals!Task
    <3>3. Closing(t) /\ \A p : Agreeing(t, p)
      BY <3>2, <2>1 DEF Closing, Agreeing, Referring
    <3>4. tasks' = [tasks EXCEPT ![w] = t]
      BY <3>1, <2>3, <1>1, <1>7 DEF Accruals!FindAccrual, Accruals!Become
    <3>5. QED
      BY <3>2, <3>3, <3>4, <1>4, <1>7 DEF Accruals!FindAccrual
  <2>4. QED
    BY <2>2, <2>3
<1>8. CASE Accruals!ReadAccrued(w)
  <2>1. q.step = "read" /\ UNCHANGED <<made, plans, units, txs, accruals, calls, faults, overlaps>>
    BY <1>1, <1>8 DEF Accruals!ReadAccrued
  <2>2. CASE Accruals!NextFund(w)
    <3>1. closed' \subseteq Accruals!Months /\
          \E t \in Accruals!Task :
               /\ tasks' = [tasks EXCEPT ![w] = t] /\ Closing(t) /\ \A p : Agreeing(t, p)
      BY <2>1, <2>2, <1>1, NextOfFunds
    <3>2. QED
      BY <3>1, <2>1, <1>2, AccrualMoves
  <2>3. ASSUME NEW step \in {"drop", "turn"}, q.tx \in DOMAIN txs, UNCHANGED closed,
               Accruals!Become(w, [q EXCEPT !.step = step, !.ent = txs[q.tx]])
        PROVE  AccrualInv'
    <3>1. txs[q.tx] \in Accruals!Tx
      BY <2>3, <1>3 DEF TxsTyped
    <3>2. PICK t : t = [q EXCEPT !.step = step, !.ent = txs[q.tx]]
      OBVIOUS
    <3>3. t \in Accruals!Task /\ t.step = step /\ t.tx = q.tx /\ t.month = q.month /\ t.fund = q.fund
          /\ t.ent = txs[q.tx]
      BY <3>1, <3>2 DEF Accruals!Task
    <3>4. Closing(t) /\ \A v \in Slots : Agreeing(t, tasks[v])
      BY <3>1, <3>3, <2>1, <2>3, <1>1 DEF Closing, Agreeing, Referring, KeyOf
    <3>5. tasks' = [tasks EXCEPT ![w] = t]
      BY <3>2, <2>3 DEF Accruals!Become
    <3>6. QED
      BY <3>3, <3>4, <3>5, <2>1, <2>3, <1>4
  <2>4. QED
    BY <2>2, <2>3, <1>1, <1>8 DEF Accruals!ReadAccrued
<1>9. QED
  BY <1>5, <1>6, <1>7, <1>8

\* Transactions are removed with the accruals that refer to them.
LEMMA TxsRemoved ==
  ASSUME AccrualInv, NEW ids, Accruals!RemoveTxs(ids), UNCHANGED made
  PROVE  /\ TxsTyped' /\ AccrualsTyped' /\ SameKeys
         /\ txs' = [i \in DOMAIN txs \ ids |-> txs[i]]
         /\ accruals' = [k \in {x \in DOMAIN accruals : accruals[x] \notin ids} |-> accruals[k]]
<1>1. txs' = [i \in DOMAIN txs \ ids |-> txs[i]]
  BY DEF Accruals!RemoveTxs, Accruals!Without
<1>2. accruals' = [k \in {x \in DOMAIN accruals : accruals[x] \notin ids} |-> accruals[k]]
  <2>1. DOMAIN accruals \ {k \in DOMAIN accruals : accruals[k] \in ids} = {x \in DOMAIN accruals : accruals[x] \notin ids}
    OBVIOUS
  <2>2. QED
    BY <2>1 DEF Accruals!RemoveTxs, Accruals!Without
<1>3. TxsTyped'
  BY <1>1 DEF AccrualInv, TxsTyped
<1>4. AccrualsTyped'
  BY <1>1, <1>2 DEF AccrualInv, AccrualsTyped, KeyOf
<1>5. SameKeys
  BY <1>1 DEF SameKeys, KeyOf
<1>6. QED
  BY <1>1, <1>2, <1>3, <1>4, <1>5

LEMMA AccrualClears ==
  ASSUME AccrualParameters, AccrualInv, NEW w \in Slots, Accruals!ClearPending(w) PROVE AccrualInv'
<1>1. PICK q \in Accruals!Task : q = tasks[w] /\ Closing(q)
  BY DEF AccrualInv, RestTyped
<1>2. PICK f \in Funds : tasks' = [tasks EXCEPT ![w] = [Accruals!Idle EXCEPT !.step = "find", !.month = q.month,
                                                        !.fund = f, !.left = Funds \ {f}]]
  BY <1>1 DEF Accruals!ClearPending, Accruals!Become
<1>3. PICK t : t = [Accruals!Idle EXCEPT !.step = "find", !.month = q.month, !.fund = f, !.left = Funds \ {f}]
  OBVIOUS
<1>4. q.month \in Accruals!Months
  BY <1>1 DEF Closing, Accruals!ClearPending
<1>5. t \in Accruals!Task /\ t.step = "find" /\ t.month = q.month /\ t.fund = f
  BY <1>3, <1>4, AccrualIdle DEF Accruals!Task
<1>6. Closing(t)' /\ \A p : Agreeing(t, p)
  BY <1>4, <1>5 DEF Closing, Agreeing, Referring
<1>7. Accruals!RemoveTxs(q.ids) /\ UNCHANGED <<made, plans, units, calls, faults, overlaps>>
      /\ closed' = closed \ {q.month}
  BY <1>1 DEF Accruals!ClearPending
<1>8. TxsTyped' /\ AccrualsTyped' /\ SameKeys
  BY <1>7, TxsRemoved
<1>9. /\ made' \in 0..MaxIds /\ made <= made' /\ calls' \in 0..MaxCalls /\ faults' \in 0..MaxFaults
      /\ overlaps' \in BOOLEAN /\ closed' \subseteq Accruals!Months
  BY <1>7 DEF AccrualInv, RestTyped
<1>10. QED
  BY <1>2, <1>3, <1>5, <1>6, <1>7, <1>8, <1>9, AccrualWrites

\* A step that changes rows but neither their fund nor their month.
LEMMA TxsRewritten ==
  ASSUME AccrualInv, made' \in Nat, made <= made', txs' \in [DOMAIN txs -> Accruals!Tx], UNCHANGED accruals,
         \A i \in DOMAIN txs : KeyOf(txs'[i]) = KeyOf(txs[i])
  PROVE  TxsTyped' /\ AccrualsTyped' /\ SameKeys
<1>1. DOMAIN txs' = DOMAIN txs
  OBVIOUS
<1>2. made \in Nat
  BY DEF AccrualInv, RestTyped
<1>3. TxsTyped'
  BY <1>1, <1>2 DEF AccrualInv, TxsTyped, Accruals!Ids
<1>4. AccrualsTyped'
  BY <1>1 DEF AccrualInv, AccrualsTyped, KeyOf
<1>5. QED
  BY <1>1, <1>3, <1>4 DEF SameKeys

LEMMA AccrualNormalises ==
  ASSUME AccrualParameters, AccrualInv, NEW w \in Slots, Accruals!DropShares(w) \/ Accruals!CreditShares(w)
  PROVE  AccrualInv'
<1>1. PICK q \in Accruals!Task : q = tasks[w] /\ Closing(q) /\ \A v \in Slots : Agreeing(q, tasks[v])
  BY DEF AccrualInv, RestTyped
<1>2. closed \subseteq Accruals!Months /\ calls \in 0..MaxCalls /\ faults \in 0..MaxFaults
      /\ overlaps \in BOOLEAN /\ made \in 0..MaxIds
  BY DEF AccrualInv, RestTyped
<1>3. TxsTyped
  BY DEF AccrualInv
<1>4. q.step \in {"drop", "share"} /\ q.tx \in Accruals!Ids
  BY <1>1 DEF Accruals!DropShares, Accruals!CreditShares, Closing, Referring
<1>5. ASSUME NEW new \in Accruals!Shares, q.tx \in DOMAIN txs, made' \in 0..MaxIds, made <= made',
             txs' = [txs EXCEPT ![q.tx].shares = new], UNCHANGED accruals
      PROVE  TxsTyped' /\ AccrualsTyped' /\ SameKeys
  <2>1. txs[q.tx] \in Accruals!Tx
    BY <1>3, <1>5 DEF TxsTyped
  <2>2. PICK row : row = [txs[q.tx] EXCEPT !.shares = new]
    OBVIOUS
  <2>3. row \in Accruals!Tx /\ KeyOf(row) = KeyOf(txs[q.tx])
    BY <2>1, <2>2 DEF Accruals!Tx, KeyOf
  <2>4. txs' = [txs EXCEPT ![q.tx] = row]
    BY <2>2, <1>5
  <2>5. txs' \in [DOMAIN txs -> Accruals!Tx] /\ \A i \in DOMAIN txs : KeyOf(txs'[i]) = KeyOf(txs[i])
    BY <2>3, <2>4, <1>3 DEF TxsTyped
  <2>6. QED
    BY <2>5, <1>5, TxsRewritten
<1>6. ASSUME NEW step \in {"share", "turn"}, tasks' = [tasks EXCEPT ![w] = [q EXCEPT !.step = step]],
             TxsTyped' /\ AccrualsTyped' /\ SameKeys, made' \in 0..MaxIds, made <= made',
             UNCHANGED <<plans, units, closed, calls, faults, overlaps>>
      PROVE  AccrualInv'
  <2>1. PICK t : t = [q EXCEPT !.step = step]
    OBVIOUS
  <2>2. t \in Accruals!Task /\ t.step = step /\ t.tx = q.tx /\ t.month = q.month /\ t.fund = q.fund /\ t.ent = q.ent
    BY <2>1 DEF Accruals!Task
  <2>3. Closing(t) /\ \A v \in Slots : Agreeing(t, tasks[v])
    BY <2>2, <1>1, <1>4 DEF Closing, Agreeing, Referring, KeyOf
  <2>4. Closing(t)'
    <3>1. Closing(q)'
      BY <1>1, <1>2, <1>6, ClosingKept
    <3>2. QED
      BY <3>1, <2>2, <1>4 DEF Closing, Referring, KeyOf
  <2>5. QED
    BY <2>1, <2>2, <2>3, <2>4, <1>2, <1>6, AccrualWrites
<1>7. CASE Accruals!DropShares(w)
  <2>1. /\ tasks' = [tasks EXCEPT ![w] = [q EXCEPT !.step = "share"]]
        /\ UNCHANGED <<made, plans, units, accruals, closed, calls, faults, overlaps>>
        /\ txs' = IF q.tx \in DOMAIN txs THEN [txs EXCEPT ![q.tx].shares = Accruals!NoShares] ELSE txs
    BY <1>1, <1>7 DEF Accruals!DropShares, Accruals!Advance, Accruals!Become
  <2>2. Accruals!NoShares \in Accruals!Shares
    BY DEF Accruals!NoShares, Accruals!Shares, AccrualParameters
  <2>3. made' \in 0..MaxIds /\ made <= made'
    BY <2>1, <1>2
  <2>4. TxsTyped' /\ AccrualsTyped' /\ SameKeys
    <3>1. CASE q.tx \in DOMAIN txs
      BY <3>1, <2>1, <2>2, <2>3, <1>5
    <3>2. CASE q.tx \notin DOMAIN txs
      BY <3>2, <2>1 DEF AccrualInv, TxsTyped, AccrualsTyped, SameKeys, KeyOf
    <3>3. QED
      BY <3>1, <3>2
  <2>5. QED
    BY <2>1, <2>3, <2>4, <1>6
<1>8. CASE Accruals!CreditShares(w)
  <2>1. UNCHANGED <<plans, units, accruals, closed, calls, faults, overlaps>>
    BY <1>8 DEF Accruals!CreditShares
  <2>2. CASE q.tx \in DOMAIN txs
    <3>1. /\ tasks' = [tasks EXCEPT ![w] = [q EXCEPT !.step = "turn"]] /\ made < MaxIds /\ made' = made + 1
          /\ txs' = [txs EXCEPT ![q.tx].shares = [signs |-> "credited", set |-> made']]
      BY <2>2, <1>1, <1>8 DEF Accruals!CreditShares, Accruals!Advance, Accruals!Become
    <3>2. made' \in 0..MaxIds /\ made <= made'
      BY <3>1, <1>2 DEF AccrualParameters
    <3>3. [signs |-> "credited", set |-> made'] \in Accruals!Shares
      BY <3>2 DEF Accruals!Shares
    <3>4. TxsTyped' /\ AccrualsTyped' /\ SameKeys
      BY <3>1, <3>2, <3>3, <2>1, <2>2, <1>5
    <3>5. QED
      BY <3>1, <3>2, <3>4, <2>1, <1>6
  <2>3. CASE q.tx \notin DOMAIN txs
    <3>1. tasks' = [tasks EXCEPT ![w] = Accruals!Idle] /\ UNCHANGED <<made, txs>>
      BY <2>3, <1>1, <1>8 DEF Accruals!CreditShares, Accruals!Become
    <3>2. QED
      BY <3>1, <2>1, <1>2, AccrualIdle, AccrualMoves
  <2>4. QED
    BY <2>2, <2>3
<1>9. QED
  BY <1>7, <1>8

\* A transaction is written under its identifier.
LEMMA TxPut ==
  ASSUME AccrualInv, NEW i \in Accruals!Ids, NEW row \in Accruals!Tx, txs' = Accruals!Put(txs, i, row),
         made' \in 0..MaxIds, made <= made', i <= made', UNCHANGED accruals,
         i \in DOMAIN txs => KeyOf(row) = KeyOf(txs[i]),
         i \notin DOMAIN txs /\ i <= made =>
            \A v \in Slots : tasks[v].step \in Referring /\ tasks[v].tx = i => KeyOf(row) = KeyOf(tasks[v])
  PROVE  /\ TxsTyped' /\ AccrualsTyped' /\ SameKeys
         /\ DOMAIN txs' = DOMAIN txs \cup {i} /\ txs'[i] = row
         /\ \A j \in DOMAIN txs \ {i} : txs'[j] = txs[j]
<1>1. txs' = [j \in DOMAIN txs \cup {i} |-> IF j = i THEN row ELSE txs[j]]
  BY DEF Accruals!Put
<1>2. DOMAIN txs' = DOMAIN txs \cup {i} /\ txs'[i] = row /\ \A j \in DOMAIN txs \ {i} : txs'[j] = txs[j]
  BY <1>1
<1>3. TxsTyped'
  <2>1. txs' \in [DOMAIN txs' -> Accruals!Tx]
    BY <1>1 DEF AccrualInv, TxsTyped
  <2>2. \A j \in DOMAIN txs' : j \in Accruals!Ids /\ j <= made'
    <3>1. \A j \in DOMAIN txs : j \in Int /\ j <= made
      BY DEF AccrualInv, TxsTyped, Accruals!Ids
    <3>2. made \in Int /\ made' \in Int
      BY DEF AccrualInv, RestTyped
    <3>3. QED
      BY <3>1, <3>2, <1>2 DEF AccrualInv, TxsTyped
  <2>3. QED
    BY <2>1, <2>2 DEF TxsTyped
<1>4. AccrualsTyped'
  <2> SUFFICES ASSUME NEW k \in DOMAIN accruals
               PROVE  accruals[k] \in DOMAIN txs' /\ k = KeyOf(txs'[accruals[k]])
    BY DEF AccrualInv, AccrualsTyped, KeyOf
  <2>1. accruals[k] \in DOMAIN txs /\ k = KeyOf(txs[accruals[k]])
    BY DEF AccrualInv, AccrualsTyped
  <2>2. CASE accruals[k] = i
    BY <2>1, <2>2, <1>2
  <2>3. CASE accruals[k] # i
    BY <2>1, <2>3, <1>2
  <2>4. QED
    BY <2>2, <2>3
<1>5. SameKeys
  <2> SUFFICES ASSUME NEW j \in DOMAIN txs', j <= made
               PROVE  /\ j \in DOMAIN txs => KeyOf(txs'[j]) = KeyOf(txs[j])
                      /\ j \notin DOMAIN txs =>
                            \A v \in Slots : tasks[v].step \in Referring /\ tasks[v].tx = j
                                                => KeyOf(txs'[j]) = KeyOf(tasks[v])
    BY DEF SameKeys
  <2>1. CASE j = i
    BY <2>1, <1>2
  <2>2. CASE j # i
    BY <2>2, <1>2
  <2>3. QED
    BY <2>1, <2>2
<1>6. QED
  BY <1>2, <1>3, <1>4, <1>5

LEMMA AccrualTurns ==
  ASSUME AccrualParameters, AccrualInv, NEW w \in Slots, Accruals!TurnIntoIncome(w) PROVE AccrualInv'
<1>1. PICK q \in Accruals!Task : q = tasks[w] /\ Closing(q) /\ \A v \in Slots : Agreeing(q, tasks[v])
  BY DEF AccrualInv, RestTyped
<1>2. closed \subseteq Accruals!Months /\ calls \in 0..MaxCalls /\ faults \in 0..MaxFaults
      /\ overlaps \in BOOLEAN /\ made \in 0..MaxIds
  BY DEF AccrualInv, RestTyped
<1>3. q.step = "turn" /\ q.tx \in Accruals!Ids /\ q.tx <= made /\ q.ent \in Accruals!Tx /\ KeyOf(q.ent) = KeyOf(q)
      /\ UNCHANGED <<made, plans, units, accruals, calls, faults, overlaps>>
  BY <1>1 DEF Accruals!TurnIntoIncome, Closing, Referring
<1>4. PICK row : row = IF q.tx \notin DOMAIN txs THEN [q.ent EXCEPT !.shares = Accruals!NoShares] ELSE txs[q.tx]
  OBVIOUS
<1>5. row \in Accruals!Tx /\ KeyOf(row) = KeyOf(q)
  <2>1. CASE q.tx \in DOMAIN txs
    BY <2>1, <1>1, <1>3, <1>4 DEF AccrualInv, TxsTyped, Closing, Referring
  <2>2. CASE q.tx \notin DOMAIN txs
    <3>1. Accruals!NoShares \in Accruals!Shares
      BY DEF Accruals!NoShares, Accruals!Shares, AccrualParameters
    <3>2. QED
      BY <3>1, <2>2, <1>3, <1>4 DEF Accruals!Tx, KeyOf
  <2>3. QED
    BY <2>1, <2>2
<1>6. PICK new : new = [row EXCEPT !.kind = "income", !.status = "paid"]
  OBVIOUS
<1>7. new \in Accruals!Tx /\ KeyOf(new) = KeyOf(q)
  BY <1>5, <1>6 DEF Accruals!Tx, KeyOf
<1>8. CASE txs' = Accruals!Put(txs, q.tx, new) /\ Accruals!NextFund(w)
  <2>1. TxsTyped' /\ AccrualsTyped' /\ SameKeys
    <3>1. q.tx \in DOMAIN txs => KeyOf(new) = KeyOf(txs[q.tx])
      BY <1>1, <1>3, <1>7 DEF Closing, Referring
    <3>2. \A v \in Slots : tasks[v].step \in Referring /\ tasks[v].tx = q.tx => KeyOf(new) = KeyOf(tasks[v])
      BY <1>1, <1>3, <1>7 DEF Agreeing, Referring
    <3>3. made' \in 0..MaxIds /\ made <= made' /\ q.tx <= made'
      BY <1>2, <1>3
    <3>4. QED
      BY <3>1, <3>2, <3>3, <1>3, <1>7, <1>8, TxPut
  <2>2. closed' \subseteq Accruals!Months /\
        \E t \in Accruals!Task :
             tasks' = [tasks EXCEPT ![w] = t] /\ Closing(t)' /\ \A p : Agreeing(t, p)
    BY <1>1, <1>3, <1>8, NextOfFunds
  <2>3. PICK t \in Accruals!Task : tasks' = [tasks EXCEPT ![w] = t] /\ Closing(t)' /\ \A p : Agreeing(t, p)
    BY <2>2
  <2>4. made' \in 0..MaxIds /\ made <= made' /\ calls' \in 0..MaxCalls /\ faults' \in 0..MaxFaults
        /\ overlaps' \in BOOLEAN
    BY <1>2, <1>3
  <2>5. QED
    BY <2>1, <2>2, <2>3, <2>4, <1>3, AccrualWrites
<1>9. CASE tasks' = [tasks EXCEPT ![w] = Accruals!Idle] /\ UNCHANGED <<txs, closed>>
  <2>1. calls' \in 0..MaxCalls /\ faults' \in 0..MaxFaults /\ overlaps' \in BOOLEAN /\ closed' \subseteq Accruals!Months
    BY <1>2, <1>3, <1>9
  <2>2. QED
    BY <2>1, <1>3, <1>9, AccrualIdle, AccrualMoves
<1>10. QED
  BY <1>1, <1>4, <1>6, <1>8, <1>9 DEF Accruals!TurnIntoIncome, Accruals!Become

LEMMA AccrualAccrues ==
  ASSUME AccrualParameters, AccrualInv, NEW w \in Slots,
         Accruals!ResolveUnits(w) \/ Accruals!MakeIncome(w) \/ Accruals!MarkAccrued(w)
  PROVE  AccrualInv'
<1>1. PICK q \in Accruals!Task : q = tasks[w] /\ Closing(q) /\ \A v \in Slots : Agreeing(q, tasks[v])
  BY DEF AccrualInv, RestTyped
<1>2. closed \subseteq Accruals!Months /\ calls \in 0..MaxCalls /\ faults \in 0..MaxFaults
      /\ overlaps \in BOOLEAN /\ made \in 0..MaxIds
  BY DEF AccrualInv, RestTyped
<1>3. q.step \in {"units", "make", "mark"} /\ q.fund \in Funds /\ q.month \in Accruals!Months
  BY <1>1 DEF Accruals!ResolveUnits, Accruals!MakeIncome, Accruals!MarkAccrued, Closing
<1>4. ASSUME Accruals!NextFund(w), UNCHANGED <<made, plans, units, txs, calls, faults, overlaps>>, AccrualsTyped'
      PROVE  AccrualInv'
  <2>1. closed' \subseteq Accruals!Months /\
        \E t \in Accruals!Task :
             tasks' = [tasks EXCEPT ![w] = t] /\ Closing(t)' /\ \A p : Agreeing(t, p)
    BY <1>1, <1>3, <1>4, NextOfFunds
  <2>2. PICK t \in Accruals!Task : tasks' = [tasks EXCEPT ![w] = t] /\ Closing(t)' /\ \A p : Agreeing(t, p)
    BY <2>1
  <2>3. TxsTyped' /\ SameKeys
    BY <1>4 DEF AccrualInv, TxsTyped, SameKeys, KeyOf
  <2>4. made' \in 0..MaxIds /\ made <= made' /\ calls' \in 0..MaxCalls /\ faults' \in 0..MaxFaults
        /\ overlaps' \in BOOLEAN
    BY <1>2, <1>4
  <2>5. QED
    BY <2>1, <2>2, <2>3, <2>4, <1>4, AccrualWrites
<1>5. CASE Accruals!ResolveUnits(w)
  <2>1. UNCHANGED <<made, plans, units, txs, accruals, calls, faults, overlaps>>
    BY <1>5 DEF Accruals!ResolveUnits
  <2>2. CASE Accruals!Due(q.fund, q.month)
    <3>1. PICK cents : cents = plans[q.fund].cents * units[q.fund]
      OBVIOUS
    <3>2. cents \in Nat
      <4>1. PICK a : a = plans[q.fund].cents
        OBVIOUS
      <4>2. PICK b : b = units[q.fund]
        OBVIOUS
      <4>3. a \in Nat
        BY <4>1, <1>3 DEF AccrualInv, RestTyped, Accruals!Fund
      <4>4. b \in Nat
        BY <4>2, <2>2, <1>3 DEF AccrualInv, RestTyped, Accruals!Counts, Accruals!Due
      <4>5. QED
        BY <4>1, <4>2, <4>3, <4>4, <3>1
    <3>3. PICK ent : ent = [fund |-> q.fund, month |-> q.month, cents |-> cents, kind |-> "income",
                            status |-> "paid", shares |-> Accruals!NoShares]
      OBVIOUS
    <3>4. ent \in Accruals!Tx /\ KeyOf(ent) = KeyOf(q)
      BY <3>2, <3>3, <1>3 DEF Accruals!Tx, Accruals!NoShares, Accruals!Shares, KeyOf, AccrualParameters
    <3>5. PICK t : t = [q EXCEPT !.step = "make", !.ent = ent]
      OBVIOUS
    <3>6. t \in Accruals!Task /\ t.step = "make" /\ t.ent = ent /\ t.fund = q.fund /\ t.month = q.month
      BY <3>4, <3>5 DEF Accruals!Task
    <3>7. Closing(t) /\ \A p : Agreeing(t, p)
      BY <3>4, <3>6, <1>3 DEF Closing, Agreeing, Referring, KeyOf
    <3>8. tasks' = [tasks EXCEPT ![w] = t] /\ UNCHANGED closed
      BY <3>1, <3>3, <3>5, <2>2, <1>1, <1>5
         DEF Accruals!ResolveUnits, Accruals!Become, Accruals!Due, Accruals!Unresolved
    <3>9. calls' \in 0..MaxCalls /\ faults' \in 0..MaxFaults /\ overlaps' \in BOOLEAN /\ closed' \subseteq Accruals!Months
      BY <3>8, <2>1, <1>2
    <3>10. QED
      BY <3>6, <3>7, <3>8, <3>9, <2>1, AccrualMoves
  <2>3. CASE tasks' = [tasks EXCEPT ![w] = Accruals!Idle] /\ UNCHANGED closed
    BY <2>1, <2>3, <1>2, AccrualIdle, AccrualMoves
  <2>4. CASE Accruals!NextFund(w)
    <3>1. AccrualsTyped'
      BY <2>1 DEF AccrualInv, AccrualsTyped, KeyOf
    <3>2. QED
      BY <3>1, <2>1, <2>4, <1>4
  <2>5. QED
    BY <2>2, <2>3, <2>4, <1>1, <1>5 DEF Accruals!ResolveUnits, Accruals!Become
<1>6. CASE Accruals!MakeIncome(w)
  <2>1. PICK row : row = [q.ent EXCEPT !.shares = [signs |-> "credited", set |-> made']]
    OBVIOUS
  <2>2. q.step = "make" /\ made < MaxIds /\ made' = made + 1 /\ txs' = Accruals!Put(txs, made', row)
        /\ UNCHANGED <<plans, units, accruals, closed, calls, faults, overlaps>>
        /\ tasks' = [tasks EXCEPT ![w] = [q EXCEPT !.step = "mark", !.tx = made']]
    BY <2>1, <1>1, <1>6 DEF Accruals!MakeIncome, Accruals!Become
  <2>3. made' \in 0..MaxIds /\ made <= made' /\ made' \in Accruals!Ids /\ made' <= made' /\ ~ made' <= made
    BY <2>2, <1>2 DEF Accruals!Ids, AccrualParameters
  <2>4. row \in Accruals!Tx /\ KeyOf(row) = KeyOf(q)
    <3>1. q.ent \in Accruals!Tx /\ KeyOf(q.ent) = KeyOf(q)
      BY <2>2, <1>1 DEF Closing
    <3>2. [signs |-> "credited", set |-> made'] \in Accruals!Shares
      BY <2>3 DEF Accruals!Shares
    <3>3. QED
      BY <3>1, <3>2, <2>1 DEF Accruals!Tx, KeyOf
  <2>5. made' \notin DOMAIN txs
    BY <2>3 DEF AccrualInv, TxsTyped
  <2>6. /\ TxsTyped' /\ AccrualsTyped' /\ SameKeys
        /\ DOMAIN txs' = DOMAIN txs \cup {made'} /\ txs'[made'] = row
    BY <2>2, <2>3, <2>4, <2>5, TxPut
  <2>7. PICK t : t = [q EXCEPT !.step = "mark", !.tx = made']
    OBVIOUS
  <2>8. t \in Accruals!Task /\ t.step = "mark" /\ t.tx = made' /\ t.fund = q.fund /\ t.month = q.month
    BY <2>3, <2>7 DEF Accruals!Task
  <2>9. Closing(t)'
    <3>1. KeyOf(txs'[made']) = KeyOf(q) /\ KeyOf(q) = KeyOf(t)
      BY <2>4, <2>6, <2>8 DEF KeyOf
    <3>2. QED
      BY <3>1, <2>3, <2>8, <1>3 DEF Closing, Referring, KeyOf
  <2>10. ASSUME NEW v \in Slots \ {w} PROVE Agreeing(t, tasks[v])
    <3>1. Closing(tasks[v])
      BY DEF AccrualInv
    <3>2. QED
      BY <3>1, <2>3, <2>8 DEF Closing, Agreeing
  <2>11. calls' \in 0..MaxCalls /\ faults' \in 0..MaxFaults /\ overlaps' \in BOOLEAN /\ closed' \subseteq Accruals!Months
    BY <2>2, <1>2
  <2>12. QED
    BY <2>2, <2>3, <2>6, <2>7, <2>8, <2>9, <2>10, <2>11, AccrualWrites
<1>7. CASE Accruals!MarkAccrued(w)
  <2>1. UNCHANGED <<made, plans, units, txs, calls, faults, overlaps>> /\ Accruals!NextFund(w)
    BY <1>7 DEF Accruals!MarkAccrued
  <2>2. CASE UNCHANGED accruals
    <3>1. AccrualsTyped'
      BY <2>1, <2>2 DEF AccrualInv, AccrualsTyped, KeyOf
    <3>2. QED
      BY <3>1, <2>1, <1>4
  <2>3. CASE q.tx \in DOMAIN txs /\ accruals' = Accruals!Put(accruals, <<q.fund, q.month>>, q.tx)
    <3>1. KeyOf(txs[q.tx]) = <<q.fund, q.month>> /\ <<q.fund, q.month>> \in Accruals!Keys
      BY <2>3, <1>1, <1>3, <1>7 DEF Accruals!MarkAccrued, Closing, Referring, KeyOf, Accruals!Keys
    <3>2. AccrualsTyped'
      <4>1. /\ DOMAIN accruals' = DOMAIN accruals \cup {<<q.fund, q.month>>}
            /\ \A k \in DOMAIN accruals' : accruals'[k] = IF k = <<q.fund, q.month>> THEN q.tx ELSE accruals[k]
        BY <2>3 DEF Accruals!Put
      <4>2. QED
        BY <4>1, <3>1, <2>1, <2>3 DEF AccrualInv, AccrualsTyped, KeyOf
    <3>3. QED
      BY <3>2, <2>1, <1>4
  <2>4. QED
    BY <2>2, <2>3, <1>1, <1>7 DEF Accruals!MarkAccrued
<1>8. QED
  BY <1>5, <1>6, <1>7

LEMMA AccrualFault ==
  ASSUME AccrualParameters, AccrualInv, NEW w \in Slots, Accruals!Fault(w) PROVE AccrualInv'
<1>1. closed \subseteq Accruals!Months /\ calls \in 0..MaxCalls /\ faults' \in 0..MaxFaults
      /\ overlaps \in BOOLEAN /\ UNCHANGED <<made, plans, units, txs, accruals, calls, overlaps>>
  BY DEF AccrualInv, RestTyped, Accruals!Fault, AccrualParameters
<1>2. CASE tasks' = [tasks EXCEPT ![w] = Accruals!Idle] /\ UNCHANGED closed
  BY <1>1, <1>2, AccrualIdle, AccrualMoves
<1>3. CASE tasks[w].step \in {"make", "mark"} /\ Accruals!NextFund(w)
  <2>1. closed' \subseteq Accruals!Months /\
        \E t \in Accruals!Task :
             tasks' = [tasks EXCEPT ![w] = t] /\ Closing(t) /\ \A p : Agreeing(t, p)
    BY <1>3, NextOfFunds
  <2>2. PICK t \in Accruals!Task : tasks' = [tasks EXCEPT ![w] = t] /\ Closing(t) /\ \A p : Agreeing(t, p)
    BY <2>1
  <2>3. QED
    BY <2>1, <2>2, <1>1, AccrualMoves
<1>4. QED
  BY <1>2, <1>3 DEF Accruals!Fault, Accruals!Become

\* A step of no request.
LEMMA AccrualElse ==
  ASSUME AccrualInv, TxsTyped', AccrualsTyped', SameKeys, UNCHANGED <<tasks, units, faults, made>>,
         plans' \in [Funds -> Accruals!Fund], closed' \subseteq Accruals!Months, calls' \in 0..MaxCalls,
         overlaps' \in BOOLEAN
  PROVE  AccrualInv'
<1>1. RestTyped'
  BY DEF AccrualInv, RestTyped
<1>2. made' \in Nat /\ made <= made'
  BY DEF AccrualInv, RestTyped
<1>3. ASSUME NEW v \in Slots PROVE Closing(tasks[v])'
  <2>1. PICK q : q = tasks[v]
    OBVIOUS
  <2>2. Closing(q)' /\ tasks'[v] = q
    BY <2>1, <1>2, ClosingKept
  <2>3. QED
    BY <2>2 DEF Closing, KeyOf
<1>4. \A v, w \in Slots : Agreeing(tasks[v], tasks[w])'
  BY DEF AccrualInv, Agreeing, KeyOf
<1>5. QED
  BY <1>1, <1>3, <1>4 DEF AccrualInv

\* A transaction is settled, cancelled or reopened.
ByHand(i) ==
    Accruals!SettleTransaction(i) \/ Accruals!CancelTransaction(i) \/ Accruals!ReopenTransaction(i)

LEMMA ByHandChanges ==
  ASSUME NEW i, ByHand(i)
  PROVE  \E from, to \in {"paid", "pending", "cancelled"} : Accruals!ChangeStatus(i, from, to)
  BY DEF ByHand, Accruals!SettleTransaction, Accruals!CancelTransaction, Accruals!ReopenTransaction

LEMMA AccrualChanges ==
  ASSUME AccrualParameters, AccrualInv,
         \/ \E i \in Accruals!Ids : Accruals!RemoveTransaction(i) \/ ByHand(i)
         \/ \E f \in Funds, c \in 0..MaxCents : Accruals!UpdateFund(f, c)
  PROVE  AccrualInv'
<1>1. UNCHANGED <<tasks, units, faults, made>> /\ closed' \subseteq Accruals!Months /\ calls' \in 0..MaxCalls
      /\ overlaps' \in BOOLEAN
  <2>1. UNCHANGED <<tasks, units, faults, made>> /\ calls' = calls + 1 /\ calls < MaxCalls
        /\ (closed' \subseteq closed)
    BY ByHandChanges DEF Accruals!RemoveTransaction, Accruals!ChangeStatus, Accruals!Handles, Accruals!UpdateFund
  <2>2. overlaps' = (overlaps \/ \E v \in Slots : tasks[v] # Accruals!Idle)
    BY ByHandChanges DEF Accruals!RemoveTransaction, Accruals!ChangeStatus, Accruals!Handles, Accruals!UpdateFund
  <2>3. overlaps' \in BOOLEAN
    BY <2>2
  <2>4. QED
    BY <2>1, <2>3 DEF AccrualInv, RestTyped, AccrualParameters
<1>2. plans \in [Funds -> Accruals!Fund]
  BY DEF AccrualInv, RestTyped
<1>3. ASSUME NEW i \in Accruals!Ids, Accruals!RemoveTransaction(i) PROVE AccrualInv'
  <2>1. Accruals!RemoveTxs({i}) /\ UNCHANGED plans
    BY <1>3 DEF Accruals!RemoveTransaction, Accruals!Handles
  <2>2. TxsTyped' /\ AccrualsTyped' /\ SameKeys
    BY <2>1, <1>1, TxsRemoved
  <2>3. QED
    BY <2>1, <2>2, <1>1, <1>2, AccrualElse
<1>4. ASSUME NEW i \in Accruals!Ids, ByHand(i) PROVE AccrualInv'
  <2>0. PICK to \in {"paid", "pending", "cancelled"} : \E from : Accruals!ChangeStatus(i, from, to)
    BY <1>4, ByHandChanges
  <2>1. i \in DOMAIN txs /\ txs' = [txs EXCEPT ![i].status = to] /\ UNCHANGED <<plans, accruals>>
    BY <2>0 DEF Accruals!ChangeStatus, Accruals!Handles
  <2>2. txs[i] \in Accruals!Tx
    BY <2>1 DEF AccrualInv, TxsTyped
  <2>3. PICK row : row = [txs[i] EXCEPT !.status = to]
    OBVIOUS
  <2>4. row \in Accruals!Tx /\ KeyOf(row) = KeyOf(txs[i])
    BY <2>2, <2>3 DEF Accruals!Tx, KeyOf
  <2>5. txs' = [txs EXCEPT ![i] = row]
    BY <2>1, <2>3
  <2>6. txs' \in [DOMAIN txs -> Accruals!Tx] /\ \A j \in DOMAIN txs : KeyOf(txs'[j]) = KeyOf(txs[j])
    BY <2>4, <2>5 DEF AccrualInv, TxsTyped
  <2>7. made' \in Nat /\ made <= made'
    BY <1>1 DEF AccrualInv, RestTyped
  <2>8. TxsTyped' /\ AccrualsTyped' /\ SameKeys
    BY <2>1, <2>6, <2>7, TxsRewritten
  <2>9. QED
    BY <2>1, <2>8, <1>1, <1>2, AccrualElse
<1>5. ASSUME NEW f \in Funds, NEW c \in 0..MaxCents, Accruals!UpdateFund(f, c) PROVE AccrualInv'
  <2>1. plans' = [plans EXCEPT ![f].cents = c] /\ UNCHANGED <<txs, accruals>>
    BY <1>5 DEF Accruals!UpdateFund
  <2>2. plans' \in [Funds -> Accruals!Fund]
    BY <2>1, <1>2 DEF Accruals!Fund
  <2>3. TxsTyped' /\ AccrualsTyped' /\ SameKeys
    BY <2>1, <1>1 DEF AccrualInv, TxsTyped, AccrualsTyped, SameKeys, KeyOf
  <2>4. QED
    BY <2>2, <2>3, <1>1, AccrualElse
<1>6. QED
  BY <1>3, <1>4, <1>5

LEMMA NextAccruals ==
  ASSUME AccrualParameters, AccrualInv, [Accruals!Next]_Accruals!accrualVars PROVE AccrualInv'
<1>1. CASE UNCHANGED Accruals!accrualVars
  <2>1. TxsTyped' /\ AccrualsTyped' /\ SameKeys
    BY <1>1 DEF Accruals!accrualVars, AccrualInv, TxsTyped, AccrualsTyped, SameKeys, KeyOf
  <2>2. UNCHANGED <<tasks, units, faults, made>> /\ plans' \in [Funds -> Accruals!Fund]
        /\ closed' \subseteq Accruals!Months /\ calls' \in 0..MaxCalls /\ overlaps' \in BOOLEAN
    BY <1>1 DEF Accruals!accrualVars, AccrualInv, RestTyped
  <2>3. QED
    BY <2>1, <2>2, AccrualElse
<1>2. QED
  BY <1>1, AccrualStarts, AccrualReads, AccrualClears, AccrualNormalises, AccrualTurns, AccrualAccrues,
     AccrualFault, AccrualChanges DEF Accruals!Next, ByHand

LEMMA AccrualInvariant == ASSUME AccrualParameters PROVE Accruals!Spec => []AccrualInv
<1>1. Accruals!Init => AccrualInv
  BY InitAccruals
<1>2. AccrualInv /\ [Accruals!Next]_Accruals!accrualVars => AccrualInv'
  BY NextAccruals
<1>3. QED
  BY <1>1, <1>2, PTL DEF Accruals!Spec

\* AccrualTypeOK: also when closings overlap and are interrupted, an accrual refers to a
\* transaction that is there and is one of its own fund and month.
THEOREM AccrualsTypedAlways == ASSUME AccrualParameters PROVE Accruals!Spec => []Accruals!AccrualTypeOK
<1>1. AccrualInv => Accruals!AccrualTypeOK
  <2> SUFFICES ASSUME AccrualInv PROVE Accruals!AccrualTypeOK
    OBVIOUS
  <2>1. Accruals!Range(txs) \subseteq Accruals!Tx /\ DOMAIN txs \subseteq Accruals!Ids
    BY DEF AccrualInv, TxsTyped, Accruals!Range
  <2>2. QED
    BY <2>1 DEF AccrualInv, AccrualsTyped, RestTyped, KeyOf, Accruals!AccrualTypeOK
<1>2. QED
  BY <1>1, AccrualInvariant, PTL

(***************************************************************************)
(* Accruals, while calls do not overlap.                                   *)
(***************************************************************************)

\* The request that is under way, or none.
Active(q) ==
    \/ q = Accruals!Idle /\ \A v \in Slots : tasks[v] = Accruals!Idle
    \/ \E w \in Slots : tasks[w] = q /\ q.step # "idle" /\ \A v \in Slots \ {w} : tasks[v] = Accruals!Idle

\* Income is credited; an expense of an earlier release has its shares, unless a request
\* that exchanges them is between the two statements, or was interrupted there.
Whole(i, q) ==
    /\ txs[i].shares.set <= made
    /\ \/ txs[i].kind = "income" /\ txs[i].shares.signs = "credited"
       \/ /\ txs[i].kind = "expense"
          /\ txs[i].shares.signs = "none" =>
                txs[i].shares = Accruals!NoShares /\ (faults > 0 \/ (q.step = "share" /\ q.tx = i))

\* A transaction has its accrual, or the request is about to write it.
Marking(i, q) ==
    \/ KeyOf(txs[i]) \in DOMAIN accruals /\ accruals[KeyOf(txs[i])] = i
    \/ q.step = "mark" /\ q.tx = i

Earned(row) ==
    \/ row.kind = "income" /\ row.status = "paid" /\ row.shares.signs = "credited"
    \/ row.kind = "expense" /\ row.status # "pending"
    \/ faults > 0 /\ row.shares = Accruals!NoShares

\* A fund that has been dealt with in a month.
Settled(f, m) ==
    /\ faults = 0 /\ Accruals!Due(f, m) => <<f, m>> \in DOMAIN accruals
    /\ <<f, m>> \in DOMAIN accruals => Earned(txs[accruals[<<f, m>>]])

\* What the request under way relies on: the funds it has been at are settled, and what it
\* read is still so; the shares it wrote are newer than those it holds.
Progress(q) ==
    /\ q.step \in {"read", "drop", "share", "turn"} => KeyOf(q) \in DOMAIN accruals /\ accruals[KeyOf(q)] = q.tx
    /\ q.step = "drop" => q.ent = txs[q.tx] /\ Accruals!IsLegacy(q.ent)
    /\ q.step = "share" => Accruals!IsLegacy(q.ent) /\ txs[q.tx].kind = "expense" /\ q.ent.shares.set <= made
    /\ q.step = "turn" =>
          \/ q.ent = txs[q.tx] /\ q.ent.kind = "income"
          \/ /\ q.ent.kind = "expense" /\ txs[q.tx].kind = "expense" /\ txs[q.tx].shares.signs = "credited"
             /\ q.ent.shares # txs[q.tx].shares
    /\ q.step \in {"drop", "share"} => q.month \notin closed
    /\ q.step = "turn" /\ q.ent.kind = "expense" => q.month \notin closed
    /\ q.step \in {"units", "make", "mark"} => KeyOf(q) \notin DOMAIN accruals
    /\ q.step = "make" => q.ent.kind = "income" /\ q.ent.status = "paid"
    /\ q.step = "mark" =>
          /\ q.tx \in DOMAIN txs /\ txs[q.tx].kind = "income" /\ txs[q.tx].status = "paid"
          /\ txs[q.tx].shares.signs = "credited"
    /\ q.step \in {"paid", "clear"} => \A i \in q.ids \cap DOMAIN txs : txs[i].month = q.month
    /\ q.step \notin {"idle", "list", "paid", "clear"} =>
          \A f \in Funds \ q.left : f # q.fund => Settled(f, q.month)

ClosedSettled == \A m \in closed, f \in Funds : Settled(f, m)

SoloAt(q) ==
    /\ Active(q) /\ Progress(q) /\ ClosedSettled
    /\ \A i \in DOMAIN txs : Whole(i, q)
    /\ faults = 0 => \A i \in DOMAIN txs : Marking(i, q)

SoloInv == ~ overlaps => \E q : SoloAt(q)

LEMMA InitSolo == ASSUME AccrualParameters, Accruals!Init PROVE SoloInv
<1>1. PICK old \in SUBSET Legacy : \E id \in [old -> Accruals!Ids] :
        /\ \A f, g \in old : f # g => id[f] # id[g]
        /\ txs = [i \in Accruals!Range(id) |-> Accruals!LegacyTx(CHOOSE f \in old : id[f] = i)]
        /\ accruals = [k \in old \X {1} |-> id[k[1]]]
  BY DEF Accruals!Init
<1>2. PICK id \in [old -> Accruals!Ids] :
        /\ \A f, g \in old : f # g => id[f] # id[g]
        /\ txs = [i \in Accruals!Range(id) |-> Accruals!LegacyTx(CHOOSE f \in old : id[f] = i)]
        /\ accruals = [k \in old \X {1} |-> id[k[1]]]
  BY <1>1
<1>3. ASSUME NEW i \in DOMAIN txs
      PROVE  /\ txs[i].kind = "expense" /\ txs[i].status = "pending"
             /\ txs[i].shares.signs = "charged" /\ txs[i].shares.set = 0
             /\ KeyOf(txs[i]) \in DOMAIN accruals /\ accruals[KeyOf(txs[i])] = i
  <2>1. PICK f \in old : i = id[f]
    BY <1>2 DEF Accruals!Range
  <2>2. (CHOOSE g \in old : id[g] = i) = f
    BY <2>1, <1>2
  <2>3. PICK row : row = Accruals!LegacyTx(f)
    OBVIOUS
  <2>4. txs[i] = row
    BY <2>2, <2>3, <1>2, <1>3
  <2>5. row.fund = f /\ row.month = 1 /\ row.kind = "expense" /\ row.status = "pending"
        /\ row.shares.signs = "charged" /\ row.shares.set = 0
    BY <2>3 DEF Accruals!LegacyTx
  <2>6. KeyOf(txs[i]) = <<f, 1>>
    BY <2>4, <2>5 DEF KeyOf
  <2>7. <<f, 1>> \in DOMAIN accruals /\ accruals[<<f, 1>>] = i
    BY <2>1, <1>2
  <2>8. QED
    BY <2>4, <2>5, <2>6, <2>7
<1>4. made \in Nat
  BY InitAccruals DEF AccrualInv, RestTyped
<1>5. \A i \in DOMAIN txs : Whole(i, Accruals!Idle) /\ Marking(i, Accruals!Idle)
  BY <1>3, <1>4 DEF Whole, Marking
<1>6. Active(Accruals!Idle) /\ ClosedSettled
  BY DEF Active, ClosedSettled, Accruals!Init
<1>7. Progress(Accruals!Idle)
  BY AccrualIdle DEF Progress
<1>8. QED
  BY <1>5, <1>6, <1>7 DEF SoloInv, SoloAt

\* The request that takes a step is the one under way.
LEMMA SoloSteps ==
  ASSUME SoloInv, ~ overlaps, NEW w \in Slots, NEW q, q = tasks[w], q.step # "idle"
  PROVE  SoloAt(q) /\ \A v \in Slots \ {w} : tasks[v] = Accruals!Idle
<1>1. PICK p : SoloAt(p)
  BY DEF SoloInv
<1>2. tasks[w] # Accruals!Idle
  BY AccrualIdle
<1>3. p = q /\ \A v \in Slots \ {w} : tasks[v] = Accruals!Idle
  BY <1>1, <1>2 DEF SoloAt, Active
<1>4. QED
  BY <1>1, <1>3

LEMMA SoloGoes ==
  ASSUME AccrualInv, NEW w \in Slots, \A v \in Slots \ {w} : tasks[v] = Accruals!Idle,
         NEW t, tasks' = [tasks EXCEPT ![w] = t], t.step # "idle" \/ t = Accruals!Idle,
         Progress(t)', ClosedSettled', \A i \in DOMAIN txs' : Whole(i, t)',
         faults' = 0 => \A i \in DOMAIN txs' : Marking(i, t)'
  PROVE  SoloInv'
<1>1. tasks'[w] = t /\ \A v \in Slots \ {w} : tasks'[v] = Accruals!Idle
  BY DEF AccrualInv, RestTyped
<1>2. Active(t)'
  BY <1>1 DEF Active
<1>3. SoloAt(t)'
  BY <1>2 DEF SoloAt, Progress, Whole, Marking, Settled, Earned, KeyOf
<1>4. QED
  BY <1>3 DEF SoloInv, SoloAt, Active, Progress, Whole, Marking, Settled, Earned, KeyOf

\* A step that writes no table.
LEMMA SoloMoves ==
  ASSUME AccrualInv, SoloInv, ~ overlaps, NEW w \in Slots, NEW q, q = tasks[w], q.step # "idle",
         NEW t, tasks' = [tasks EXCEPT ![w] = t], t.step # "idle", Progress(t),
         q.step \notin {"share", "mark"} \/ (t.step = q.step /\ t.tx = q.tx),
         UNCHANGED <<txs, accruals, made, plans, units, faults, closed>>
  PROVE  SoloInv'
<1>1. SoloAt(q) /\ \A v \in Slots \ {w} : tasks[v] = Accruals!Idle
  BY SoloSteps
<1>2. ASSUME NEW f, NEW m, Settled(f, m) PROVE Settled(f, m)'
  BY <1>2 DEF Settled, Earned, Accruals!Due
<1>3. ClosedSettled'
  BY <1>1, <1>2 DEF SoloAt, ClosedSettled
<1>4. Progress(t)'
  BY <1>2 DEF Progress, KeyOf
<1>5. \A i \in DOMAIN txs' : Whole(i, t)'
  BY <1>1 DEF SoloAt, Whole
<1>6. faults' = 0 => \A i \in DOMAIN txs' : Marking(i, t)'
  BY <1>1 DEF SoloAt, Marking, KeyOf
<1>7. QED
  BY <1>1, <1>3, <1>4, <1>5, <1>6, SoloGoes

\* On to the next fund, when that of the request is settled.
LEMMA SoloNextFund ==
  ASSUME AccrualInv, NEW w \in Slots, NEW q, q = tasks[w], Accruals!NextFund(w),
         \A v \in Slots \ {w} : tasks[v] = Accruals!Idle,
         \A f \in Funds \ q.left : Settled(f, q.month)',
         \A m \in closed, f \in Funds : Settled(f, m)',
         \A i \in DOMAIN txs' : Whole(i, Accruals!Idle)',
         faults' = 0 => \A i \in DOMAIN txs' : Marking(i, Accruals!Idle)'
  PROVE  SoloInv'
<1>1. CASE q.left = {}
  <2>1. tasks' = [tasks EXCEPT ![w] = Accruals!Idle] /\ closed' = closed \cup {q.month}
    BY <1>1 DEF Accruals!NextFund, Accruals!Become
  <2>2. ClosedSettled'
    BY <2>1, <1>1 DEF ClosedSettled, Settled, Earned
  <2>3. Progress(Accruals!Idle)'
    BY AccrualIdle DEF Progress
  <2>4. QED
    BY <2>1, <2>2, <2>3, SoloGoes
<1>2. CASE q.left # {}
  <2>1. PICK f \in q.left : tasks' = [tasks EXCEPT ![w] = [Accruals!Idle EXCEPT !.step = "find", !.month = q.month,
                                           !.fund = f, !.left = q.left \ {f}]]
    BY <1>2 DEF Accruals!NextFund, Accruals!Become
  <2>2. PICK t : t = [Accruals!Idle EXCEPT !.step = "find", !.month = q.month, !.fund = f, !.left = q.left \ {f}]
    OBVIOUS
  <2>3. t.step = "find" /\ t.month = q.month /\ t.fund = f /\ t.left = q.left \ {f}
    BY <2>2 DEF Accruals!Idle
  <2>4. closed' = closed
    BY <1>2 DEF Accruals!NextFund
  <2>5. ClosedSettled'
    BY <2>4 DEF ClosedSettled, Settled, Earned
  <2>6. ASSUME NEW g \in Funds \ t.left, g # t.fund PROVE Settled(g, q.month)'
    BY <2>3, <2>6
  <2>7. Progress(t)'
    BY <2>3, <2>6 DEF Progress, Settled, Earned
  <2>8. \A i \in DOMAIN txs' : Whole(i, t)'
    BY <2>3, AccrualIdle DEF Whole
  <2>9. faults' = 0 => \A i \in DOMAIN txs' : Marking(i, t)'
    BY <2>3, AccrualIdle DEF Marking
  <2>10. QED
    BY <2>1, <2>2, <2>3, <2>5, <2>7, <2>8, <2>9, SoloGoes
<1>3. QED
  BY <1>1, <1>2

LEMMA SoloStarts ==
  ASSUME AccrualInv, SoloInv, ~ overlaps', NEW w \in Slots, NEW m \in Accruals!Months,
         Accruals!CloseMonth(w, m) \/ Accruals!RegenerateMonth(w, m)
  PROVE  SoloInv'
<1>1. PICK t : Accruals!Start(w, t) /\ t.step # "idle" /\ Progress(t) /\ t.step \notin {"share", "mark"}
  <2>1. CASE Accruals!CloseMonth(w, m)
    <3>1. PICK f \in Funds : Accruals!Start(w, [Accruals!Idle EXCEPT !.step = "find", !.month = m, !.fund = f, !.left = Funds \ {f}])
      BY <2>1 DEF Accruals!CloseMonth
    <3>2. PICK t : t = [Accruals!Idle EXCEPT !.step = "find", !.month = m, !.fund = f, !.left = Funds \ {f}]
      OBVIOUS
    <3>3. t.step = "find" /\ t.fund = f /\ t.left = Funds \ {f}
      BY <3>2 DEF Accruals!Idle
    <3>4. Progress(t)
      BY <3>3 DEF Progress
    <3>5. QED
      BY <3>1, <3>2, <3>3, <3>4
  <2>2. CASE Accruals!RegenerateMonth(w, m)
    <3>1. PICK t : t = [Accruals!Idle EXCEPT !.step = "list", !.month = m]
      OBVIOUS
    <3>2. t.step = "list"
      BY <3>1 DEF Accruals!Idle
    <3>3. Progress(t)
      BY <3>2 DEF Progress
    <3>4. QED
      BY <3>1, <3>2, <3>3, <2>2 DEF Accruals!RegenerateMonth
  <2>3. QED
    BY <2>1, <2>2
<1>2. /\ tasks[w] = Accruals!Idle /\ tasks' = [tasks EXCEPT ![w] = t]
      /\ UNCHANGED <<made, plans, units, txs, accruals, closed, faults>>
      /\ ~ overlaps /\ \A v \in Slots \ {w} : tasks[v] = Accruals!Idle
  BY <1>1 DEF Accruals!Start, Accruals!Become
<1>3. PICK p : SoloAt(p)
  BY <1>2 DEF SoloInv
<1>4. p = Accruals!Idle
  BY <1>2, <1>3, AccrualIdle DEF SoloAt, Active
<1>5. ClosedSettled' /\ Progress(t)'
  BY <1>1, <1>2, <1>3 DEF SoloAt, ClosedSettled, Settled, Earned, Progress, KeyOf, Accruals!Due
<1>6. \A i \in DOMAIN txs' : Whole(i, t)'
  BY <1>1, <1>2, <1>3, <1>4, AccrualIdle DEF SoloAt, Whole
<1>7. faults' = 0 => \A i \in DOMAIN txs' : Marking(i, t)'
  BY <1>1, <1>2, <1>3, <1>4, AccrualIdle DEF SoloAt, Marking, KeyOf
<1>8. QED
  BY <1>1, <1>2, <1>5, <1>6, <1>7, SoloGoes

LEMMA SoloReads ==
  ASSUME AccrualParameters, AccrualInv, SoloInv, ~ overlaps, NEW w \in Slots,
         Accruals!ListAccruals(w) \/ Accruals!ReadStatus(w) \/ Accruals!FindAccrual(w) \/ Accruals!ReadAccrued(w)
  PROVE  SoloInv'
<1>1. PICK q \in Accruals!Task : q = tasks[w] /\ Closing(q)
  BY DEF AccrualInv, RestTyped
<1>2. q.step # "idle"
  BY <1>1 DEF Accruals!ListAccruals, Accruals!ReadStatus, Accruals!FindAccrual, Accruals!ReadAccrued
<1>3. SoloAt(q) /\ \A v \in Slots \ {w} : tasks[v] = Accruals!Idle
  BY <1>1, <1>2, SoloSteps
<1>4. Progress(q) /\ ClosedSettled /\ \A i \in DOMAIN txs : Whole(i, q)
  BY <1>3 DEF SoloAt
<1>5. CASE Accruals!ListAccruals(w)
  <2>1. PICK ids : ids = {accruals[k] : k \in {x \in DOMAIN accruals : x[2] = q.month}}
    OBVIOUS
  <2>2. \A i \in ids : i \in DOMAIN txs /\ txs[i].month = q.month
    BY <2>1 DEF AccrualInv, AccrualsTyped, KeyOf
  <2>3. PICK t : t = [q EXCEPT !.step = "paid", !.ids = ids]
    OBVIOUS
  <2>4. t.step = "paid" /\ t.month = q.month /\ t.ids = ids
    BY <2>3 DEF Accruals!Task
  <2>5. Progress(t)
    BY <2>2, <2>4 DEF Progress
  <2>6. tasks' = [tasks EXCEPT ![w] = t] /\ q.step = "list"
        /\ UNCHANGED <<txs, accruals, made, plans, units, faults, closed>>
    BY <2>1, <2>3, <1>1, <1>5 DEF Accruals!ListAccruals, Accruals!Become
  <2>7. QED
    BY <2>4, <2>5, <2>6, <1>1, SoloMoves
<1>6. CASE Accruals!ReadStatus(w)
  <2>1. PICK ids : ids = {i \in q.ids \cap DOMAIN txs : txs[i].status = "pending"}
    OBVIOUS
  <2>2. PICK t : t = [q EXCEPT !.step = "clear", !.ids = ids]
    OBVIOUS
  <2>3. t.step = "clear" /\ t.month = q.month /\ t.ids = ids
    BY <2>2 DEF Accruals!Task
  <2>4. tasks' = [tasks EXCEPT ![w] = t] /\ q.step = "paid"
        /\ UNCHANGED <<txs, accruals, made, plans, units, faults, closed>>
    BY <2>1, <2>2, <1>1, <1>6 DEF Accruals!ReadStatus, Accruals!Become
  <2>5. Progress(t)
    BY <2>1, <2>3, <2>4, <1>4 DEF Progress
  <2>6. QED
    BY <2>3, <2>4, <2>5, <1>1, SoloMoves
<1>7. CASE Accruals!FindAccrual(w)
  <2>1. q.step = "find" /\ UNCHANGED <<txs, accruals, made, plans, units, faults, closed>>
    BY <1>1, <1>7 DEF Accruals!FindAccrual
  <2>2. CASE <<q.fund, q.month>> \in DOMAIN accruals
    <3>1. PICK t : t = [q EXCEPT !.step = "read", !.tx = accruals[<<q.fund, q.month>>]]
      OBVIOUS
    <3>2. t.step = "read" /\ t.tx = accruals[<<q.fund, q.month>>] /\ t.month = q.month /\ t.fund = q.fund
          /\ t.left = q.left
      BY <3>1 DEF Accruals!Task
    <3>3. Progress(t)
      BY <3>2, <2>1, <2>2, <1>4 DEF Progress, KeyOf
    <3>4. tasks' = [tasks EXCEPT ![w] = t]
      BY <3>1, <2>2, <1>1, <1>7 DEF Accruals!FindAccrual, Accruals!Become
    <3>5. QED
      BY <3>2, <3>3, <3>4, <2>1, <1>1, SoloMoves
  <2>3. CASE <<q.fund, q.month>> \notin DOMAIN accruals
    <3>1. PICK t : t = [q EXCEPT !.step = "units"]
      OBVIOUS
    <3>2. t.step = "units" /\ t.month = q.month /\ t.fund = q.fund /\ t.left = q.left
      BY <3>1 DEF Accruals!Task
    <3>3. Progress(t)
      BY <3>2, <2>1, <2>3, <1>4 DEF Progress, KeyOf
    <3>4. tasks' = [tasks EXCEPT ![w] = t]
      BY <3>1, <2>3, <1>1, <1>7 DEF Accruals!FindAccrual, Accruals!Become
    <3>5. QED
      BY <3>2, <3>3, <3>4, <2>1, <1>1, SoloMoves
  <2>4. QED
    BY <2>2, <2>3
<1>8. CASE Accruals!ReadAccrued(w)
  <2>1. q.step = "read" /\ UNCHANGED <<made, plans, units, txs, accruals, faults>>
    BY <1>1, <1>8 DEF Accruals!ReadAccrued
  <2>2. /\ KeyOf(q) \in DOMAIN accruals /\ accruals[KeyOf(q)] = q.tx /\ q.tx \in DOMAIN txs
        /\ txs[q.tx] \in Accruals!Tx /\ Whole(q.tx, q)
    BY <2>1, <1>4 DEF Progress, AccrualInv, AccrualsTyped, TxsTyped
  <2>3. PICK row \in Accruals!Tx : row = txs[q.tx]
    BY <2>2
  <2>4. q.fund \in Funds /\ q.month \in Accruals!Months
    BY <2>1, <1>1 DEF Closing
  <2>5. CASE Accruals!IsLegacy(row)
    <3>1. q.month \notin closed
      <4>1. ~ Earned(row)
        BY <2>5 DEF Earned, Accruals!IsLegacy, Accruals!NoShares
      <4>2. Settled(q.fund, q.month) => Earned(row)
        BY <2>2, <2>3 DEF Settled, KeyOf
      <4>3. QED
        BY <4>1, <4>2, <2>4, <1>4 DEF ClosedSettled
    <3>2. PICK t : t = [q EXCEPT !.step = "drop", !.ent = row]
      OBVIOUS
    <3>3. t.step = "drop" /\ t.tx = q.tx /\ t.month = q.month /\ t.fund = q.fund /\ t.ent = row /\ t.left = q.left
      BY <3>2 DEF Accruals!Task
    <3>4. Progress(t)
      BY <3>1, <3>3, <2>1, <2>2, <2>3, <2>5, <1>4 DEF Progress, KeyOf
    <3>5. tasks' = [tasks EXCEPT ![w] = t] /\ UNCHANGED closed
      BY <3>2, <2>2, <2>3, <2>5, <1>1, <1>8 DEF Accruals!ReadAccrued, Accruals!Become
    <3>6. QED
      BY <3>3, <3>4, <3>5, <2>1, <1>1, SoloMoves
  <2>6. CASE row.kind = "income" /\ row.status # "paid"
    <3>1. PICK t : t = [q EXCEPT !.step = "turn", !.ent = row]
      OBVIOUS
    <3>2. t.step = "turn" /\ t.tx = q.tx /\ t.month = q.month /\ t.fund = q.fund /\ t.ent = row /\ t.left = q.left
      BY <3>1 DEF Accruals!Task
    <3>3. Progress(t)
      BY <3>2, <2>1, <2>2, <2>3, <2>6, <1>4 DEF Progress, KeyOf
    <3>4. ~ Accruals!IsLegacy(row)
      BY <2>6 DEF Accruals!IsLegacy
    <3>5. tasks' = [tasks EXCEPT ![w] = t] /\ UNCHANGED closed
      BY <3>1, <3>4, <2>2, <2>3, <2>6, <1>1, <1>8 DEF Accruals!ReadAccrued, Accruals!Become
    <3>6. QED
      BY <3>2, <3>3, <3>5, <2>1, <1>1, SoloMoves
  <2>7. CASE ~ Accruals!IsLegacy(row) /\ ~ (row.kind = "income" /\ row.status # "paid")
    <3>1. Accruals!NextFund(w)
      BY <2>2, <2>3, <2>7, <1>1, <1>8 DEF Accruals!ReadAccrued
    <3>2. Earned(row)
      BY <2>1, <2>2, <2>3, <2>7 DEF Earned, Whole, Accruals!IsLegacy
    <3>3. Settled(q.fund, q.month)
      BY <3>2, <2>2, <2>3 DEF Settled, KeyOf
    <3>4. \A f \in Funds \ q.left : Settled(f, q.month)
      BY <3>3, <2>1, <1>4 DEF Progress
    <3>5. \A f \in Funds \ q.left : Settled(f, q.month)'
      BY <3>4, <2>1 DEF Settled, Earned, Accruals!Due
    <3>6. \A m \in closed, f \in Funds : Settled(f, m)'
      BY <2>1, <1>4 DEF ClosedSettled, Settled, Earned, Accruals!Due
    <3>7. \A i \in DOMAIN txs' : Whole(i, Accruals!Idle)'
      BY <2>1, <1>4 DEF Whole
    <3>8. faults' = 0 => \A i \in DOMAIN txs' : Marking(i, Accruals!Idle)'
      BY <2>1, <1>3 DEF SoloAt, Marking, KeyOf
    <3>9. QED
      BY <3>1, <3>5, <3>6, <3>7, <3>8, <1>1, <1>3, SoloNextFund
  <2>8. QED
    BY <2>5, <2>6, <2>7
<1>9. QED
  BY <1>5, <1>6, <1>7, <1>8

\* The transactions of a month are removed: other months stay settled.
LEMMA MonthRemoved ==
  ASSUME AccrualInv, NEW q, SoloAt(q), q.step \notin {"share", "mark"}, NEW ids, NEW m, Accruals!RemoveTxs(ids),
         \A i \in ids \cap DOMAIN txs : txs[i].month = m, UNCHANGED <<made, plans, units, faults>>
  PROVE  /\ \A n \in closed \ {m}, f \in Funds : Settled(f, n)'
         /\ \A i \in DOMAIN txs' : \A t : Whole(i, t)'
         /\ faults' = 0 => \A i \in DOMAIN txs' : \A t : Marking(i, t)'
<1>1. /\ txs' = [i \in DOMAIN txs \ ids |-> txs[i]]
      /\ accruals' = [k \in {x \in DOMAIN accruals : accruals[x] \notin ids} |-> accruals[k]]
  BY TxsRemoved
<1>2. \A n \in closed \ {m}, f \in Funds : Settled(f, n)'
  <2> SUFFICES ASSUME NEW n \in closed \ {m}, NEW f \in Funds PROVE Settled(f, n)'
    OBVIOUS
  <2>1. Settled(f, n)
    BY DEF SoloAt, ClosedSettled
  <2>2. <<f, n>> \in DOMAIN accruals => accruals[<<f, n>>] \in DOMAIN txs /\ txs[accruals[<<f, n>>]].month = n
    BY DEF AccrualInv, AccrualsTyped, KeyOf
  <2>3. <<f, n>> \in DOMAIN accruals => accruals[<<f, n>>] \notin ids
    BY <2>2
  <2>4. <<f, n>> \in DOMAIN accruals <=> <<f, n>> \in DOMAIN accruals'
    BY <2>3, <1>1
  <2>5. <<f, n>> \in DOMAIN accruals => txs'[accruals'[<<f, n>>]] = txs[accruals[<<f, n>>]]
    BY <2>2, <2>3, <1>1
  <2>6. QED
    BY <2>1, <2>4, <2>5 DEF Settled, Earned, Accruals!Due
<1>3. \A i \in DOMAIN txs' : \A t : Whole(i, t)'
  BY <1>1 DEF SoloAt, Whole
<1>4. faults' = 0 => \A i \in DOMAIN txs' : \A t : Marking(i, t)'
  BY <1>1 DEF SoloAt, Marking, KeyOf
<1>5. QED
  BY <1>2, <1>3, <1>4

LEMMA SoloClears ==
  ASSUME AccrualInv, SoloInv, ~ overlaps, NEW w \in Slots, Accruals!ClearPending(w) PROVE SoloInv'
<1>1. PICK q \in Accruals!Task : q = tasks[w]
  BY DEF AccrualInv, RestTyped
<1>2. /\ q.step = "clear" /\ Accruals!RemoveTxs(q.ids) /\ closed' = closed \ {q.month}
      /\ UNCHANGED <<made, plans, units, faults>>
  BY <1>1 DEF Accruals!ClearPending
<1>3. SoloAt(q) /\ \A v \in Slots \ {w} : tasks[v] = Accruals!Idle
  BY <1>1, <1>2, SoloSteps
<1>4. PICK f \in Funds : tasks' = [tasks EXCEPT ![w] = [Accruals!Idle EXCEPT !.step = "find", !.month = q.month,
                                                        !.fund = f, !.left = Funds \ {f}]]
  BY <1>1 DEF Accruals!ClearPending, Accruals!Become
<1>5. PICK t : t = [Accruals!Idle EXCEPT !.step = "find", !.month = q.month, !.fund = f, !.left = Funds \ {f}]
  OBVIOUS
<1>6. t.step = "find" /\ t.month = q.month /\ t.fund = f /\ t.left = Funds \ {f}
  BY <1>5 DEF Accruals!Idle
<1>7. \A i \in q.ids \cap DOMAIN txs : txs[i].month = q.month
  BY <1>2, <1>3 DEF SoloAt, Progress
<1>8. /\ \A n \in closed \ {q.month}, g \in Funds : Settled(g, n)'
      /\ \A i \in DOMAIN txs' : \A p : Whole(i, p)'
      /\ faults' = 0 => \A i \in DOMAIN txs' : \A p : Marking(i, p)'
  BY <1>2, <1>3, <1>7, MonthRemoved
<1>9. ClosedSettled'
  BY <1>2, <1>8 DEF ClosedSettled, Settled, Earned
<1>10. Progress(t)'
  BY <1>6 DEF Progress
<1>11. (\A i \in DOMAIN txs' : Whole(i, t)') /\ (faults' = 0 => \A i \in DOMAIN txs' : Marking(i, t)')
  BY <1>8
<1>12. QED
  BY <1>3, <1>4, <1>5, <1>6, <1>9, <1>10, <1>11, SoloGoes

\* One row changes: what is settled elsewhere stays so.
LEMMA OthersSettled ==
  ASSUME AccrualInv, NEW i \in DOMAIN txs, DOMAIN txs' = DOMAIN txs,
         \A j \in DOMAIN txs \ {i} : txs'[j] = txs[j], UNCHANGED <<accruals, plans, units, faults>>,
         NEW f, NEW m, Settled(f, m), <<f, m>> # KeyOf(txs[i]) \/ (Earned(txs[i]) => Earned(txs[i])')
  PROVE  Settled(f, m)'
<1>1. <<f, m>> \in DOMAIN accruals => accruals[<<f, m>>] \in DOMAIN txs /\ KeyOf(txs[accruals[<<f, m>>]]) = <<f, m>>
  BY DEF AccrualInv, AccrualsTyped
<1>2. <<f, m>> \in DOMAIN accruals => Earned(txs[accruals[<<f, m>>]])
  BY DEF Settled
<1>3. ASSUME <<f, m>> \in DOMAIN accruals PROVE Earned(txs[accruals[<<f, m>>]])'
  <2>1. PICK j \in DOMAIN txs : j = accruals[<<f, m>>] /\ j = accruals'[<<f, m>>]
    BY <1>1, <1>3
  <2>2. KeyOf(txs[j]) = <<f, m>> /\ Earned(txs[j])
    BY <2>1, <1>1, <1>2, <1>3
  <2>3. Earned(txs[j])'
    <3>1. CASE j = i
      BY <3>1, <2>2 DEF Earned
    <3>2. CASE j # i
      BY <3>2, <2>2 DEF Earned
    <3>3. QED
      BY <3>1, <3>2
  <2>4. QED
    BY <2>1, <2>3 DEF Earned
<1>4. <<f, m>> \in DOMAIN accruals' <=> <<f, m>> \in DOMAIN accruals
  OBVIOUS
<1>5. faults' = 0 /\ Accruals!Due(f, m)' => <<f, m>> \in DOMAIN accruals
  BY DEF Settled, Accruals!Due
<1>6. QED
  BY <1>3, <1>4, <1>5 DEF Settled, Earned

\* A request exchanges the shares of an expense of an earlier release.
Exchanges(w, q, row, new, t) ==
    /\ t.step \in {"share", "turn"} /\ t.tx = q.tx /\ t.fund = q.fund /\ t.month = q.month
    /\ t.ent = q.ent /\ t.left = q.left /\ tasks' = [tasks EXCEPT ![w] = t]
    /\ made' \in Nat /\ made <= made' /\ txs' = [txs EXCEPT ![q.tx] = new]
    /\ new.fund = row.fund /\ new.month = row.month /\ new.kind = "expense"
    /\ new.shares.set \in Nat /\ new.shares.set <= made'
    /\ \/ t.step = "share" /\ new.shares = Accruals!NoShares /\ Accruals!IsLegacy(q.ent) /\ q.ent.shares.set <= made'
       \/ t.step = "turn" /\ new.shares.signs = "credited" /\ q.ent.kind = "expense" /\ q.ent.shares # new.shares

LEMMA SoloNormalises ==
  ASSUME AccrualParameters, AccrualInv, SoloInv, ~ overlaps, NEW w \in Slots,
         Accruals!DropShares(w) \/ Accruals!CreditShares(w)
  PROVE  SoloInv'
<1>1. PICK q \in Accruals!Task : q = tasks[w] /\ Closing(q)
  BY DEF AccrualInv, RestTyped
<1>2. q.step \in {"drop", "share"} /\ UNCHANGED <<plans, units, accruals, closed, faults>>
  BY <1>1 DEF Accruals!DropShares, Accruals!CreditShares
<1>3. SoloAt(q) /\ \A v \in Slots \ {w} : tasks[v] = Accruals!Idle
  BY <1>1, <1>2, SoloSteps
<1>4. Progress(q) /\ ClosedSettled /\ \A i \in DOMAIN txs : Whole(i, q)
  BY <1>3 DEF SoloAt
<1>5. /\ q.tx \in DOMAIN txs /\ KeyOf(txs[q.tx]) = KeyOf(q) /\ q.month \notin closed /\ txs[q.tx] \in Accruals!Tx
      /\ KeyOf(q) \in DOMAIN accruals /\ accruals[KeyOf(q)] = q.tx /\ made \in Nat
  BY <1>2, <1>4 DEF Progress, AccrualInv, AccrualsTyped, TxsTyped, RestTyped
<1>6. PICK row \in Accruals!Tx : row = txs[q.tx] /\ row.kind = "expense"
        /\ row.shares.set <= made /\ row.shares.set \in Nat
  <2>1. txs[q.tx].kind = "expense"
    BY <1>2, <1>4 DEF Progress, Accruals!IsLegacy
  <2>2. txs[q.tx].shares.set <= made
    BY <1>4, <1>5 DEF Whole
  <2>3. txs[q.tx].shares.set \in Nat
    BY <1>5 DEF Accruals!Tx, Accruals!Shares
  <2>4. QED
    BY <2>1, <2>2, <2>3, <1>5
<1>7. ASSUME NEW new, NEW t, Exchanges(w, q, row, new, t)
      PROVE  SoloInv'
  <2>1. /\ DOMAIN txs' = DOMAIN txs /\ txs'[q.tx] = new
        /\ \A j \in DOMAIN txs \ {q.tx} : txs'[j] = txs[j]
    BY <1>5, <1>7 DEF Exchanges
  <2>2. ClosedSettled'
    <3> SUFFICES ASSUME NEW m \in closed, NEW f \in Funds PROVE Settled(f, m)'
      BY <1>2 DEF ClosedSettled, Settled, Earned
    <3>1. Settled(f, m)
      BY <1>4 DEF ClosedSettled
    <3>2. <<f, m>> # KeyOf(txs[q.tx])
      BY <1>5 DEF KeyOf
    <3>3. QED
      BY <3>1, <3>2, <2>1, <1>2, <1>5, OthersSettled
  <2>3. ASSUME NEW f \in Funds \ q.left, f # q.fund PROVE Settled(f, q.month)'
    <3>1. Settled(f, q.month)
      BY <2>3, <1>2, <1>4 DEF Progress
    <3>2. <<f, q.month>> # KeyOf(txs[q.tx])
      BY <2>3, <1>5 DEF KeyOf
    <3>3. QED
      BY <3>1, <3>2, <2>1, <1>2, <1>5, OthersSettled
  <2>4. ASSUME NEW f \in Funds \ t.left, f # t.fund PROVE Settled(f, t.month)'
    <3>1. Settled(f, q.month)'
      BY <2>3, <2>4, <1>7 DEF Exchanges
    <3>2. QED
      BY <3>1, <1>7 DEF Exchanges, Settled, Earned
  <2>5. Progress(t)'
    <3>1. KeyOf(t) \in DOMAIN accruals' /\ accruals'[KeyOf(t)] = t.tx /\ t.month \notin closed'
      BY <1>2, <1>5, <1>7 DEF Exchanges, KeyOf
    <3>2. t.step = "share" => Accruals!IsLegacy(t.ent) /\ txs'[t.tx].kind = "expense" /\ t.ent.shares.set <= made'
      BY <2>1, <1>7 DEF Exchanges
    <3>3. t.step = "turn" =>
            /\ t.ent.kind = "expense" /\ txs'[t.tx].kind = "expense" /\ txs'[t.tx].shares.signs = "credited"
            /\ t.ent.shares # txs'[t.tx].shares
      BY <2>1, <1>7 DEF Exchanges
    <3>4. QED
      BY <3>1, <3>2, <3>3, <2>4, <1>7 DEF Exchanges, Progress, KeyOf
  <2>6. \A i \in DOMAIN txs' : Whole(i, t)'
    <3> SUFFICES ASSUME NEW i \in DOMAIN txs PROVE Whole(i, t)'
      BY <2>1
    <3>1. CASE i = q.tx
      BY <3>1, <2>1, <1>7 DEF Exchanges, Whole
    <3>2. CASE i # q.tx
      <4>1. txs'[i] = txs[i] /\ Whole(i, q)
        BY <3>2, <2>1, <1>4
      <4>2. txs[i].shares.set <= made'
        <5>1. txs[i].shares.set \in Nat
          BY DEF AccrualInv, TxsTyped, Accruals!Tx, Accruals!Shares
        <5>2. QED
          BY <5>1, <4>1, <1>5, <1>7 DEF Exchanges, Whole
      <4>3. QED
        BY <4>1, <4>2, <3>2, <1>2 DEF Whole
    <3>3. QED
      BY <3>1, <3>2
  <2>7. faults' = 0 => \A i \in DOMAIN txs' : Marking(i, t)'
    <3> SUFFICES ASSUME faults' = 0, NEW i \in DOMAIN txs PROVE Marking(i, t)'
      BY <2>1
    <3>1. KeyOf(txs'[i]) = KeyOf(txs[i])
      BY <2>1, <1>6, <1>7 DEF Exchanges, KeyOf
    <3>2. Marking(i, q)
      BY <1>2, <1>3 DEF SoloAt
    <3>3. QED
      BY <3>1, <3>2, <1>2 DEF Marking
  <2>8. QED
    BY <2>2, <2>5, <2>6, <2>7, <1>3, <1>7, SoloGoes DEF Exchanges
<1>8. CASE Accruals!DropShares(w)
  <2>1. q.step = "drop" /\ UNCHANGED made /\ tasks' = [tasks EXCEPT ![w] = [q EXCEPT !.step = "share"]]
        /\ txs' = [txs EXCEPT ![q.tx].shares = Accruals!NoShares]
    BY <1>1, <1>5, <1>8 DEF Accruals!DropShares, Accruals!Advance, Accruals!Become
  <2>2. PICK t : t = [q EXCEPT !.step = "share"]
    OBVIOUS
  <2>3. t.step = "share" /\ t.tx = q.tx /\ t.fund = q.fund /\ t.month = q.month /\ t.ent = q.ent /\ t.left = q.left
    BY <2>2 DEF Accruals!Task
  <2>4. PICK new : new = [row EXCEPT !.shares = Accruals!NoShares]
    OBVIOUS
  <2>5. new.fund = row.fund /\ new.month = row.month /\ new.kind = "expense"
        /\ new.shares = Accruals!NoShares
    BY <2>4, <1>6 DEF Accruals!Tx
  <2>6. new.shares.set \in Nat /\ new.shares.set <= made'
    BY <2>1, <2>5, <1>5 DEF Accruals!NoShares
  <2>7. Accruals!IsLegacy(q.ent) /\ q.ent.shares.set <= made'
    BY <2>1, <1>4, <1>6 DEF Progress
  <2>8. txs' = [txs EXCEPT ![q.tx] = new]
    BY <2>1, <2>4, <1>6
  <2>9. made' \in Nat /\ made <= made'
    BY <2>1, <1>5
  <2>10. t.step \in {"share", "turn"} /\ tasks' = [tasks EXCEPT ![w] = t]
    BY <2>1, <2>2, <2>3
  <2>11. \/ t.step = "share" /\ new.shares = Accruals!NoShares /\ Accruals!IsLegacy(q.ent) /\ q.ent.shares.set <= made'
         \/ t.step = "turn" /\ new.shares.signs = "credited" /\ q.ent.kind = "expense" /\ q.ent.shares # new.shares
    BY <2>3, <2>5, <2>7
  <2>12. QED
    BY <2>3, <2>5, <2>6, <2>8, <2>9, <2>10, <2>11, <1>7 DEF Exchanges
<1>9. CASE Accruals!CreditShares(w)
  <2>1. /\ q.step = "share" /\ made' = made + 1 /\ tasks' = [tasks EXCEPT ![w] = [q EXCEPT !.step = "turn"]]
        /\ txs' = [txs EXCEPT ![q.tx].shares = [signs |-> "credited", set |-> made']]
    BY <1>1, <1>5, <1>9 DEF Accruals!CreditShares, Accruals!Advance, Accruals!Become
  <2>2. PICK t : t = [q EXCEPT !.step = "turn"]
    OBVIOUS
  <2>3. t.step = "turn" /\ t.tx = q.tx /\ t.fund = q.fund /\ t.month = q.month /\ t.ent = q.ent /\ t.left = q.left
    BY <2>2 DEF Accruals!Task
  <2>4. PICK shares : shares = [signs |-> "credited", set |-> made']
    OBVIOUS
  <2>5. PICK new : new = [row EXCEPT !.shares = shares]
    OBVIOUS
  <2>6. new.fund = row.fund /\ new.month = row.month /\ new.kind = "expense"
        /\ new.shares = shares /\ shares.signs = "credited" /\ shares.set = made'
    BY <2>4, <2>5, <1>6 DEF Accruals!Tx
  <2>7. made' \in Nat /\ made <= made' /\ new.shares.set \in Nat /\ new.shares.set <= made'
    BY <2>1, <2>6, <1>5
  <2>8. q.ent.kind = "expense" /\ q.ent.shares # new.shares
    <3>1. q.ent \in Accruals!Tx /\ Accruals!IsLegacy(q.ent) /\ q.ent.shares.set <= made
      BY <2>1, <1>1, <1>4 DEF Progress, Closing
    <3>2. q.ent.shares.set \in Nat
      BY <3>1 DEF Accruals!Tx, Accruals!Shares
    <3>3. q.ent.shares.set # made'
      BY <3>1, <3>2, <2>1, <1>5
    <3>4. QED
      BY <3>1, <3>3, <2>6 DEF Accruals!IsLegacy
  <2>9. txs' = [txs EXCEPT ![q.tx] = new]
    BY <2>1, <2>4, <2>5, <1>6
  <2>10. t.step \in {"share", "turn"} /\ tasks' = [tasks EXCEPT ![w] = t]
    BY <2>1, <2>2, <2>3
  <2>11. \/ t.step = "share" /\ new.shares = Accruals!NoShares /\ Accruals!IsLegacy(q.ent) /\ q.ent.shares.set <= made'
         \/ t.step = "turn" /\ new.shares.signs = "credited" /\ q.ent.kind = "expense" /\ q.ent.shares # new.shares
    BY <2>3, <2>6, <2>8
  <2>12. QED
    BY <2>3, <2>6, <2>7, <2>9, <2>10, <2>11, <1>7 DEF Exchanges
<1>10. QED
  BY <1>8, <1>9

LEMMA SoloTurns ==
  ASSUME AccrualParameters, AccrualInv, SoloInv, ~ overlaps, NEW w \in Slots, Accruals!TurnIntoIncome(w)
  PROVE  SoloInv'
<1>1. PICK q \in Accruals!Task : q = tasks[w] /\ Closing(q)
  BY DEF AccrualInv, RestTyped
<1>2. q.step = "turn" /\ UNCHANGED <<made, plans, units, accruals, faults>>
  BY <1>1 DEF Accruals!TurnIntoIncome
<1>3. SoloAt(q) /\ \A v \in Slots \ {w} : tasks[v] = Accruals!Idle
  BY <1>1, <1>2, SoloSteps
<1>4. Progress(q) /\ ClosedSettled /\ \A i \in DOMAIN txs : Whole(i, q)
  BY <1>3 DEF SoloAt
<1>5. /\ q.tx \in DOMAIN txs /\ KeyOf(txs[q.tx]) = KeyOf(q)
      /\ KeyOf(q) \in DOMAIN accruals /\ accruals[KeyOf(q)] = q.tx
  BY <1>2, <1>4 DEF Progress, AccrualInv, AccrualsTyped
<1>6. PICK row \in Accruals!Tx : row = txs[q.tx]
  BY <1>5 DEF AccrualInv, TxsTyped
<1>7. CASE q.ent = row /\ row.kind = "income"
  <2>1. PICK new : new = [row EXCEPT !.kind = "income", !.status = "paid"]
    OBVIOUS
  <2>2. new.fund = row.fund /\ new.month = row.month /\ new.kind = "income" /\ new.status = "paid"
        /\ new.shares = row.shares
    BY <2>1 DEF Accruals!Tx
  <2>3. txs' = Accruals!Put(txs, q.tx, new) /\ Accruals!NextFund(w)
    BY <2>1, <1>1, <1>5, <1>6, <1>7 DEF Accruals!TurnIntoIncome
  <2>4. /\ DOMAIN txs' = DOMAIN txs /\ txs'[q.tx] = new
        /\ \A j \in DOMAIN txs \ {q.tx} : txs'[j] = txs[j]
    BY <2>3, <1>5 DEF Accruals!Put
  <2>5. row.shares.signs = "credited" /\ row.shares.set <= made
    BY <1>4, <1>5, <1>6, <1>7 DEF Whole
  <2>6. Earned(txs[q.tx])'
    BY <2>2, <2>4, <2>5 DEF Earned
  <2>7. ASSUME NEW f, NEW m, Settled(f, m) PROVE Settled(f, m)'
    BY <2>4, <2>6, <2>7, <1>2, <1>5, OthersSettled
  <2>8. Settled(q.fund, q.month)'
    <3>1. <<q.fund, q.month>> \in DOMAIN accruals' /\ accruals'[<<q.fund, q.month>>] = q.tx
      BY <1>2, <1>5 DEF KeyOf
    <3>2. QED
      BY <3>1, <2>6 DEF Settled, Earned
  <2>9. \A f \in Funds \ q.left : Settled(f, q.month)'
    <3> SUFFICES ASSUME NEW f \in Funds \ q.left PROVE Settled(f, q.month)'
      OBVIOUS
    <3>1. CASE f = q.fund
      BY <3>1, <2>8 DEF Settled, Earned
    <3>2. CASE f # q.fund
      BY <3>2, <2>7, <1>2, <1>4 DEF Progress
    <3>3. QED
      BY <3>1, <3>2
  <2>10. \A m \in closed, f \in Funds : Settled(f, m)'
    BY <2>7, <1>4 DEF ClosedSettled
  <2>11. \A i \in DOMAIN txs' : Whole(i, Accruals!Idle)'
    <3> SUFFICES ASSUME NEW i \in DOMAIN txs PROVE Whole(i, Accruals!Idle)'
      BY <2>4
    <3>1. CASE i = q.tx
      BY <3>1, <2>2, <2>4, <2>5, <1>2 DEF Whole
    <3>2. CASE i # q.tx
      BY <3>2, <2>4, <1>2, <1>4 DEF Whole
    <3>3. QED
      BY <3>1, <3>2
  <2>12. faults' = 0 => \A i \in DOMAIN txs' : Marking(i, Accruals!Idle)'
    <3> SUFFICES ASSUME faults' = 0, NEW i \in DOMAIN txs PROVE Marking(i, Accruals!Idle)'
      BY <2>4
    <3>1. KeyOf(txs'[i]) = KeyOf(txs[i])
      BY <2>2, <2>4, <1>6 DEF KeyOf
    <3>2. Marking(i, q)
      BY <1>2, <1>3 DEF SoloAt
    <3>3. QED
      BY <3>1, <3>2, <1>2 DEF Marking
  <2>13. QED
    BY <2>3, <2>9, <2>10, <2>11, <2>12, <1>1, <1>3, SoloNextFund
<1>8. CASE row.kind = "expense" /\ row.shares.signs = "credited" /\ q.ent.shares # row.shares
  <2>1. row.shares # Accruals!NoShares
    BY <1>8 DEF Accruals!NoShares
  <2>2. tasks' = [tasks EXCEPT ![w] = Accruals!Idle] /\ UNCHANGED <<txs, closed>>
    BY <2>1, <1>1, <1>5, <1>6, <1>8 DEF Accruals!TurnIntoIncome, Accruals!Become
  <2>3. ClosedSettled'
    BY <2>2, <1>2, <1>4 DEF ClosedSettled, Settled, Earned, Accruals!Due
  <2>4. Progress(Accruals!Idle)'
    BY AccrualIdle DEF Progress
  <2>5. \A i \in DOMAIN txs' : Whole(i, Accruals!Idle)'
    BY <2>2, <1>2, <1>4 DEF Whole
  <2>6. faults' = 0 => \A i \in DOMAIN txs' : Marking(i, Accruals!Idle)'
    BY <2>2, <1>2, <1>3 DEF SoloAt, Marking, KeyOf
  <2>7. QED
    BY <2>2, <2>3, <2>4, <2>5, <2>6, <1>3, SoloGoes
<1>9. QED
  BY <1>2, <1>4, <1>6, <1>7, <1>8 DEF Progress

\* Accruals come, and transactions that none refers to: what is settled stays so.
LEMMA SettledStays ==
  ASSUME AccrualInv, DOMAIN accruals \subseteq DOMAIN accruals',
         \A k \in DOMAIN accruals : accruals'[k] = accruals[k],
         \A i \in DOMAIN txs : txs'[i] = txs[i], UNCHANGED <<plans, units>>,
         faults' = faults \/ faults' > 0,
         NEW f, NEW m, Settled(f, m), <<f, m>> \in DOMAIN accruals' => <<f, m>> \in DOMAIN accruals
  PROVE  Settled(f, m)'
<1>1. <<f, m>> \in DOMAIN accruals => accruals[<<f, m>>] \in DOMAIN txs
  BY DEF AccrualInv, AccrualsTyped
<1>2. faults \in Nat
  BY DEF AccrualInv, RestTyped
<1>3. ASSUME <<f, m>> \in DOMAIN accruals PROVE Earned(txs[accruals[<<f, m>>]])'
  <2>1. PICK j \in DOMAIN txs : j = accruals[<<f, m>>] /\ j = accruals'[<<f, m>>]
    BY <1>1, <1>3
  <2>2. Earned(txs[j])
    BY <2>1, <1>3 DEF Settled
  <2>3. Earned(txs[j])'
    BY <2>2, <1>2 DEF Earned
  <2>4. QED
    BY <2>1, <2>3 DEF Earned
<1>4. faults' = 0 /\ Accruals!Due(f, m)' => <<f, m>> \in DOMAIN accruals
  <2>1. faults' = 0 => faults = 0
    BY <1>2
  <2>2. Accruals!Due(f, m)' = Accruals!Due(f, m)
    BY DEF Accruals!Due
  <2>3. QED
    BY <2>1, <2>2 DEF Settled
<1>5. QED
  BY <1>3, <1>4 DEF Settled, Earned

LEMMA SoloAccrues ==
  ASSUME AccrualParameters, AccrualInv, SoloInv, ~ overlaps, NEW w \in Slots,
         Accruals!ResolveUnits(w) \/ Accruals!MakeIncome(w) \/ Accruals!MarkAccrued(w)
  PROVE  SoloInv'
<1>1. PICK q \in Accruals!Task : q = tasks[w] /\ Closing(q)
  BY DEF AccrualInv, RestTyped
<1>2. q.step \in {"units", "make", "mark"} /\ UNCHANGED <<plans, units, faults>>
  BY <1>1 DEF Accruals!ResolveUnits, Accruals!MakeIncome, Accruals!MarkAccrued
<1>3. SoloAt(q) /\ \A v \in Slots \ {w} : tasks[v] = Accruals!Idle
  BY <1>1, <1>2, SoloSteps
<1>4. Progress(q) /\ ClosedSettled /\ \A i \in DOMAIN txs : Whole(i, q)
  BY <1>3 DEF SoloAt
<1>5. KeyOf(q) \notin DOMAIN accruals /\ \A f \in Funds \ q.left : f # q.fund => Settled(f, q.month)
  BY <1>2, <1>4 DEF Progress
<1>6. CASE Accruals!ResolveUnits(w)
  <2>1. q.step = "units" /\ UNCHANGED <<made, txs, accruals>>
    BY <1>1, <1>6 DEF Accruals!ResolveUnits
  <2>2. CASE Accruals!Due(q.fund, q.month)
    <3>1. PICK ent : ent = [fund |-> q.fund, month |-> q.month, cents |-> plans[q.fund].cents * units[q.fund],
                            kind |-> "income", status |-> "paid", shares |-> Accruals!NoShares]
      OBVIOUS
    <3>2. PICK t : t = [q EXCEPT !.step = "make", !.ent = ent]
      OBVIOUS
    <3>3. t.step = "make" /\ t.ent = ent /\ t.fund = q.fund /\ t.month = q.month /\ t.left = q.left
      BY <3>2 DEF Accruals!Task
    <3>4. ent.kind = "income" /\ ent.status = "paid"
      BY <3>1
    <3>5. Progress(t)
      BY <3>3, <3>4, <1>5 DEF Progress, KeyOf
    <3>6. tasks' = [tasks EXCEPT ![w] = t] /\ UNCHANGED closed
      BY <3>1, <3>2, <2>2, <1>1, <1>6
         DEF Accruals!ResolveUnits, Accruals!Become, Accruals!Due, Accruals!Unresolved
    <3>7. QED
      BY <3>3, <3>5, <3>6, <2>1, <1>1, <1>2, SoloMoves
  <2>3. CASE ~ Accruals!Due(q.fund, q.month) /\ ~ Accruals!Unresolved(q.fund)
    <3>1. Accruals!NextFund(w)
      BY <2>3, <1>1, <1>6 DEF Accruals!ResolveUnits
    <3>2. Settled(q.fund, q.month)
      BY <2>3, <1>5 DEF Settled, KeyOf
    <3>3. \A f \in Funds \ q.left : Settled(f, q.month)
      BY <3>2, <1>5
    <3>4. \A f \in Funds \ q.left : Settled(f, q.month)'
      BY <3>3, <2>1, <1>2 DEF Settled, Earned, Accruals!Due
    <3>5. \A m \in closed, f \in Funds : Settled(f, m)'
      BY <2>1, <1>2, <1>4 DEF ClosedSettled, Settled, Earned, Accruals!Due
    <3>6. \A i \in DOMAIN txs' : Whole(i, Accruals!Idle)'
      BY <2>1, <1>2, <1>4 DEF Whole
    <3>7. faults' = 0 => \A i \in DOMAIN txs' : Marking(i, Accruals!Idle)'
      BY <2>1, <1>2, <1>3 DEF SoloAt, Marking, KeyOf
    <3>8. QED
      BY <3>1, <3>4, <3>5, <3>6, <3>7, <1>1, <1>3, SoloNextFund
  <2>4. CASE ~ Accruals!Due(q.fund, q.month) /\ Accruals!Unresolved(q.fund)
    <3>1. tasks' = [tasks EXCEPT ![w] = Accruals!Idle] /\ UNCHANGED closed
      BY <2>4, <1>1, <1>6 DEF Accruals!ResolveUnits, Accruals!Become
    <3>2. ClosedSettled'
      BY <3>1, <2>1, <1>2, <1>4 DEF ClosedSettled, Settled, Earned, Accruals!Due
    <3>3. Progress(Accruals!Idle)'
      BY AccrualIdle DEF Progress
    <3>4. \A i \in DOMAIN txs' : Whole(i, Accruals!Idle)'
      BY <2>1, <1>2, <1>4 DEF Whole
    <3>5. faults' = 0 => \A i \in DOMAIN txs' : Marking(i, Accruals!Idle)'
      BY <2>1, <1>2, <1>3 DEF SoloAt, Marking, KeyOf
    <3>6. QED
      BY <3>1, <3>2, <3>3, <3>4, <3>5, <1>3, SoloGoes
  <2>5. QED
    BY <2>2, <2>3, <2>4
<1>7. CASE Accruals!MakeIncome(w)
  <2>1. PICK shares : shares = [signs |-> "credited", set |-> made']
    OBVIOUS
  <2>2. PICK row : row = [q.ent EXCEPT !.shares = shares]
    OBVIOUS
  <2>3. q.step = "make" /\ made' = made + 1 /\ txs' = Accruals!Put(txs, made', row) /\ UNCHANGED <<accruals, closed>>
        /\ tasks' = [tasks EXCEPT ![w] = [q EXCEPT !.step = "mark", !.tx = made']]
    BY <2>1, <2>2, <1>1, <1>7 DEF Accruals!MakeIncome, Accruals!Become
  <2>4. made \in Nat /\ \A i \in DOMAIN txs : i <= made /\ i # made' /\ txs[i].shares.set \in Nat
    <3>1. made \in Nat /\ \A i \in DOMAIN txs : i \in Nat /\ i <= made
      BY DEF AccrualInv, TxsTyped, RestTyped, Accruals!Ids
    <3>2. \A i \in DOMAIN txs : txs[i].shares.set \in Nat
      BY DEF AccrualInv, TxsTyped, Accruals!Tx, Accruals!Shares
    <3>3. QED
      BY <3>1, <3>2, <2>3
  <2>5. /\ DOMAIN txs' = DOMAIN txs \cup {made'} /\ txs'[made'] = row
        /\ \A i \in DOMAIN txs : txs'[i] = txs[i]
    BY <2>3, <2>4 DEF Accruals!Put
  <2>6. q.ent \in Accruals!Tx /\ q.ent.kind = "income" /\ q.ent.status = "paid"
    BY <2>3, <1>1, <1>4 DEF Progress, Closing
  <2>7. row.kind = "income" /\ row.status = "paid" /\ row.shares = shares
    BY <2>2, <2>6 DEF Accruals!Tx
  <2>8. PICK t : t = [q EXCEPT !.step = "mark", !.tx = made']
    OBVIOUS
  <2>9. t.step = "mark" /\ t.tx = made' /\ t.fund = q.fund /\ t.month = q.month /\ t.left = q.left
    BY <2>8 DEF Accruals!Task
  <2>10. ASSUME NEW f, NEW m, Settled(f, m) PROVE Settled(f, m)'
    BY <2>3, <2>5, <2>10, <1>2, SettledStays
  <2>11. ClosedSettled'
    BY <2>3, <2>10, <1>4 DEF ClosedSettled, Settled, Earned
  <2>12. ASSUME NEW f \in Funds \ t.left, f # t.fund PROVE Settled(f, t.month)'
    <3>1. Settled(f, q.month)'
      BY <2>9, <2>10, <2>12, <1>5
    <3>2. QED
      BY <3>1, <2>9 DEF Settled, Earned
  <2>13. Progress(t)'
    <3>1. KeyOf(t) \notin DOMAIN accruals'
      BY <2>3, <2>9, <1>5 DEF KeyOf
    <3>2. t.tx \in DOMAIN txs' /\ txs'[t.tx].kind = "income" /\ txs'[t.tx].status = "paid"
          /\ txs'[t.tx].shares.signs = "credited"
      BY <2>1, <2>5, <2>7, <2>9
    <3>3. QED
      BY <3>1, <3>2, <2>9, <2>12 DEF Progress, KeyOf
  <2>14. \A i \in DOMAIN txs' : Whole(i, t)'
    <3> SUFFICES ASSUME NEW i \in DOMAIN txs' PROVE Whole(i, t)'
      OBVIOUS
    <3>1. CASE i = made'
      BY <3>1, <2>1, <2>3, <2>4, <2>5, <2>7 DEF Whole
    <3>2. CASE i # made'
      <4>1. i \in DOMAIN txs /\ txs'[i] = txs[i] /\ Whole(i, q)
        BY <3>2, <2>5, <1>4
      <4>2. txs[i].shares.set <= made'
        BY <4>1, <2>3, <2>4 DEF Whole
      <4>3. QED
        BY <4>1, <4>2, <2>3, <1>2 DEF Whole
    <3>3. QED
      BY <3>1, <3>2
  <2>15. faults' = 0 => \A i \in DOMAIN txs' : Marking(i, t)'
    <3> SUFFICES ASSUME faults' = 0, NEW i \in DOMAIN txs' PROVE Marking(i, t)'
      OBVIOUS
    <3>1. CASE i = made'
      BY <3>1, <2>9 DEF Marking
    <3>2. CASE i # made'
      <4>1. i \in DOMAIN txs /\ txs'[i] = txs[i] /\ Marking(i, q)
        BY <3>2, <2>5, <1>2, <1>3 DEF SoloAt
      <4>2. QED
        BY <4>1, <2>3 DEF Marking, KeyOf
    <3>3. QED
      BY <3>1, <3>2
  <2>16. QED
    BY <2>3, <2>8, <2>9, <2>11, <2>13, <2>14, <2>15, <1>3, SoloGoes
<1>8. CASE Accruals!MarkAccrued(w)
  <2>1. q.step = "mark" /\ UNCHANGED <<made, txs>> /\ Accruals!NextFund(w)
    BY <1>1, <1>8 DEF Accruals!MarkAccrued
  <2>2. /\ q.tx \in DOMAIN txs /\ KeyOf(txs[q.tx]) = KeyOf(q) /\ txs[q.tx].kind = "income" /\ txs[q.tx].status = "paid"
        /\ txs[q.tx].shares.signs = "credited"
    BY <2>1, <1>1, <1>4 DEF Progress, Closing, Referring
  <2>3. accruals' = Accruals!Put(accruals, KeyOf(q), q.tx)
    BY <2>2, <1>1, <1>5, <1>8 DEF Accruals!MarkAccrued, KeyOf
  <2>4. /\ DOMAIN accruals' = DOMAIN accruals \cup {KeyOf(q)} /\ accruals'[KeyOf(q)] = q.tx
        /\ \A k \in DOMAIN accruals : accruals'[k] = accruals[k]
    BY <2>3, <1>5 DEF Accruals!Put
  <2>5. Settled(q.fund, q.month)'
    BY <2>1, <2>2, <2>4 DEF Settled, Earned, KeyOf
  <2>6. ASSUME NEW f, NEW m, Settled(f, m) PROVE Settled(f, m)'
    <3>1. CASE <<f, m>> = KeyOf(q)
      <4>1. f = q.fund /\ m = q.month
        BY <3>1 DEF KeyOf
      <4>2. QED
        BY <4>1, <2>5 DEF Settled, Earned
    <3>2. CASE <<f, m>> # KeyOf(q)
      <4>1. DOMAIN accruals \subseteq DOMAIN accruals' /\ (<<f, m>> \in DOMAIN accruals' => <<f, m>> \in DOMAIN accruals)
        BY <3>2, <2>4
      <4>2. QED
        BY <4>1, <2>1, <2>4, <2>6, <1>2, SettledStays
    <3>3. QED
      BY <3>1, <3>2
  <2>7. \A f \in Funds \ q.left : Settled(f, q.month)'
    <3> SUFFICES ASSUME NEW f \in Funds \ q.left PROVE Settled(f, q.month)'
      OBVIOUS
    <3>1. CASE f = q.fund
      BY <3>1, <2>5 DEF Settled, Earned
    <3>2. CASE f # q.fund
      BY <3>2, <2>6, <1>5
    <3>3. QED
      BY <3>1, <3>2
  <2>8. \A m \in closed, f \in Funds : Settled(f, m)'
    BY <2>6, <1>4 DEF ClosedSettled
  <2>9. \A i \in DOMAIN txs' : Whole(i, Accruals!Idle)'
    BY <2>1, <1>2, <1>4 DEF Whole
  <2>10. faults' = 0 => \A i \in DOMAIN txs' : Marking(i, Accruals!Idle)'
    <3> SUFFICES ASSUME faults' = 0, NEW i \in DOMAIN txs PROVE Marking(i, Accruals!Idle)'
      BY <2>1
    <3>1. Marking(i, q)
      BY <1>2, <1>3 DEF SoloAt
    <3>2. CASE q.tx = i
      BY <3>2, <2>1, <2>2, <2>4 DEF Marking, KeyOf
    <3>3. CASE q.tx # i
      BY <3>1, <3>3, <2>1, <2>4 DEF Marking, KeyOf
    <3>4. QED
      BY <3>2, <3>3
  <2>11. QED
    BY <2>1, <2>7, <2>8, <2>9, <2>10, <1>1, <1>3, SoloNextFund
<1>9. QED
  BY <1>6, <1>7, <1>8

LEMMA SoloFault ==
  ASSUME AccrualParameters, AccrualInv, SoloInv, ~ overlaps, NEW w \in Slots, Accruals!Fault(w)
  PROVE  SoloInv'
<1>1. PICK q \in Accruals!Task : q = tasks[w] /\ Closing(q)
  BY DEF AccrualInv, RestTyped
<1>2. q # Accruals!Idle /\ faults' = faults + 1 /\ UNCHANGED <<made, plans, units, txs, accruals>>
  BY <1>1 DEF Accruals!Fault
<1>3. PICK p : SoloAt(p)
  BY DEF SoloInv
<1>4. p = q /\ \A v \in Slots \ {w} : tasks[v] = Accruals!Idle
  BY <1>1, <1>2, <1>3 DEF SoloAt, Active
<1>5. Progress(q) /\ ClosedSettled /\ \A i \in DOMAIN txs : Whole(i, q)
  BY <1>3, <1>4 DEF SoloAt
<1>6. faults' > 0 /\ faults' # 0
  BY <1>2 DEF AccrualInv, RestTyped
<1>7. ASSUME NEW f, NEW m, Settled(f, m) PROVE Settled(f, m)'
  BY <1>2, <1>6, <1>7, SettledStays
<1>8. \A m \in closed, f \in Funds : Settled(f, m)'
  BY <1>5, <1>7 DEF ClosedSettled
<1>9. \A i \in DOMAIN txs' : Whole(i, Accruals!Idle)'
  BY <1>2, <1>5, <1>6 DEF Whole
<1>10. CASE tasks' = [tasks EXCEPT ![w] = Accruals!Idle] /\ UNCHANGED closed
  <2>1. ClosedSettled'
    BY <1>8, <1>10 DEF ClosedSettled, Settled, Earned
  <2>2. Progress(Accruals!Idle)'
    BY AccrualIdle DEF Progress
  <2>3. QED
    BY <2>1, <2>2, <1>4, <1>6, <1>9, <1>10, SoloGoes
<1>11. CASE q.step \in {"make", "mark"} /\ Accruals!NextFund(w)
  <2>1. KeyOf(q) \notin DOMAIN accruals' /\ \A f \in Funds \ q.left : f # q.fund => Settled(f, q.month)
    BY <1>2, <1>5, <1>11 DEF Progress
  <2>2. Settled(q.fund, q.month)'
    BY <2>1, <1>6 DEF Settled, KeyOf
  <2>3. \A f \in Funds \ q.left : Settled(f, q.month)'
    <3> SUFFICES ASSUME NEW f \in Funds \ q.left PROVE Settled(f, q.month)'
      OBVIOUS
    <3>1. CASE f = q.fund
      BY <3>1, <2>2 DEF Settled, Earned
    <3>2. CASE f # q.fund
      BY <3>2, <2>1, <1>7
    <3>3. QED
      BY <3>1, <3>2
  <2>4. QED
    BY <2>3, <1>1, <1>4, <1>6, <1>8, <1>9, <1>11, SoloNextFund
<1>12. QED
  BY <1>1, <1>10, <1>11 DEF Accruals!Fault, Accruals!Become

\* What others do while no request is under way.
LEMMA SoloRests ==
  ASSUME \A v \in Slots : tasks'[v] = Accruals!Idle, ClosedSettled',
         \A i \in DOMAIN txs' : Whole(i, Accruals!Idle)', faults' = 0 => \A i \in DOMAIN txs' : Marking(i, Accruals!Idle)'
  PROVE  SoloInv'
<1>1. Active(Accruals!Idle)' /\ Progress(Accruals!Idle)'
  BY AccrualIdle DEF Active, Progress
<1>2. SoloAt(Accruals!Idle)'
  BY <1>1 DEF SoloAt
<1>3. PICK q : q = Accruals!Idle
  OBVIOUS
<1>4. SoloAt(q)'
  BY <1>2, <1>3 DEF SoloAt, Active, Progress, Whole, Marking, Settled, Earned, KeyOf
<1>5. QED
  BY <1>4 DEF SoloInv

LEMMA SoloChanges ==
  ASSUME AccrualParameters, AccrualInv, SoloInv, ~ overlaps',
         \/ \E i \in Accruals!Ids : Accruals!RemoveTransaction(i) \/ ByHand(i)
         \/ \E f \in Funds, c \in 0..MaxCents : Accruals!UpdateFund(f, c)
  PROVE  SoloInv'
<1>1. /\ UNCHANGED <<tasks, units, faults, made>> /\ ~ overlaps
      /\ \A v \in Slots : tasks[v] = Accruals!Idle
  BY ByHandChanges DEF Accruals!RemoveTransaction, Accruals!ChangeStatus, Accruals!Handles, Accruals!UpdateFund
<1>2. PICK p : SoloAt(p)
  BY <1>1 DEF SoloInv
<1>3. p = Accruals!Idle
  BY <1>1, <1>2, AccrualIdle DEF SoloAt, Active
<1>4. PICK q : q = Accruals!Idle /\ SoloAt(q) /\ q.step = "idle"
  BY <1>2, <1>3, AccrualIdle
<1>5. ClosedSettled /\ \A i \in DOMAIN txs : Whole(i, q)
  BY <1>4 DEF SoloAt
<1>6. ASSUME NEW i \in Accruals!Ids, Accruals!RemoveTransaction(i) PROVE SoloInv'
  <2>1. PICK m : m = txs[i].month
    OBVIOUS
  <2>2. Accruals!RemoveTxs({i}) /\ UNCHANGED plans /\ closed' = closed \ {m}
    BY <2>1, <1>6 DEF Accruals!RemoveTransaction, Accruals!Handles
  <2>3. \A j \in {i} \cap DOMAIN txs : txs[j].month = m
    BY <2>1
  <2>4. q.step \notin {"share", "mark"} /\ UNCHANGED <<made, plans, units, faults>>
    BY <2>2, <1>1, <1>4
  <2>5. /\ \A n \in closed \ {m}, f \in Funds : Settled(f, n)'
        /\ \A j \in DOMAIN txs' : \A t : Whole(j, t)'
        /\ faults' = 0 => \A j \in DOMAIN txs' : \A t : Marking(j, t)'
    BY <2>2, <2>3, <2>4, <1>4, MonthRemoved
  <2>6. ClosedSettled'
    BY <2>2, <2>5 DEF ClosedSettled, Settled, Earned
  <2>7. QED
    BY <2>5, <2>6, <1>1, SoloRests
<1>7. ASSUME NEW i \in Accruals!Ids, ByHand(i) PROVE SoloInv'
  <2>0. PICK to : \E from : Accruals!ChangeStatus(i, from, to)
    BY <1>7, ByHandChanges
  <2>1. /\ i \in DOMAIN txs /\ txs' = [txs EXCEPT ![i].status = to]
        /\ closed' = closed \ {txs[i].month} /\ UNCHANGED <<plans, accruals>>
    BY <2>0 DEF Accruals!ChangeStatus, Accruals!Handles
  <2>2. PICK row \in Accruals!Tx : row = txs[i]
    BY <2>1 DEF AccrualInv, TxsTyped
  <2>3. PICK new : new = [row EXCEPT !.status = to]
    OBVIOUS
  <2>4. new.fund = row.fund /\ new.month = row.month /\ new.kind = row.kind /\ new.shares = row.shares
    BY <2>2, <2>3 DEF Accruals!Tx
  <2>5. DOMAIN txs' = DOMAIN txs /\ txs'[i] = new /\ \A j \in DOMAIN txs \ {i} : txs'[j] = txs[j]
    BY <2>1, <2>2, <2>3
  <2>6. ClosedSettled'
    <3> SUFFICES ASSUME NEW m \in closed \ {txs[i].month}, NEW f \in Funds PROVE Settled(f, m)'
      BY <2>1 DEF ClosedSettled, Settled, Earned
    <3>1. Settled(f, m) /\ <<f, m>> # KeyOf(txs[i])
      BY <1>5 DEF ClosedSettled, KeyOf
    <3>2. QED
      BY <3>1, <2>1, <2>5, <1>1, OthersSettled
  <2>7. \A j \in DOMAIN txs' : Whole(j, Accruals!Idle)'
    <3> SUFFICES ASSUME NEW j \in DOMAIN txs PROVE Whole(j, Accruals!Idle)'
      BY <2>5
    <3>1. CASE j = i
      <4>1. Whole(i, q) /\ q.step # "share"
        BY <2>1, <1>4, <1>5
      <4>2. QED
        BY <4>1, <3>1, <2>2, <2>4, <2>5, <1>1 DEF Whole
    <3>2. CASE j # i
      BY <3>2, <2>5, <1>1, <1>4, <1>5 DEF Whole
    <3>3. QED
      BY <3>1, <3>2
  <2>8. faults' = 0 => \A j \in DOMAIN txs' : Marking(j, Accruals!Idle)'
    <3> SUFFICES ASSUME faults' = 0, NEW j \in DOMAIN txs PROVE Marking(j, Accruals!Idle)'
      BY <2>5
    <3>1. KeyOf(txs'[j]) = KeyOf(txs[j])
      BY <2>2, <2>4, <2>5 DEF KeyOf
    <3>2. Marking(j, q)
      BY <1>1, <1>4 DEF SoloAt
    <3>3. QED
      BY <3>1, <3>2, <2>1, <1>4 DEF Marking
  <2>9. QED
    BY <2>6, <2>7, <2>8, <1>1, SoloRests
<1>8. ASSUME NEW f \in Funds, NEW c \in 0..MaxCents, Accruals!UpdateFund(f, c) PROVE SoloInv'
  <2>1. closed' = {} /\ UNCHANGED <<txs, accruals>>
    BY <1>8 DEF Accruals!UpdateFund
  <2>2. ClosedSettled'
    BY <2>1 DEF ClosedSettled
  <2>3. \A j \in DOMAIN txs' : Whole(j, Accruals!Idle)'
    BY <2>1, <1>1, <1>4, <1>5 DEF Whole
  <2>4. faults' = 0 => \A j \in DOMAIN txs' : Marking(j, Accruals!Idle)'
    BY <2>1, <1>1, <1>4 DEF SoloAt, Marking, KeyOf
  <2>5. QED
    BY <2>2, <2>3, <2>4, <1>1, SoloRests
<1>9. QED
  BY <1>6, <1>7, <1>8

LEMMA NextSolo ==
  ASSUME AccrualParameters, AccrualInv, SoloInv, [Accruals!Next]_Accruals!accrualVars PROVE SoloInv'
<1>1. CASE UNCHANGED Accruals!accrualVars
  <2>1. UNCHANGED <<plans, units, txs, accruals, closed, made, tasks, faults, overlaps>>
    BY <1>1 DEF Accruals!accrualVars
  <2>2. CASE ~ overlaps
    <3>1. PICK q : SoloAt(q)
      BY <2>2 DEF SoloInv
    <3>2. Active(q)'
      BY <2>1, <3>1 DEF SoloAt, Active
    <3>3. Progress(q)'
      BY <2>1, <3>1 DEF SoloAt, Progress, Settled, Earned, KeyOf, Accruals!Due
    <3>4. ClosedSettled'
      BY <2>1, <3>1 DEF SoloAt, ClosedSettled, Settled, Earned, Accruals!Due
    <3>5. \A i \in DOMAIN txs' : Whole(i, q)'
      BY <2>1, <3>1 DEF SoloAt, Whole
    <3>6. faults' = 0 => \A i \in DOMAIN txs' : Marking(i, q)'
      BY <2>1, <3>1 DEF SoloAt, Marking, KeyOf
    <3>7. SoloAt(q)'
      BY <3>2, <3>3, <3>4, <3>5, <3>6 DEF SoloAt
    <3>8. QED
      BY <3>7 DEF SoloInv
  <2>3. CASE overlaps
    BY <2>1, <2>3 DEF SoloInv
  <2>4. QED
    BY <2>2, <2>3
<1>2. ASSUME NEW w \in Slots, NEW m \in Accruals!Months, Accruals!CloseMonth(w, m) \/ Accruals!RegenerateMonth(w, m)
      PROVE  SoloInv'
  <2>1. CASE ~ overlaps'
    BY <1>2, <2>1, SoloStarts
  <2>2. CASE overlaps'
    BY <2>2 DEF SoloInv
  <2>3. QED
    BY <2>1, <2>2
<1>3. CASE \/ \E i \in Accruals!Ids : Accruals!RemoveTransaction(i) \/ ByHand(i)
           \/ \E f \in Funds, c \in 0..MaxCents : Accruals!UpdateFund(f, c)
  <2>1. CASE ~ overlaps'
    BY <1>3, <2>1, SoloChanges
  <2>2. CASE overlaps'
    BY <2>2 DEF SoloInv
  <2>3. QED
    BY <2>1, <2>2
<1>4. ASSUME NEW w \in Slots, overlaps' = overlaps, ~ overlaps => SoloInv' PROVE SoloInv'
  BY <1>4 DEF SoloInv
<1>5. ASSUME NEW w \in Slots,
             Accruals!ListAccruals(w) \/ Accruals!ReadStatus(w) \/ Accruals!FindAccrual(w) \/ Accruals!ReadAccrued(w)
      PROVE  SoloInv'
  <2>1. overlaps' = overlaps
    BY <1>5 DEF Accruals!ListAccruals, Accruals!ReadStatus, Accruals!FindAccrual, Accruals!ReadAccrued
  <2>2. QED
    BY <2>1, <1>4, <1>5, SoloReads
<1>6. ASSUME NEW w \in Slots, Accruals!ClearPending(w) PROVE SoloInv'
  <2>1. overlaps' = overlaps
    BY <1>6 DEF Accruals!ClearPending
  <2>2. QED
    BY <2>1, <1>4, <1>6, SoloClears
<1>7. ASSUME NEW w \in Slots, Accruals!DropShares(w) \/ Accruals!CreditShares(w) PROVE SoloInv'
  <2>1. overlaps' = overlaps
    BY <1>7 DEF Accruals!DropShares, Accruals!CreditShares
  <2>2. QED
    BY <2>1, <1>4, <1>7, SoloNormalises
<1>8. ASSUME NEW w \in Slots, Accruals!TurnIntoIncome(w) PROVE SoloInv'
  <2>1. overlaps' = overlaps
    BY <1>8 DEF Accruals!TurnIntoIncome
  <2>2. QED
    BY <2>1, <1>4, <1>8, SoloTurns
<1>9. ASSUME NEW w \in Slots, Accruals!ResolveUnits(w) \/ Accruals!MakeIncome(w) \/ Accruals!MarkAccrued(w)
      PROVE  SoloInv'
  <2>1. overlaps' = overlaps
    BY <1>9 DEF Accruals!ResolveUnits, Accruals!MakeIncome, Accruals!MarkAccrued
  <2>2. QED
    BY <2>1, <1>4, <1>9, SoloAccrues
<1>10. ASSUME NEW w \in Slots, Accruals!Fault(w) PROVE SoloInv'
  <2>1. overlaps' = overlaps
    BY <1>10 DEF Accruals!Fault
  <2>2. QED
    BY <2>1, <1>4, <1>10, SoloFault
<1>11. QED
  BY <1>1, <1>2, <1>3, <1>5, <1>6, <1>7, <1>8, <1>9, <1>10 DEF Accruals!Next, ByHand

LEMMA SoloInvariant == ASSUME AccrualParameters PROVE Accruals!Spec => []SoloInv
<1>1. Accruals!Init => SoloInv
  BY InitSolo
<1>2. AccrualInv /\ SoloInv /\ [Accruals!Next]_Accruals!accrualVars => SoloInv'
  BY NextSolo
<1>3. QED
  BY <1>1, <1>2, AccrualInvariant, PTL DEF Accruals!Spec

\* A month of a fund has at most one transaction, whatever is closed, regenerated, reopened
\* and removed in whatever order, while calls do not overlap and none is interrupted: each
\* transaction has its accrual, or is the one the call under way is about to refer to, and
\* then the month has no other.
THEOREM AccruedAtMostOnce == ASSUME AccrualParameters PROVE Accruals!Spec => []Accruals!AccruedOnce
<1>1. AccrualInv /\ SoloInv => Accruals!AccruedOnce
  <2> SUFFICES ASSUME AccrualInv, SoloInv, ~ overlaps, faults = 0, NEW k \in Accruals!Keys
               PROVE  Accruals!Cardinality(Accruals!Incomes(k)) <= 1
    BY DEF Accruals!AccruedOnce
  <2>1. PICK q : SoloAt(q)
    BY DEF SoloInv
  <2>2. ASSUME NEW i \in Accruals!Incomes(k) PROVE i \in DOMAIN txs /\ KeyOf(txs[i]) = k /\ Marking(i, q)
    BY <2>1 DEF Accruals!Incomes, KeyOf, SoloAt
  <2>3. ASSUME q.step = "mark" PROVE q.tx \in DOMAIN txs => KeyOf(txs[q.tx]) = KeyOf(q) /\ KeyOf(q) \notin DOMAIN accruals
    <3>1. PICK w \in Slots : tasks[w] = q
      BY <2>1, <2>3, AccrualIdle DEF SoloAt, Active
    <3>2. Closing(q)
      BY <3>1 DEF AccrualInv
    <3>3. QED
      BY <2>1, <2>3, <3>2 DEF SoloAt, Progress, Closing, Referring
  <2>4. ASSUME NEW i \in Accruals!Incomes(k), NEW j \in Accruals!Incomes(k) PROVE i = j
    <3>1. /\ i \in DOMAIN txs /\ KeyOf(txs[i]) = k /\ Marking(i, q)
          /\ j \in DOMAIN txs /\ KeyOf(txs[j]) = k /\ Marking(j, q)
      BY <2>2
    <3>2. QED
      BY <3>1, <2>3 DEF Marking
  <2>5. CASE Accruals!Incomes(k) = {}
    <3>1. Cardinality(Accruals!Incomes(k)) = 0
      BY <2>5, FS_EmptySet
    <3>2. QED
      BY <3>1, AccrualCount
  <2>6. CASE Accruals!Incomes(k) # {}
    <3>1. PICK i : Accruals!Incomes(k) = {i}
      BY <2>4, <2>6
    <3>2. Cardinality(Accruals!Incomes(k)) = 1
      BY <3>1, FS_Singleton
    <3>3. QED
      BY <3>2, AccrualCount
  <2>7. QED
    BY <2>5, <2>6
<1>2. QED
  BY <1>1, AccrualInvariant, SoloInvariant, PTL

\* A closing that reached its end leaves its month accrued, until something changes what it
\* rests on, but for an expense of an earlier release that was settled or cancelled by hand,
\* which it passes over: the funds it has been at stay settled while it goes on to the others.
THEOREM ClosedMonthsAccrued == ASSUME AccrualParameters PROVE Accruals!Spec => []Accruals!ClosedIsAccrued
<1>1. AccrualInv /\ SoloInv => Accruals!ClosedIsAccrued
  <2> SUFFICES ASSUME AccrualInv, SoloInv, ~ overlaps, NEW m \in closed, NEW f \in Funds
               PROVE  /\ faults = 0 /\ Accruals!Due(f, m) => <<f, m>> \in DOMAIN accruals
                      /\ <<f, m>> \in DOMAIN accruals => Earned(txs[accruals[<<f, m>>]])
    BY DEF Accruals!ClosedIsAccrued, Earned
  <2>1. PICK q : SoloAt(q)
    BY DEF SoloInv
  <2>2. Settled(f, m)
    BY <2>1 DEF SoloAt, ClosedSettled
  <2>3. QED
    BY <2>2 DEF Settled
<1>2. QED
  BY <1>1, AccrualInvariant, SoloInvariant, PTL

(***************************************************************************)
(* The shares of expenses.                                                 *)
(***************************************************************************)

\* What the module says of its constants: units are numbered in the order of their
\* identifiers, amounts are cents, and "new" and "gone" name no grouping.
FeeParameters ==
    /\ Units \subseteq Int /\ IsFiniteSet(Units) /\ IsFiniteSet(Expenses)
    /\ Amounts \subseteq Nat /\ Rules \subseteq Rule /\ WorkRule \in Rule
    /\ MaxMoves \in Nat /\ MaxCalls \in Nat
    /\ {"new", "gone"} \cap (Groupings \cup Names) = {}

(***************************************************************************)
(* Distribute.                                                             *)
(***************************************************************************)

UnitRank(u, S) == Cardinality({v \in S : v < u})

\* The units that get one of r cents.
Early(S, r) == [u \in S |-> IF UnitRank(u, S) < r THEN 1 ELSE 0]

LEMMA RankBelow ==
  ASSUME NEW S, IsFiniteSet(S), S \subseteq Int, NEW u \in S
  PROVE  UnitRank(u, S) \in Nat /\ UnitRank(u, S) < Cardinality(S)
<1>1. {v \in S : v < u} \subseteq S \ {u}
  OBVIOUS
<1>2. IsFiniteSet(S \ {u}) /\ Cardinality(S \ {u}) = Cardinality(S) - 1
  BY FS_RemoveElement
<1>3. Cardinality(S) \in Nat
  BY FS_CardinalityType
<1>4. IsFiniteSet({v \in S : v < u}) /\ Cardinality({v \in S : v < u}) <= Cardinality(S \ {u})
  BY <1>1, <1>2, FS_Subset
<1>5. Cardinality({v \in S : v < u}) \in Nat
  BY <1>4, FS_CardinalityType
<1>6. QED
  BY <1>2, <1>3, <1>4, <1>5 DEF UnitRank

\* As many units as there are cents, if there are enough units.
LEMMA EarlySum ==
  ASSUME NEW U, IsFiniteSet(U), U \subseteq Int
  PROVE  \A S \in SUBSET U : \A r \in 0..Cardinality(S) : Sum(Early(S, r), S) = r
<1> DEFINE N == {n \in Nat : \A S \in SUBSET U : Cardinality(S) = n =>
                    \A r \in 0..n : Sum(Early(S, r), S) = r}
<1>1. \A S \in SUBSET U : IsFiniteSet(S) /\ Cardinality(S) \in Nat /\ S \subseteq Int
  BY FS_Subset, FS_CardinalityType
<1>2. 0 \in N
  <2> SUFFICES ASSUME NEW S \in SUBSET U, Cardinality(S) = 0, NEW r \in 0..0
               PROVE  Sum(Early(S, r), S) = r
    OBVIOUS
  <2>1. S = {} /\ r = 0
    BY <1>1, FS_EmptySet
  <2>2. QED
    BY <2>1, SumEmpty
<1>3. ASSUME NEW n \in Nat, n \in N PROVE n + 1 \in N
  <2> SUFFICES ASSUME NEW S \in SUBSET U, Cardinality(S) = n + 1, NEW r \in 0..(n + 1)
               PROVE  Sum(Early(S, r), S) = r
    OBVIOUS
  <2> DEFINE e == Early(S, r)
             m == Max(S)
             T == S \ {m}
  <2>1. IsFiniteSet(S) /\ S \subseteq Int /\ S # {}
    BY <1>1, FS_EmptySet
  <2>2. m \in S /\ \A u \in S : m >= u
    <3>1. Max(S) \in S /\ \A u \in S : Max(S) >= u
      BY <2>1, MaxExists
    <3>2. QED
      BY <3>1
  <2> HIDE DEF m
  <2>3. T \in SUBSET U /\ Cardinality(T) = n /\ S = T \cup {m} /\ m \notin T
    BY <2>1, <2>2, FS_RemoveElement
  <2>4. \A u \in S : UnitRank(u, S) \in Nat /\ UnitRank(u, S) < n + 1
    BY <2>1, RankBelow
  <2>5. \A u \in S : e[u] = IF UnitRank(u, S) < r THEN 1 ELSE 0
    BY DEF Early
  <2>6. \A u \in S : e[u] \in Int
    BY <2>5
  <2>7. CASE r = n + 1
    <3>1. \A u \in S : e[u] = 1
      BY <2>4, <2>5, <2>7
    <3> HIDE DEF e
    <3>2. \A c \in Int : (\A u \in S : e[u] = c) => Sum(e, S) = c * Cardinality(S)
      BY <2>1, SumConstant
    <3>3. Sum(e, S) = n + 1
      BY <3>1, <3>2
    <3>4. QED
      BY <2>7, <3>3 DEF e
  <2>8. CASE r \in 0..n
    <3>1. UnitRank(m, S) = n
      <4>1. \A v \in S : v \in Int /\ m \in Int /\ m >= v
        BY <2>1, <2>2
      <4>2. \A v \in S : v < m <=> v # m
        BY <4>1
      <4>3. {v \in S : v < m} = T
        BY <4>2
      <4>4. QED
        BY <2>3, <4>3 DEF UnitRank
    <3>2. e[m] = 0
      BY <2>2, <2>5, <2>8, <3>1
    <3>3. \A u \in T : UnitRank(u, T) = UnitRank(u, S)
      <4> SUFFICES ASSUME NEW u \in T PROVE {v \in T : v < u} = {v \in S : v < u}
        BY DEF UnitRank
      <4>1. ~(m < u)
        BY <2>1, <2>2, <2>3
      <4>2. QED
        BY <2>3, <4>1
    <3> DEFINE f == Early(T, r)
    <3>4. \A u \in T : f[u] = e[u]
      BY <2>3, <2>5, <3>3 DEF Early
    <3>5. Sum(f, T) = r
      BY <1>3, <2>3, <2>8
    <3>6. IsFiniteSet(T)
      BY <1>1, <2>3
    <3> HIDE DEF e, f, T
    <3>7. Sum(f, T) = Sum(e, T)
      BY <3>4, <3>6, SumSame
    <3>8. Sum(e, S) = e[m] + Sum(e, S \ {m})
      BY <2>1, <2>2, <2>6, SumRemove
    <3>9. Sum(e, S) = r
      <4>1. Sum(e, S) = e[m] + Sum(e, T)
        BY <3>8 DEF T
      <4>2. QED
        BY <2>8, <3>2, <3>5, <3>7, <4>1
    <3>10. QED
      BY <3>9 DEF e
  <2>9. QED
    BY <2>7, <2>8
<1>4. Nat \subseteq N
  <2> HIDE DEF N
  <2>1. QED
    BY <1>2, <1>3, NumberInduction
<1>5. QED
  BY <1>1, <1>4

\* An amount is distributed to the cent, and nobody gets more than an equal part, rounded up.
LEMMA DistributeAddsUp ==
  ASSUME NEW S, IsFiniteSet(S), S \subseteq Int, S # {}, NEW total \in Nat
  PROVE  /\ Distribute(total, S) \in [S -> Nat]
         /\ Sum(Distribute(total, S), S) = total
         /\ \A u \in S : Distribute(total, S)[u] * Cardinality(S) <= total + Cardinality(S) - 1
<1> DEFINE n == Cardinality(S)
           q == total \div n
           r == total % n
           d == Distribute(total, S)
           e == Early(S, r)
           c == [u \in S |-> q]
<1>1. n \in Nat /\ n > 0
  BY FS_CardinalityType, FS_EmptySet
<1>2. q \in Nat /\ r \in 0..(n - 1) /\ total = n * q + r
  <2> HIDE DEF n
  <2>1. QED
    BY <1>1
<1>3. \A u \in S : d[u] = q + IF UnitRank(u, S) < r THEN 1 ELSE 0
  BY DEF Distribute, UnitRank
<1>4. \A u \in S : e[u] = IF UnitRank(u, S) < r THEN 1 ELSE 0
  BY DEF Early
<1>5. \A u \in S : c[u] = q
  OBVIOUS
<1>6. \A u \in S : c[u] \in Int /\ e[u] \in Int /\ d[u] = c[u] + e[u]
  BY <1>2, <1>3, <1>4, <1>5
<1>7. Sum(e, S) = r
  <2>1. r \in 0..Cardinality(S)
    BY <1>1, <1>2
  <2>2. \A T \in SUBSET S : \A k \in 0..Cardinality(T) : Sum(Early(T, k), T) = k
    BY EarlySum
  <2>3. QED
    BY <2>1, <2>2
<1>8. Sum(c, S) = q * n
  <2> HIDE DEF c, q
  <2>1. q \in Int
    BY <1>2
  <2>2. QED
    BY <1>5, <2>1, SumConstant
<1>9. Sum(d, S) = Sum(c, S) + Sum(e, S)
  <2> HIDE DEF c, d, e
  <2>1. QED
    BY <1>6, SumPlus
<1>10. q * n = n * q
  <2> HIDE DEF q, n
  <2>1. QED
    BY <1>1, <1>2
<1>11. Sum(d, S) = total
  <2> HIDE DEF n, q, r, c, d, e
  <2>1. q * n \in Int
    BY <1>1, <1>2
  <2>2. QED
    BY <1>2, <1>7, <1>8, <1>9, <1>10, <2>1
<1>12. \A u \in S : d[u] * n <= total + n - 1
  <2> SUFFICES ASSUME NEW u \in S PROVE d[u] * n <= total + n - 1
    OBVIOUS
  <2>1. CASE d[u] = q
    <3> HIDE DEF n, q, r, d
    <3>1. QED
      BY <1>1, <1>2, <1>10, <2>1
  <2>2. CASE d[u] = q + 1 /\ r > 0
    <3> HIDE DEF n, q, r, d
    <3>1. (q + 1) * n = n * q + n
      BY <1>1, <1>2
    <3>2. QED
      BY <1>1, <1>2, <2>2, <3>1
  <2>3. (d[u] = q) \/ (d[u] = q + 1 /\ r > 0)
    <3>1. UnitRank(u, S) \in Nat
      BY RankBelow
    <3> HIDE DEF q, r, d
    <3>2. QED
      BY <1>2, <1>3, <3>1
  <2>4. QED
    BY <2>1, <2>2, <2>3
<1>13. d \in [S -> Nat]
  <2>1. d = [u \in S |-> q + IF UnitRank(u, S) < r THEN 1 ELSE 0]
    BY DEF Distribute, UnitRank
  <2> HIDE DEF q, r, d
  <2>2. QED
    BY <1>2, <2>1
<1>14. QED
  BY <1>11, <1>12, <1>13

(***************************************************************************)
(* The rows of an expense.                                                 *)
(***************************************************************************)

Shares == UNION {[S -> Nat] : S \in SUBSET Units}

Row == [amount : Amounts, rule : Rule, status : {"pending", "paid", "cancelled"},
        work : BOOLEAN, shares : Shares]

Given(row) == Sum(row.shares, DOMAIN row.shares)

\* No row is more than an equal part of the amount, rounded up to a cent.
Fair(row) ==
    LET n == Cardinality(DOMAIN row.shares) IN
    \A u \in DOMAIN row.shares : row.shares[u] * n <= row.amount + n - 1

\* The rows as they are written, and as they are after units were removed.
SplitWhole(row) == row \in Row /\ Fair(row) /\ Given(row) = row.amount

Left(row) ==
    /\ row \in Row /\ Fair(row)
    /\ DOMAIN row.shares \subseteq Existing
    /\ \/ Given(row) = row.amount
       \/ Given(row) < row.amount /\ \E u \in Units : home[u] = "gone"

Homes ==
    /\ home \in [Units -> Groupings \cup {"new", "gone"}]
    /\ name \in [Groupings -> Names \cup {"new", "gone"}]
    /\ \A u \in Existing : home[u] \in Open

SInv ==
    /\ Homes
    /\ expenses \in [Expenses -> Row \cup {None}]
    /\ \A t \in Stored : Left(expenses[t])
    /\ job # None => job.expense \in Expenses /\ SplitWhole(job.row)
    /\ calls \in 0..MaxCalls

LEMMA RowType ==
  ASSUME FeeParameters, NEW row \in Row
  PROVE  /\ IsFiniteSet(DOMAIN row.shares) /\ DOMAIN row.shares \subseteq Units
         /\ \A u \in DOMAIN row.shares : row.shares[u] \in Nat
         /\ Cardinality(DOMAIN row.shares) \in Nat
         /\ row.amount \in Nat /\ Given(row) \in Nat
<1>1. PICK S \in SUBSET Units : row.shares \in [S -> Nat]
  BY DEF Row, Shares
<1>2. /\ DOMAIN row.shares = S /\ IsFiniteSet(S) /\ Cardinality(S) \in Nat
      /\ \A u \in S : row.shares[u] \in Nat
  BY <1>1, FS_Subset, FS_CardinalityType DEF FeeParameters
<1>3. Sum(row.shares, S) \in Nat
  BY <1>2, SumNat
<1>4. QED
  BY <1>2, <1>3 DEF Row, Given, FeeParameters

\* A smaller number of equal parts is not a smaller part.
LEMMA LargerPart ==
  ASSUME NEW s \in Nat, NEW a \in Nat, NEW n \in Nat, NEW m \in Nat,
         1 <= m, m <= n, s * n <= a + n - 1
  PROVE  s * m <= a + m - 1
<1>1. CASE s = 0
  BY <1>1
<1>2. CASE s >= 1
  <2>1. s * n = s * m + s * (n - m)
    OBVIOUS
  <2>2. s * (n - m) >= n - m
    <3>1. s * (n - m) = (s - 1) * (n - m) + (n - m)
      OBVIOUS
    <3>2. (s - 1) * (n - m) >= 0
      <4>1. \A i, j \in Nat : i * j \in Nat
        OBVIOUS
      <4>2. s - 1 \in Nat /\ n - m \in Nat
        BY <1>2
      <4>3. QED
        BY <4>1, <4>2
    <3>3. QED
      BY <3>1, <3>2
  <2>3. QED
    BY <2>1, <2>2
<1>3. QED
  BY <1>1, <1>2

\* What is left of an expense when the units of a set are removed.
LEMMA FewerRows ==
  ASSUME FeeParameters, NEW row \in Row, Fair(row), NEW S, NEW new,
         new = [row EXCEPT !.shares = [u \in DOMAIN row.shares \ S |-> row.shares[u]]]
  PROVE  /\ new \in Row /\ Fair(new) /\ new.amount = row.amount
         /\ DOMAIN new.shares = DOMAIN row.shares \ S
         /\ Given(new) <= Given(row)
         /\ DOMAIN row.shares \cap S = {} => Given(new) = Given(row)
<1> DEFINE D == DOMAIN row.shares
           R == D \ S
           Q == D \cap S
           f == row.shares
           g == [u \in R |-> f[u]]
<1>1. /\ IsFiniteSet(D) /\ D \subseteq Units /\ (\A u \in D : f[u] \in Nat)
      /\ Cardinality(D) \in Nat /\ row.amount \in Nat
  BY RowType
<1>2. /\ IsFiniteSet(R) /\ IsFiniteSet(Q) /\ R \cap Q = {} /\ R \cup Q = D
      /\ Cardinality(R) \in Nat /\ Cardinality(R) <= Cardinality(D)
  BY <1>1, FS_Subset, FS_CardinalityType
<1>3. g \in [R -> Nat] /\ R \in SUBSET Units
  BY <1>1
<1>4. /\ new.shares = g /\ new.amount = row.amount /\ DOMAIN g = R
      /\ new.rule = row.rule /\ new.status = row.status /\ new.work = row.work
  BY DEF Row
<1>5. new \in Row
  <2>1. g \in Shares
    BY <1>3 DEF Shares
  <2> HIDE DEF g
  <2>2. QED
    BY <1>4, <2>1 DEF Row
<1>6. Sum(g, R) = Sum(f, R)
  <2>1. \A u \in R : g[u] = f[u]
    OBVIOUS
  <2> HIDE DEF f, g, R
  <2>2. QED
    BY <1>2, <2>1, SumSame
<1>7. Sum(f, D) = Sum(f, R) + Sum(f, Q) /\ Sum(f, R) \in Nat /\ Sum(f, Q) \in Nat
  <2>1. \A u \in R \cup Q : f[u] \in Nat /\ f[u] \in Int
    BY <1>1, <1>2
  <2> HIDE DEF f, R, Q, D
  <2>2. Sum(f, R \cup Q) = Sum(f, R) + Sum(f, Q)
    BY <1>2, <2>1, SumUnion
  <2>3. Sum(f, R) \in Nat /\ Sum(f, Q) \in Nat
    BY <1>2, <2>1, SumNat
  <2>4. QED
    BY <1>2, <2>2, <2>3
<1>8. Given(new) = Sum(f, R) /\ Given(row) = Sum(f, D)
  BY <1>4, <1>6 DEF Given
<1>9. Q = {} => Sum(f, Q) = 0
  BY SumEmpty
<1>10. Given(new) <= Given(row) /\ (Q = {} => Given(new) = Given(row))
  <2> HIDE DEF f, R, Q, D
  <2>1. QED
    BY <1>7, <1>8, <1>9
<1>11. Fair(new)
  <2> SUFFICES ASSUME NEW u \in R
               PROVE  f[u] * Cardinality(R) <= row.amount + Cardinality(R) - 1
    BY <1>4 DEF Fair
  <2>1. f[u] \in Nat /\ f[u] * Cardinality(D) <= row.amount + Cardinality(D) - 1
    BY <1>1 DEF Fair
  <2>2. Cardinality(R) # 0
    BY <1>2, FS_EmptySet
  <2> HIDE DEF f, R, D
  <2>3. 1 <= Cardinality(R)
    BY <1>2, <2>2
  <2>4. QED
    BY <1>1, <1>2, <2>1, <2>3, LargerPart
<1>12. QED
  BY <1>4, <1>5, <1>10, <1>11

\* The units a rule selects exist, and there is one.
LEMMA SelectedExist ==
  ASSUME FeeParameters, NEW rule \in Rule, Resolvable(rule)
  PROVE  /\ Selected(rule) \subseteq Existing /\ Selected(rule) # {}
         /\ IsFiniteSet(Selected(rule)) /\ Selected(rule) \subseteq Int
<1>1. rule.kind \in {"all", "except", "units", "groupings"} /\ rule.units \subseteq Existing
  BY DEF Rule, Resolvable
<1>2. Selected(rule) \subseteq Existing
  BY <1>1 DEF Selected
<1>3. Existing \subseteq Units
  BY DEF Existing
<1>4. QED
  BY <1>2, <1>3, FS_Subset DEF FeeParameters, Resolvable

(***************************************************************************)
(* The invariant.                                                          *)
(***************************************************************************)

LEMMA InitShares == ASSUME FeeParameters PROVE Init => SInv
<1> SUFFICES ASSUME Init PROVE SInv
  OBVIOUS
<1>1. /\ name \in [Groupings -> Names \cup {"new", "gone"}]
      /\ home \in [Units -> Groupings \cup {"new", "gone"}]
  BY DEF Init, Open
<1>2. \A u \in Existing : home[u] \in Open
  BY DEF Init, Existing, FeeParameters
<1>3. Homes
  BY <1>1, <1>2 DEF Homes
<1>4. expenses \in [Expenses -> Row \cup {None}] /\ Stored = {}
  BY DEF Init, Stored
<1>5. QED
  BY <1>3, <1>4 DEF Init, SInv, FeeParameters

\* A request that begins has split its amount among units that exist.
LEMMA BeginWhole ==
  ASSUME FeeParameters, SInv, NEW t \in Expenses, NEW amount \in Amounts, NEW rule \in Rule,
         NEW state \in {"pending", "paid", "cancelled"}, NEW work \in BOOLEAN,
         Begin(t, amount, rule, state, work)
  PROVE  SInv'
<1> DEFINE d == Distribute(amount, Selected(rule))
           row == [amount |-> amount, rule |-> rule, status |-> state, work |-> work,
                   shares |-> d]
<1>1. amount \in Nat
  BY DEF FeeParameters
<1>2. /\ job' = [expense |-> t, row |-> row] /\ Resolvable(rule)
      /\ UNCHANGED <<home, name, expenses>> /\ calls' = calls + 1 /\ calls < MaxCalls
  BY DEF Begin
<1>3. /\ Selected(rule) \subseteq Existing /\ Selected(rule) # {}
      /\ IsFiniteSet(Selected(rule)) /\ Selected(rule) \subseteq Int
  BY <1>1, <1>2, SelectedExist
<1>4. /\ d \in [Selected(rule) -> Nat] /\ Sum(d, Selected(rule)) = amount
      /\ \A u \in Selected(rule) :
            d[u] * Cardinality(Selected(rule)) <= amount + Cardinality(Selected(rule)) - 1
  BY <1>1, <1>3, DistributeAddsUp
<1>5. d \in Shares /\ DOMAIN d = Selected(rule)
  BY <1>3, <1>4 DEF Shares, Existing
<1> HIDE DEF d
<1>6. SplitWhole(row)
  BY <1>1, <1>4, <1>5 DEF SplitWhole, Row, Fair, Given
<1>7. job'.expense = t /\ job'.row = row
  BY <1>2
<1> HIDE DEF row
<1>8. Homes' /\ Stored' = Stored /\ \A u \in Stored : Left(expenses[u])'
  BY <1>2 DEF SInv, Homes, Existing, Open, Stored, Left, Given, Fair
<1>9. calls' \in 0..MaxCalls
  BY <1>2 DEF SInv, FeeParameters
<1>10. (job # None => job.expense \in Expenses /\ SplitWhole(job.row))'
  BY <1>6, <1>7 DEF SplitWhole, Fair, Given
<1>11. QED
  BY <1>2, <1>8, <1>9, <1>10 DEF SInv

LEMMA StoreKeeps == ASSUME FeeParameters, SInv, Store PROVE SInv'
<1>1. UNCHANGED <<home, name, calls>> /\ job' = None /\ job # None
  BY DEF Store
<1>2. Homes' /\ calls' \in 0..MaxCalls
  BY <1>1 DEF SInv, Homes, Existing, Open
<1>3. job.expense \in Expenses /\ SplitWhole(job.row)
  BY <1>1 DEF SInv
<1>4. ASSUME UNCHANGED expenses PROVE SInv'
  BY <1>1, <1>2, <1>4 DEF SInv, Stored, Left, Fair, Given, Existing
<1>5. ASSUME DOMAIN job.row.shares \subseteq Existing,
             expenses' = [expenses EXCEPT ![job.expense] = job.row]
      PROVE  SInv'
  <2>1. expenses' \in [Expenses -> Row \cup {None}]
    BY <1>3, <1>5 DEF SInv, SplitWhole
  <2>2. ASSUME NEW t \in Stored' PROVE Left(expenses[t])'
    <3>1. t \in Expenses /\ expenses'[t] # None
      BY DEF Stored
    <3>2. CASE t = job.expense
      <4>1. expenses'[t] = job.row
        BY <1>3, <1>5, <3>2 DEF SInv
      <4>2. QED
        BY <1>1, <1>3, <1>5, <4>1 DEF Left, SplitWhole, Given, Fair, Existing
    <3>3. CASE t # job.expense
      <4>1. expenses'[t] = expenses[t]
        BY <1>5, <3>1, <3>3 DEF SInv
      <4>2. Left(expenses[t])
        BY <3>1, <4>1 DEF SInv, Stored
      <4>3. QED
        BY <1>1, <4>1, <4>2 DEF Left, Given, Fair, Existing
    <3>4. QED
      BY <3>2, <3>3
  <2>3. QED
    BY <1>1, <1>2, <2>1, <2>2 DEF SInv
<1>6. QED
  BY <1>4, <1>5 DEF Store

\* A change of an expense that leaves its amount and its rows alone.
LEMMA RowsAlone ==
  ASSUME FeeParameters, SInv, NEW t \in Stored, NEW new \in Row,
         new.amount = expenses[t].amount, new.shares = expenses[t].shares,
         expenses' = [expenses EXCEPT ![t] = new],
         UNCHANGED <<home, name, job>>, calls' \in 0..MaxCalls
  PROVE  SInv'
<1>1. t \in Expenses /\ expenses'[t] = new /\ Left(expenses[t])
  BY DEF SInv, Stored
<1>2. \A s \in Expenses : s # t => expenses'[s] = expenses[s]
  BY DEF SInv
<1>3. ASSUME NEW s \in Stored' PROVE Left(expenses[s])'
  <2>1. CASE s = t
    BY <1>1, <2>1 DEF Left, Given, Fair, Existing
  <2>2. CASE s # t
    <3>1. expenses'[s] = expenses[s] /\ s \in Stored
      BY <1>2, <2>2 DEF Stored
    <3>2. Left(expenses[s])
      BY <3>1 DEF SInv
    <3>3. QED
      BY <3>1, <3>2 DEF Left, Given, Fair, Existing
  <2>3. QED
    BY <2>1, <2>2
<1>4. expenses' \in [Expenses -> Row \cup {None}]
  BY DEF SInv
<1>5. Homes' /\ (job # None => job.expense \in Expenses /\ SplitWhole(job.row))'
  BY DEF SInv, Homes, Existing, Open, SplitWhole, Given, Fair
<1>6. QED
  BY <1>3, <1>4, <1>5 DEF SInv

LEMMA RemoveKeeps ==
  ASSUME FeeParameters, SInv, NEW t \in Expenses, Remove(t)
  PROVE  SInv'
<1>1. UNCHANGED <<home, name, job, calls>> /\ expenses' = [expenses EXCEPT ![t] = None]
  BY DEF Remove
<1>2. expenses' \in [Expenses -> Row \cup {None}]
  BY <1>1 DEF SInv
<1>3. ASSUME NEW s \in Stored' PROVE Left(expenses[s])'
  <2>1. expenses'[s] = expenses[s] /\ s \in Stored
    BY <1>1 DEF SInv, Stored
  <2>2. Left(expenses[s])
    BY <2>1 DEF SInv
  <2>3. QED
    BY <1>1, <2>1, <2>2 DEF Left, Given, Fair, Existing
<1>4. Homes' /\ (job # None => job.expense \in Expenses /\ SplitWhole(job.row))'
  BY <1>1 DEF SInv, Homes, Existing, Open, SplitWhole, Given, Fair
<1>5. QED
  BY <1>1, <1>2, <1>3, <1>4 DEF SInv

\* The rows of the units of a set go with them; what is left fits the units that stay.
LEMMA DropKeeps ==
  ASSUME FeeParameters, SInv, NEW S, S \subseteq Existing, Drop(S)
  PROVE  /\ Existing' = Existing \ S
         /\ home' \in [Units -> Groupings \cup {"new", "gone"}]
         /\ \A u \in Existing' : home'[u] = home[u]
         /\ expenses' \in [Expenses -> Row \cup {None}]
         /\ \A t \in Stored' : Left(expenses[t])'
<1>1. home' = [u \in Units |-> IF u \in S THEN "gone" ELSE home[u]]
  BY DEF Drop
<1>2. S \subseteq Units /\ home \in [Units -> Groupings \cup {"new", "gone"}]
  BY DEF Existing, SInv, Homes
<1>3. Existing' = Existing \ S
  BY <1>1, <1>2 DEF Existing, FeeParameters
<1>4. home' \in [Units -> Groupings \cup {"new", "gone"}]
  BY <1>1, <1>2
<1>5. \A u \in Existing' : home'[u] = home[u]
  BY <1>1, <1>3 DEF Existing
<1>6. \A u \in Units : home[u] = "gone" \/ u \in S => home'[u] = "gone"
  BY <1>1
<1>7. ASSUME NEW t \in Expenses, expenses[t] = None PROVE expenses'[t] = None
  BY <1>7 DEF Drop
<1>8. ASSUME NEW t \in Expenses, expenses[t] # None
      PROVE  expenses'[t] \in Row /\ Left(expenses[t])'
  <2> DEFINE row == expenses[t]
             new == expenses'[t]
  <2>1. row \in Row /\ Left(row)
    BY <1>8 DEF SInv, Stored
  <2>2. new = [row EXCEPT !.shares = [u \in DOMAIN row.shares \ S |-> row.shares[u]]]
    <3>1. expenses'[t] = [expenses[t] EXCEPT !.shares = [u \in DOMAIN @ \ S |-> @[u]]]
      BY <1>8 DEF Drop
    <3>2. QED
      BY <2>1, <3>1 DEF Row
  <2> HIDE DEF new
  <2>3. Fair(row) /\ DOMAIN row.shares \subseteq Existing
    BY <2>1 DEF Left
  <2> HIDE DEF row
  <2>4. /\ new \in Row /\ Fair(new) /\ new.amount = row.amount
        /\ DOMAIN new.shares = DOMAIN row.shares \ S
        /\ Given(new) <= Given(row)
        /\ DOMAIN row.shares \cap S = {} => Given(new) = Given(row)
    BY <2>1, <2>2, <2>3, FewerRows
  <2>5. Given(new) \in Nat /\ Given(row) \in Nat /\ row.amount \in Nat
    BY <2>1, <2>4, RowType
  <2>6. DOMAIN new.shares \subseteq Existing'
    BY <1>3, <2>3, <2>4
  <2>7. \/ Given(new) = new.amount
        \/ Given(new) < new.amount /\ \E u \in Units : home'[u] = "gone"
    <3>1. CASE \E u \in Units : home[u] = "gone"
      <4>1. \E u \in Units : home'[u] = "gone"
        BY <1>6, <3>1
      <4>2. Given(row) <= row.amount
        BY <2>1, <2>5 DEF Left
      <4>3. QED
        BY <2>4, <2>5, <4>1, <4>2
    <3>2. CASE S # {}
      <4>1. \E u \in Units : home'[u] = "gone"
        BY <1>2, <1>6, <3>2
      <4>2. Given(row) <= row.amount
        BY <2>1, <2>5 DEF Left
      <4>3. QED
        BY <2>4, <2>5, <4>1, <4>2
    <3>3. CASE S = {} /\ ~ \E u \in Units : home[u] = "gone"
      BY <2>1, <2>4, <3>3 DEF Left
    <3>4. QED
      BY <3>1, <3>2, <3>3
  <2>8. Left(expenses[t])'
    BY <2>4, <2>6, <2>7 DEF Left, Given, Fair, new
  <2>9. QED
    BY <2>4, <2>8 DEF new
<1>9. expenses' \in [Expenses -> Row \cup {None}]
  <2>1. expenses' = [t \in Expenses |-> expenses'[t]]
    BY DEF Drop
  <2>2. \A t \in Expenses : expenses'[t] \in Row \cup {None}
    BY <1>7, <1>8
  <2>3. QED
    BY <2>1, <2>2
<1>10. \A t \in Stored' : Left(expenses[t])'
  BY <1>7, <1>8 DEF Stored
<1>11. QED
  BY <1>3, <1>4, <1>5, <1>9, <1>10

\* A change of groupings and units that removes no unit.
LEMMA UnitsStay ==
  ASSUME FeeParameters, SInv, Homes', UNCHANGED <<expenses, job>>, calls' \in 0..MaxCalls,
         Existing \subseteq Existing', \A u \in Units : home[u] = "gone" => home'[u] = "gone"
  PROVE  SInv'
<1>1. ASSUME NEW t \in Stored' PROVE Left(expenses[t])'
  <2>1. t \in Stored /\ Left(expenses[t]) /\ expenses'[t] = expenses[t]
    BY DEF SInv, Stored
  <2>2. QED
    BY <2>1 DEF Left, Given, Fair
<1>2. (job # None => job.expense \in Expenses /\ SplitWhole(job.row))'
  BY DEF SInv, SplitWhole, Given, Fair
<1>3. QED
  BY <1>1, <1>2 DEF SInv

LEMMA NextShares == ASSUME FeeParameters, SInv, [Next]_shareVars PROVE SInv'
<1>1. ASSUME UNCHANGED shareVars PROVE SInv'
  BY <1>1 DEF shareVars, SInv, Homes, Existing, Open, Stored, Left, SplitWhole, Given, Fair
<1>2. ASSUME NEW t \in Expenses, NEW amount \in Amounts, NEW rule \in Rules, NEW work \in BOOLEAN,
             Create(t, amount, rule, work)
      PROVE  SInv'
  BY <1>2, BeginWhole DEF Create, RuleFor, FeeParameters
<1>3. ASSUME NEW t \in Expenses, expenses[t] # None, NEW amount \in Amounts,
             NEW rule \in Rules \cup {expenses[t].rule}, NEW work \in BOOLEAN,
             Update(t, amount, rule, work)
      PROVE  SInv'
  <2>1. expenses[t] \in Row /\ Begin(t, amount, RuleFor(rule, work), expenses[t].status, expenses[t].work \/ work)
    BY <1>3 DEF Update, SInv
  <2>2. /\ RuleFor(rule, work) \in Rule /\ expenses[t].status \in {"pending", "paid", "cancelled"}
        /\ (expenses[t].work \/ work) \in BOOLEAN
    BY <2>1 DEF Row, RuleFor, FeeParameters
  <2>3. QED
    BY <2>1, <2>2, BeginWhole
<1>4. ASSUME NEW t \in Expenses, NEW work \in BOOLEAN, LinkWork(t, work) PROVE SInv'
  <2> DEFINE row == expenses[t]
  <2>1. row \in Row /\ t \in Stored
    BY <1>4 DEF LinkWork, SInv, Stored
  <2>2. CASE work /\ row.status = "pending"
    <3>1. Begin(t, row.amount, WorkRule, "pending", TRUE)
      BY <1>4, <2>2 DEF LinkWork
    <3>2. row.amount \in Amounts /\ WorkRule \in Rule /\ TRUE \in BOOLEAN
      BY <2>1 DEF Row, FeeParameters
    <3>3. QED
      BY <3>1, <3>2, BeginWhole
  <2>3. CASE ~(work /\ row.status = "pending")
    <3>1. /\ expenses' = [expenses EXCEPT ![t].work = work]
          /\ UNCHANGED <<home, name, job>> /\ calls' = calls + 1 /\ calls < MaxCalls
      BY <1>4, <2>3 DEF LinkWork
    <3> DEFINE new == [row EXCEPT !.work = work]
    <3>2. /\ expenses' = [expenses EXCEPT ![t] = new]
          /\ new \in Row /\ new.amount = row.amount /\ new.shares = row.shares
      BY <2>1, <3>1 DEF Row
    <3>3. calls' \in 0..MaxCalls
      BY <3>1 DEF SInv, FeeParameters
    <3> HIDE DEF new
    <3>4. QED
      BY <2>1, <3>1, <3>2, <3>3, RowsAlone
  <2>4. QED
    BY <2>2, <2>3
<1>5. ASSUME NEW t \in Expenses, NEW from, NEW to \in {"pending", "paid", "cancelled"},
             SetStatus(t, from, to)
      PROVE  SInv'
  <2> DEFINE row == expenses[t]
             new == [row EXCEPT !.status = to]
  <2>1. /\ row # None /\ expenses' = [expenses EXCEPT ![t].status = to]
        /\ UNCHANGED <<home, name, job, calls>>
    BY <1>5 DEF SetStatus
  <2>2. row \in Row /\ t \in Stored
    BY <2>1 DEF SInv, Stored
  <2>3. /\ expenses' = [expenses EXCEPT ![t] = new]
        /\ new \in Row /\ new.amount = row.amount /\ new.shares = row.shares
    BY <2>1, <2>2 DEF Row
  <2>4. calls' \in 0..MaxCalls
    BY <2>1 DEF SInv
  <2> HIDE DEF new
  <2>5. QED
    BY <2>1, <2>2, <2>3, <2>4, RowsAlone
<1>6. ASSUME NEW t \in Expenses, Remove(t) PROVE SInv'
  BY <1>6, RemoveKeeps
<1>7. ASSUME Store PROVE SInv'
  BY <1>7, StoreKeeps
<1>8. ASSUME Change PROVE calls' \in 0..MaxCalls /\ UNCHANGED job
  BY <1>8 DEF Change, SInv, FeeParameters
<1>9. ASSUME UNCHANGED job, SInv, Homes', calls' \in 0..MaxCalls,
             expenses' \in [Expenses -> Row \cup {None}],
             \A t \in Stored' : Left(expenses[t])'
      PROVE  SInv'
  BY <1>9 DEF SInv, SplitWhole, Given, Fair
<1>10. ASSUME NEW u \in Units, RemoveUnit(u) PROVE SInv'
  <2>1. Change /\ {u} \subseteq Existing /\ Drop({u}) /\ name' = name
    BY <1>10 DEF RemoveUnit
  <2> DEFINE S == {u}
  <2>2. S \subseteq Existing /\ Drop(S)
    BY <2>1
  <2> HIDE DEF S
  <2>3. /\ Existing' = Existing \ S
        /\ home' \in [Units -> Groupings \cup {"new", "gone"}]
        /\ \A v \in Existing' : home'[v] = home[v]
        /\ expenses' \in [Expenses -> Row \cup {None}]
        /\ \A t \in Stored' : Left(expenses[t])'
    BY <2>2, DropKeeps
  <2>4. Homes'
    BY <2>1, <2>3 DEF SInv, Homes, Open
  <2>5. QED
    BY <1>8, <1>9, <2>1, <2>3, <2>4
<1>11. ASSUME NEW g \in Groupings, RemoveGrouping(g) PROVE SInv'
  <2> DEFINE S == {u \in Existing : home[u] = g}
  <2>1. /\ Change /\ S \subseteq Existing /\ Drop(S)
        /\ name' = [name EXCEPT ![g] = "gone"]
    BY <1>11 DEF RemoveGrouping
  <2>2. \A v \in Existing \ S : home[v] # g
    OBVIOUS
  <2> HIDE DEF S
  <2>3. /\ Existing' = Existing \ S
        /\ home' \in [Units -> Groupings \cup {"new", "gone"}]
        /\ \A v \in Existing' : home'[v] = home[v]
        /\ expenses' \in [Expenses -> Row \cup {None}]
        /\ \A t \in Stored' : Left(expenses[t])'
    BY <2>1, DropKeeps
  <2>4. name' \in [Groupings -> Names \cup {"new", "gone"}]
    BY <2>1 DEF SInv, Homes
  <2>5. \A v \in Existing' : home'[v] \in Open'
    <3> SUFFICES ASSUME NEW v \in Existing' PROVE home'[v] \in Open'
      OBVIOUS
    <3>1. home'[v] = home[v] /\ home[v] \in Open /\ home[v] # g
      BY <2>2, <2>3 DEF SInv, Homes
    <3>2. QED
      BY <2>1, <3>1 DEF Open, SInv, Homes
  <2>6. QED
    BY <1>8, <1>9, <2>1, <2>3, <2>4, <2>5 DEF Homes
<1>12. ASSUME NEW u \in Units, NEW g \in Groupings, AddUnit(u, g) PROVE SInv'
  <2>1. /\ Change /\ home[u] = "new" /\ g \in Open /\ home' = [home EXCEPT ![u] = g]
        /\ UNCHANGED <<name, expenses>>
    BY <1>12 DEF AddUnit
  <2>2. \A v \in Units : home'[v] = IF v = u THEN g ELSE home[v]
    BY <2>1 DEF SInv, Homes
  <2>3. Homes'
    BY <2>1, <2>2 DEF SInv, Homes, Existing, Open
  <2>4. Existing \subseteq Existing' /\ \A v \in Units : home[v] = "gone" => home'[v] = "gone"
    BY <2>1, <2>2 DEF Existing
  <2>5. QED
    BY <1>8, <2>1, <2>3, <2>4, UnitsStay
<1>13. ASSUME NEW g \in Groupings, NEW n \in Names, CreateGrouping(g, n) \/ RenameGrouping(g, n)
       PROVE  SInv'
  <2>1. Change /\ name' = [name EXCEPT ![g] = n] /\ UNCHANGED <<home, expenses>>
    BY <1>13 DEF CreateGrouping, RenameGrouping
  <2>2. Open \subseteq Open'
    BY <2>1 DEF SInv, Homes, Open
  <2>3. Existing' = Existing
    BY <2>1 DEF Existing
  <2>4. Homes'
    BY <2>1, <2>2, <2>3 DEF SInv, Homes
  <2>5. QED
    BY <1>8, <2>1, <2>3, <2>4, UnitsStay
<1>14. QED
  BY <1>1, <1>2, <1>3, <1>4, <1>5, <1>6, <1>7, <1>10, <1>11, <1>12, <1>13 DEF Next

LEMMA SharesInvariant == ASSUME FeeParameters PROVE Spec => []SInv
<1>1. Init => SInv
  BY InitShares
<1>2. SInv /\ [Next]_shareVars => SInv'
  BY NextShares
<1>3. QED
  BY <1>1, <1>2, PTL DEF Spec

\* Units live in groupings that are there, and an expense has rows of units that are there.
THEOREM SharesTyped == ASSUME FeeParameters PROVE Spec => []ShareTypeOK
<1>1. SInv => ShareTypeOK
  BY DEF SInv, Homes, Left, Row, ShareTypeOK, Stored
<1>2. QED
  BY <1>1, SharesInvariant, PTL

\* The rows of an expense add up to its amount, or a unit that had one was removed:
\* distributePositiveCents loses no cent, whatever the amount and the number of units.
THEOREM RowsAddUp == ASSUME FeeParameters PROVE Spec => []SharesAddUp
<1>1. SInv => SharesAddUp
  BY DEF SInv, Left, Given, SharesAddUp
<1>2. QED
  BY <1>1, SharesInvariant, PTL

(***************************************************************************)
(* The fees: sharers of a class pay the largest of their shares.           *)
(***************************************************************************)

LEMMA ExistingFinite ==
  ASSUME FeeParameters
  PROVE  IsFiniteSet(Existing) /\ Existing \subseteq Units /\ Existing \subseteq Int
  BY FS_Subset DEF FeeParameters, Existing

LEMMA SharersExist ==
  ASSUME FeeParameters, NEW row \in Row, DOMAIN row.shares \subseteq Existing
  PROVE  /\ Sharers(row) \subseteq Existing /\ IsFiniteSet(Sharers(row))
         /\ Existing # {} => Sharers(row) # {}
         /\ DOMAIN row.shares # {} => Sharers(row) \subseteq DOMAIN row.shares
         /\ \A u \in DOMAIN row.shares : u \notin Sharers(row) => row.shares[u] = 0
<1> DEFINE D == DOMAIN row.shares
           charged == {u \in D : row.shares[u] > 0}
<1>1. Sharers(row) = IF charged # {} THEN charged ELSE IF D # {} THEN D ELSE Existing
  BY DEF Sharers
<1>2. \A u \in D : row.shares[u] \in Nat
  BY RowType
<1>3. \A u \in D : u \notin charged => row.shares[u] = 0
  BY <1>2
<1>4. charged \subseteq D
  OBVIOUS
<1> HIDE DEF charged, D
<1>5. /\ Sharers(row) \subseteq Existing
      /\ Existing # {} => Sharers(row) # {}
      /\ D # {} => Sharers(row) \subseteq D
      /\ \A u \in D : u \notin Sharers(row) => row.shares[u] = 0
  BY <1>1, <1>3, <1>4 DEF D
<1>6. IsFiniteSet(Sharers(row))
  BY <1>5, ExistingFinite, FS_Subset
<1>7. QED
  BY <1>5, <1>6 DEF D

LEMMA LevelledIs ==
  ASSUME FeeParameters, NEW row \in Row, DOMAIN row.shares \subseteq Existing
  PROVE  /\ Levelled(row) \in [Existing -> Nat]
         /\ \A u \in Existing :
              \/ Levelled(row)[u] = 0
              \/ /\ u \in Sharers(row)
                 /\ \E v \in Alike(u, Sharers(row)) \cap DOMAIN row.shares :
                       Levelled(row)[u] = row.shares[v]
         /\ \A u \in DOMAIN row.shares : row.shares[u] <= Levelled(row)[u]
<1> DEFINE D == DOMAIN row.shares
           f == row.shares
           level == Levelled(row)
           tops(u) == {f[v] : v \in Alike(u, Sharers(row))}
<1>1. /\ IsFiniteSet(Sharers(row)) /\ D \subseteq Existing
      /\ D # {} => Sharers(row) \subseteq D
      /\ \A u \in D : u \notin Sharers(row) => f[u] = 0
      /\ \A u \in D : f[u] \in Nat
  BY SharersExist, RowType
<1>2. level = [u \in Existing |-> IF u \in Sharers(row) /\ D # {} THEN Max(tops(u)) ELSE 0]
  BY DEF Levelled
<1>3. ASSUME NEW u \in Sharers(row), D # {}
      PROVE  /\ \E v \in Alike(u, Sharers(row)) \cap D : Max(tops(u)) = f[v]
             /\ f[u] <= Max(tops(u)) /\ Max(tops(u)) \in Nat
  <2> DEFINE A == Alike(u, Sharers(row))
             T == {f[v] : v \in A}
  <2>1. u \in A /\ A \subseteq Sharers(row)
    BY DEF Alike
  <2>2. IsFiniteSet(A) /\ A \subseteq D
    BY <1>1, <1>3, <2>1, FS_Subset
  <2>3. \A v \in A : f[v] \in Nat
    BY <1>1, <2>2
  <2> HIDE DEF A
  <2>4. IsFiniteSet(T) /\ T \subseteq Int /\ T # {}
    BY <2>1, <2>2, <2>3, ImageFinite
  <2>5. f[u] \in T
    BY <2>1
  <2> HIDE DEF T
  <2>6. Max(T) \in T /\ \A y \in T : Max(T) >= y
    BY <2>4, MaxExists
  <2>7. \E v \in A \cap D : Max(T) = f[v]
    BY <2>2, <2>6 DEF T
  <2>8. f[u] <= Max(T) /\ Max(T) \in Nat
    BY <2>1, <2>3, <2>5, <2>6, <2>7
  <2>9. T = tops(u)
    BY DEF T, A
  <2>10. QED
    BY <2>7, <2>8, <2>9 DEF A
<1> HIDE DEF tops
<1>4. \A u \in Existing : level[u] = IF u \in Sharers(row) /\ D # {} THEN Max(tops(u)) ELSE 0
  BY <1>2
<1>5. level \in [Existing -> Nat]
  BY <1>2, <1>3
<1>6. ASSUME NEW u \in Existing
      PROVE  \/ level[u] = 0
             \/ u \in Sharers(row) /\ \E v \in Alike(u, Sharers(row)) \cap D : level[u] = f[v]
  BY <1>3, <1>4
<1>7. ASSUME NEW u \in D PROVE f[u] <= level[u]
  <2>1. CASE u \in Sharers(row)
    <3>1. D # {} /\ u \in Existing
      BY <1>1
    <3>2. QED
      BY <1>3, <1>4, <2>1, <3>1
  <2>2. CASE u \notin Sharers(row)
    BY <1>1, <1>4, <2>2
  <2>3. QED
    BY <2>1, <2>2
<1>8. QED
  BY <1>5, <1>6, <1>7

(***************************************************************************)
(* The fees: what is missing is added to the cent.                         *)
(***************************************************************************)

Smallest(classes) ==
    CHOOSE c \in classes : \A d \in classes :
        \/ Cardinality(c) < Cardinality(d)
        \/ Cardinality(c) = Cardinality(d) /\ Min(c) <= Min(d)

LEMMA SmallestExists ==
  ASSUME NEW classes, IsFiniteSet(classes), classes # {},
         \A c \in classes : IsFiniteSet(c) /\ c \subseteq Int /\ c # {}
  PROVE  Smallest(classes) \in classes
<1> DEFINE card == [c \in classes |-> Cardinality(c)]
           sizes == {card[c] : c \in classes}
           least == {c \in classes : card[c] = Min(sizes)}
           low == [c \in least |-> Min(c)]
           lows == {low[c] : c \in least}
<1>1. \A c \in classes : card[c] = Cardinality(c) /\ card[c] \in Nat
  BY FS_CardinalityType
<1>2. IsFiniteSet(sizes) /\ sizes \subseteq Int /\ sizes # {}
  <2> HIDE DEF card
  <2>1. QED
    BY <1>1, ImageFinite
<1>3. Min(sizes) \in sizes /\ \A y \in sizes : Min(sizes) <= y
  <2> HIDE DEF sizes
  <2>1. QED
    BY <1>2, MinExists
<1>4. \A c \in classes : Min(sizes) <= card[c]
  BY <1>3
<1>5. IsFiniteSet(least) /\ least # {} /\ least \subseteq classes
  <2> HIDE DEF card
  <2>1. QED
    BY <1>3, FS_Subset
<1>6. \A c \in least : low[c] = Min(c) /\ low[c] \in Int
  <2> SUFFICES ASSUME NEW c \in least PROVE Min(c) \in Int
    OBVIOUS
  <2>1. IsFiniteSet(c) /\ c \subseteq Int /\ c # {}
    BY <1>5
  <2>2. Min(c) \in c
    BY <2>1, MinExists
  <2>3. QED
    BY <2>1, <2>2
<1>7. IsFiniteSet(lows) /\ lows \subseteq Int /\ lows # {}
  <2> HIDE DEF low, least
  <2>1. QED
    BY <1>5, <1>6, ImageFinite
<1>8. Min(lows) \in lows /\ \A y \in lows : Min(lows) <= y
  <2> HIDE DEF lows
  <2>1. QED
    BY <1>7, MinExists
<1>9. PICK c \in least : low[c] = Min(lows)
  <2> HIDE DEF low, least
  <2>1. QED
    BY <1>8
<1>10. \A d \in least : Min(c) <= Min(d)
  BY <1>6, <1>8, <1>9
<1>11. c \in classes /\ card[c] = Min(sizes)
  OBVIOUS
<1>12. ASSUME NEW d \in classes
       PROVE  \/ Cardinality(c) < Cardinality(d)
              \/ Cardinality(c) = Cardinality(d) /\ Min(c) <= Min(d)
  <2>1. CASE d \in least
    BY <1>1, <1>10, <1>11, <2>1
  <2>2. CASE d \notin least
    <3>1. card[d] # Min(sizes) /\ Min(sizes) <= card[d]
      BY <1>4, <2>2
    <3> HIDE DEF sizes
    <3>2. QED
      BY <1>1, <1>11, <3>1
  <2>3. QED
    BY <2>1, <2>2
<1>13. QED
  BY <1>11, <1>12 DEF Smallest

\* The rounds are no more than the smallest class can be paid for.
LEMMA MovesFit ==
  ASSUME NEW limit \in Nat, NEW missing \in Nat, NEW size \in Nat, size > 0
  PROVE  /\ Min({limit, missing \div size}) \in Nat
         /\ missing - Min({limit, missing \div size}) * size \in Nat
<1> DEFINE q == missing \div size
           T == {limit, q}
<1>1. q \in Nat /\ q * size <= missing
  <2>1. missing = size * q + (missing % size) /\ missing % size \in 0..(size - 1) /\ q \in Nat
    OBVIOUS
  <2> HIDE DEF q
  <2>2. size * q = q * size /\ missing % size >= 0 /\ missing % size \in Int /\ q * size \in Int
    BY <2>1
  <2>3. QED
    BY <2>1, <2>2
<1> HIDE DEF q
<1>2. IsFiniteSet(T) /\ T \subseteq Int /\ T # {}
  <2>1. T = {limit} \cup {q} /\ IsFiniteSet({limit})
    BY FS_Singleton
  <2>2. IsFiniteSet(T)
    BY <2>1, FS_AddElement
  <2>3. QED
    BY <1>1, <2>2
<1> DEFINE m == Min(T)
<1>3. m \in T /\ \A y \in T : m <= y
  <2> HIDE DEF T
  <2>1. QED
    BY <1>2, MinExists
<1> HIDE DEF m
<1>4. m \in Nat /\ m <= q
  BY <1>1, <1>3
<1>5. m * size <= q * size /\ m * size \in Int
  <2>1. q * size = m * size + (q - m) * size
    BY <1>1, <1>4
  <2>2. q - m \in Nat /\ \A i, j \in Nat : i * j \in Nat
    BY <1>1, <1>4
  <2>3. (q - m) * size \in Nat /\ m * size \in Nat
    BY <1>4, <2>2
  <2>4. QED
    BY <2>1, <2>3
<1>6. missing - m * size \in Nat
  BY <1>1, <1>5
<1>7. QED
  BY <1>4, <1>6 DEF m, T, q

\* Every cent that was missing is charged to somebody.
LEMMA AddMissingAdds ==
  ASSUME FeeParameters, NEW level \in [Existing -> Nat], NEW sharers, sharers \subseteq Existing,
         sharers # {}, NEW missing \in Nat
  PROVE  /\ AddMissing(level, sharers, missing) \in [Existing -> Int]
         /\ Sum(AddMissing(level, sharers, missing), Existing) = Sum(level, Existing) + missing
<1> DEFINE classes == {Alike(u, sharers) : u \in sharers}
           smallest == Smallest(classes)
           size     == Cardinality(smallest)
           moves    == Min({MaxMoves, missing \div size})
           bump     == [u \in Existing |-> IF u \in smallest THEN moves ELSE 0]
           lifted   == [u \in Existing |-> level[u] + IF u \in smallest THEN moves ELSE 0]
           paying   == {u \in Existing : lifted[u] > 0}
           P        == IF paying = {} THEN Existing ELSE paying
           left     == missing - moves * size
           rest     == Distribute(left, P)
           extra    == [u \in Existing |-> IF u \in DOMAIN rest THEN rest[u] ELSE 0]
           all      == [u \in Existing |-> lifted[u] + IF u \in DOMAIN rest THEN rest[u] ELSE 0]
<1>1. all = AddMissing(level, sharers, missing)
  BY DEF AddMissing, Smallest
<1>2. IsFiniteSet(Existing) /\ Existing \subseteq Int /\ Existing # {} /\ IsFiniteSet(sharers)
  BY ExistingFinite, FS_Subset
<1>3. smallest \in classes
  <2> DEFINE f == [u \in sharers |-> Alike(u, sharers)]
  <2>1. classes = {f[u] : u \in sharers}
    OBVIOUS
  <2>2. IsFiniteSet({f[u] : u \in sharers})
    <3> HIDE DEF f
    <3>1. QED
      BY <1>2, ImageFinite
  <2>3. ASSUME NEW c \in classes PROVE IsFiniteSet(c) /\ c \subseteq Int /\ c # {}
    <3>1. PICK u \in sharers : c = Alike(u, sharers)
      BY <2>3
    <3>2. u \in c /\ c \subseteq sharers
      BY <3>1 DEF Alike
    <3>3. QED
      BY <1>2, <3>2, FS_Subset
  <2>4. IsFiniteSet(classes) /\ classes # {}
    BY <2>1, <2>2
  <2> HIDE DEF classes
  <2>5. QED
    BY <2>3, <2>4, SmallestExists
<1>4. smallest \subseteq Existing /\ smallest # {} /\ IsFiniteSet(smallest)
  <2>1. PICK u \in sharers : smallest = Alike(u, sharers)
    BY <1>3
  <2>2. u \in smallest /\ smallest \subseteq sharers
    BY <2>1 DEF Alike
  <2>3. QED
    BY <1>2, <2>2, FS_Subset
<1> HIDE DEF smallest
<1>5. size \in Nat /\ size > 0
  BY <1>4, FS_CardinalityType, FS_EmptySet
<1>6. moves \in Nat /\ left \in Nat
  <2> HIDE DEF size
  <2>1. QED
    BY <1>5, MovesFit DEF FeeParameters
<1> HIDE DEF moves
<1>7. \A u \in Existing : /\ level[u] \in Int /\ bump[u] \in Int
                          /\ lifted[u] = level[u] + bump[u] /\ lifted[u] \in Int
  BY <1>6
<1>8. Sum(bump, Existing) = moves * size
  <2>1. \A u \in Existing : bump[u] \in Int
    BY <1>6
  <2>2. \A u \in Existing \ smallest : bump[u] = 0
    OBVIOUS
  <2>3. \A u \in smallest : bump[u] = moves
    BY <1>4
  <2> HIDE DEF bump
  <2>4. Sum(bump, Existing) = Sum(bump, smallest)
    BY <1>2, <1>4, <2>1, <2>2, SumSupport
  <2>5. moves \in Int
    BY <1>6
  <2>6. QED
    BY <1>4, <2>3, <2>4, <2>5, SumConstant
<1>9. Sum(lifted, Existing) = Sum(level, Existing) + Sum(bump, Existing)
  <2> HIDE DEF lifted, bump
  <2>1. \A u \in Existing : level[u] \in Int /\ bump[u] \in Int /\ lifted[u] = level[u] + bump[u]
    BY <1>7
  <2>2. QED
    BY <1>2, <2>1, SumPlus
<1>10. P \subseteq Existing /\ P # {}
  BY <1>2
<1>11. IsFiniteSet(P) /\ P \subseteq Int
  BY <1>2, <1>10, FS_Subset
<1> HIDE DEF P, left
<1>12. rest \in [P -> Nat] /\ Sum(rest, P) = left
  BY <1>6, <1>10, <1>11, DistributeAddsUp
<1> HIDE DEF rest
<1>13. Sum(extra, Existing) = left
  <2>1. \A u \in Existing : extra[u] \in Int
    BY <1>12
  <2>2. \A u \in Existing \ P : extra[u] = 0
    BY <1>12
  <2>3. \A u \in P : extra[u] = rest[u]
    BY <1>10, <1>12
  <2> HIDE DEF extra
  <2>4. Sum(extra, Existing) = Sum(extra, P)
    BY <1>2, <1>10, <2>1, <2>2, SumSupport
  <2>5. Sum(extra, P) = Sum(rest, P)
    BY <1>11, <2>3, SumSame
  <2>6. QED
    BY <1>12, <2>4, <2>5
<1>14. \A u \in Existing : extra[u] \in Int /\ all[u] = lifted[u] + extra[u]
  BY <1>12
<1>15. Sum(all, Existing) = Sum(lifted, Existing) + Sum(extra, Existing)
  <2> HIDE DEF lifted, extra, all
  <2>1. \A u \in Existing : lifted[u] \in Int /\ extra[u] \in Int /\ all[u] = lifted[u] + extra[u]
    BY <1>7, <1>14
  <2>2. QED
    BY <1>2, <2>1, SumPlus
<1>16. all \in [Existing -> Int]
  BY <1>7, <1>12
<1>17. Sum(level, Existing) \in Int
  BY <1>2, <1>7, SumInt
<1>18. moves * size + left = missing
  <2> HIDE DEF size
  <2>1. moves * size \in Int
    BY <1>5, <1>6
  <2>2. QED
    BY <1>6, <2>1 DEF left
<1>19. Sum(all, Existing) = Sum(level, Existing) + missing
  <2> HIDE DEF all, lifted, extra, bump, size
  <2>1. moves * size \in Int
    BY <1>5, <1>6
  <2>2. QED
    BY <1>6, <1>8, <1>9, <1>13, <1>15, <1>17, <1>18, <2>1
<1>20. QED
  BY <1>1, <1>16, <1>19

\* The fees of an expense cover it, and are its levelled rows if no row is missing.
LEMMA EqualizedCovers ==
  ASSUME FeeParameters, NEW row \in Row, DOMAIN row.shares \subseteq Existing, Existing # {}
  PROVE  /\ Equalized(row) \in [Existing -> Int]
         /\ Sum(Equalized(row), Existing) >= row.amount
         /\ Given(row) = row.amount => Equalized(row) = Levelled(row)
<1> DEFINE level == Levelled(row)
           missing == row.amount - Sum(level, Existing)
           D == DOMAIN row.shares
<1>1. /\ level \in [Existing -> Nat]
      /\ \A u \in D : row.shares[u] <= level[u]
  BY LevelledIs
<1>2. /\ IsFiniteSet(Existing) /\ row.amount \in Nat /\ IsFiniteSet(D)
      /\ \A u \in D : row.shares[u] \in Nat
  BY ExistingFinite, RowType
<1>3. Sharers(row) \subseteq Existing /\ Sharers(row) # {}
  BY SharersExist
<1> HIDE DEF level
<1>4. Sum(level, Existing) \in Nat
  BY <1>1, <1>2, SumNat
<1>5. Equalized(row) = IF missing <= 0 THEN level ELSE AddMissing(level, Sharers(row), missing)
  BY DEF Equalized, level
<1>6. ASSUME ~(missing <= 0)
      PROVE  /\ AddMissing(level, Sharers(row), missing) \in [Existing -> Int]
             /\ Sum(AddMissing(level, Sharers(row), missing), Existing)
                  = Sum(level, Existing) + missing
  <2>1. missing \in Nat
    BY <1>2, <1>4, <1>6
  <2> HIDE DEF missing
  <2>2. QED
    BY <1>1, <1>3, <2>1, AddMissingAdds
<1>7. Equalized(row) \in [Existing -> Int]
  BY <1>1, <1>5, <1>6
<1>8. Sum(Equalized(row), Existing) >= row.amount
  <2>1. CASE missing <= 0
    BY <1>2, <1>4, <1>5, <2>1
  <2>2. CASE ~(missing <= 0)
    <3>1. Sum(Equalized(row), Existing) = Sum(level, Existing) + missing
      BY <1>5, <1>6, <2>2
    <3>2. QED
      BY <1>2, <1>4, <3>1
  <2>3. QED
    BY <2>1, <2>2
<1>9. ASSUME Given(row) = row.amount PROVE missing <= 0
  <2>1. Sum(row.shares, D) <= Sum(level, D)
    <3> DEFINE f == row.shares
    <3>1. \A u \in D : f[u] \in Int /\ level[u] \in Int /\ f[u] <= level[u]
      BY <1>1, <1>2
    <3> HIDE DEF f, D
    <3>2. Sum(f, D) <= Sum(level, D)
      BY <1>2, <3>1, SumMonotone
    <3>3. QED
      BY <3>2 DEF f
  <2>2. Sum(level, D) <= Sum(level, Existing)
    <3> DEFINE part == [u \in Existing |-> IF u \in D THEN level[u] ELSE 0]
    <3>1. \A u \in Existing : /\ part[u] \in Int /\ level[u] \in Int
                              /\ part[u] <= level[u]
      BY <1>1
    <3>2. \A u \in Existing \ D : part[u] = 0
      OBVIOUS
    <3>3. D \in SUBSET Existing /\ \A u \in D : part[u] = level[u]
      OBVIOUS
    <3> HIDE DEF part, D
    <3>4. Sum(part, Existing) <= Sum(level, Existing)
      BY <1>2, <3>1, SumMonotone
    <3>5. Sum(part, Existing) = Sum(part, D)
      BY <1>2, <3>1, <3>2, <3>3, SumSupport
    <3>6. Sum(part, D) = Sum(level, D)
      BY <1>2, <3>3, SumSame
    <3>7. QED
      BY <3>4, <3>5, <3>6
  <2>3. Sum(row.shares, D) = row.amount
    BY <1>9 DEF Given
  <2>4. Sum(level, D) \in Int
    BY <1>1, <1>2, SumInt
  <2>5. QED
    BY <1>2, <1>4, <2>1, <2>2, <2>3, <2>4
<1>10. QED
  BY <1>5, <1>7, <1>8, <1>9 DEF level

(***************************************************************************)
(* The fees of the month.                                                  *)
(***************************************************************************)

Fee(t) == Equalized(expenses[t])

LEMMA CountedRows ==
  ASSUME FeeParameters, SInv
  PROVE  /\ IsFiniteSet(Counted)
         /\ \A t \in Counted : /\ expenses[t] \in Row /\ Left(expenses[t])
                               /\ DOMAIN expenses[t].shares \subseteq Existing
                               /\ expenses[t].amount \in Nat
<1>1. Counted \subseteq Expenses /\ Counted \subseteq Stored
  BY DEF Counted, Stored
<1>2. \A t \in Counted : expenses[t] \in Row /\ Left(expenses[t])
  BY <1>1 DEF SInv, Stored
<1>3. QED
  BY <1>1, <1>2, FS_Subset DEF FeeParameters, Left, Row

LEMMA RawType ==
  ASSUME FeeParameters, SInv, Existing # {}
  PROVE  /\ \A t \in Counted : Fee(t) \in [Existing -> Int]
         /\ \A u \in Existing : Raw(u) \in Int
<1>1. \A t \in Counted : Fee(t) \in [Existing -> Int]
  BY CountedRows, EqualizedCovers DEF Fee
<1>2. ASSUME NEW u \in Existing PROVE Raw(u) \in Int
  <2> DEFINE f == [t \in Counted |-> Fee(t)[u]]
  <2>1. \A t \in Counted : f[t] \in Int
    BY <1>1
  <2>2. Raw(u) = Sum(f, Counted)
    BY DEF Raw, Fee
  <2> HIDE DEF f
  <2>3. Sum(f, Counted) \in Int
    BY <2>1, CountedRows, SumInt
  <2>4. QED
    BY <2>2, <2>3
<1>3. QED
  BY <1>1, <1>2

\* Of the units of a class one has the fee that all are charged.
LEMMA DueIs ==
  ASSUME FeeParameters, SInv, NEW u \in Existing
  PROVE  /\ Due(u) \in Int /\ Raw(u) <= Due(u)
         /\ \E v \in Alike(u, Existing) : Due(u) = Raw(v)
<1> DEFINE A == Alike(u, Existing)
           raw == [v \in Existing |-> Raw(v)]
           T == {raw[v] : v \in A}
<1>1. u \in A /\ A \subseteq Existing
  BY DEF Alike
<1>2. IsFiniteSet(A)
  BY <1>1, ExistingFinite, FS_Subset
<1> HIDE DEF A
<1>3. \A v \in A : raw[v] \in Int /\ raw[v] = Raw(v)
  BY <1>1, RawType
<1>4. T = {Raw(v) : v \in A}
  BY <1>3
<1> HIDE DEF raw
<1>5. IsFiniteSet(T) /\ T \subseteq Int /\ T # {}
  BY <1>1, <1>2, <1>3, ImageFinite
<1>6. raw[u] \in T
  BY <1>1
<1> HIDE DEF T
<1>7. Max(T) \in T /\ \A y \in T : Max(T) >= y
  BY <1>5, MaxExists
<1>8. Due(u) = Max(T)
  BY <1>4 DEF Due, A
<1>9. \E v \in A : Max(T) = Raw(v)
  BY <1>4, <1>7
<1>10. QED
  BY <1>1, <1>3, <1>5, <1>6, <1>7, <1>8, <1>9 DEF A

LEMMA RawCovers ==
  ASSUME FeeParameters, SInv, Existing # {}
  PROVE  Sum([t \in Counted |-> expenses[t].amount], Counted)
           <= Sum([u \in Existing |-> Raw(u)], Existing)
<1> DEFINE row == [t \in Counted |-> Fee(t)]
           column == [u \in Existing |-> [t \in Counted |-> Equalized(expenses[t])[u]]]
           paid == [t \in Counted |-> Sum(row[t], Existing)]
           amounts == [t \in Counted |-> expenses[t].amount]
           raw == [u \in Existing |-> Raw(u)]
<1>1. IsFiniteSet(Counted) /\ IsFiniteSet(Existing)
  BY CountedRows, ExistingFinite
<1>2. \A t \in Counted : \A u \in Existing : row[t][u] \in Int /\ column[u][t] = row[t][u]
  BY RawType DEF Fee
<1>3. \A u \in Existing : raw[u] = Sum(column[u], Counted)
  BY DEF Raw
<1>4. \A t \in Counted : paid[t] = Sum(row[t], Existing)
  OBVIOUS
<1>5. Sum(paid, Counted) = Sum(raw, Existing)
  <2> HIDE DEF row, column, paid, raw
  <2>1. /\ Totals(paid, row, Counted, Existing) /\ Totals(raw, column, Existing, Counted)
        /\ Transposed(row, column, Counted, Existing)
    BY <1>2, <1>3, <1>4 DEF Totals, Transposed
  <2>2. QED
    BY <1>1, <2>1, SumSwap
<1>6. ASSUME NEW t \in Counted
      PROVE  amounts[t] \in Int /\ paid[t] \in Int /\ amounts[t] <= paid[t]
  <2>1. expenses[t] \in Row /\ DOMAIN expenses[t].shares \subseteq Existing /\ expenses[t].amount \in Nat
    BY CountedRows
  <2>2. row[t] = Equalized(expenses[t])
    BY DEF Fee
  <2>3. Sum(Equalized(expenses[t]), Existing) >= expenses[t].amount
    BY <2>1, EqualizedCovers
  <2>4. Sum(row[t], Existing) \in Int
    <3> HIDE DEF row
    <3>1. QED
      BY <1>1, <1>2, SumInt
  <2>5. QED
    BY <2>1, <2>2, <2>3, <2>4
<1>7. Sum(amounts, Counted) <= Sum(paid, Counted)
  <2> HIDE DEF amounts, paid
  <2>1. QED
    BY <1>1, <1>6, SumMonotone
<1>8. QED
  BY <1>5, <1>7

\* As long as the condominium has a unit the fees of the month pay its expenses, whatever
\* units and groupings were added, renamed or removed since the expenses were split: what
\* the rows lack is added to the cent, and levelling only raises a fee.
THEOREM FeesCoverExpenses == ASSUME FeeParameters PROVE Spec => []ExpensesCovered
<1>1. ASSUME SInv, Existing # {}
      PROVE  Sum([u \in Existing |-> Due(u)], Existing)
               >= Sum([t \in Counted |-> expenses[t].amount], Counted)
  <2> DEFINE raw == [u \in Existing |-> Raw(u)]
             due == [u \in Existing |-> Due(u)]
             amounts == [t \in Counted |-> expenses[t].amount]
  <2>1. \A u \in Existing : raw[u] \in Int /\ due[u] \in Int /\ raw[u] <= due[u]
    BY <1>1, DueIs, RawType
  <2>2. IsFiniteSet(Existing) /\ IsFiniteSet(Counted)
    BY <1>1, ExistingFinite, CountedRows
  <2>3. \A t \in Counted : amounts[t] \in Int
    BY <1>1, CountedRows
  <2>4. Sum(amounts, Counted) <= Sum(raw, Existing)
    BY <1>1, RawCovers
  <2> HIDE DEF raw, due, amounts
  <2>5. Sum(raw, Existing) <= Sum(due, Existing)
    BY <2>1, <2>2, SumMonotone
  <2>6. Sum(amounts, Counted) \in Int /\ Sum(raw, Existing) \in Int /\ Sum(due, Existing) \in Int
    BY <2>1, <2>2, <2>3, SumInt
  <2>7. Sum(due, Existing) >= Sum(amounts, Counted)
    BY <2>4, <2>5, <2>6
  <2>8. QED
    BY <2>7 DEF due, amounts
<1>2. SInv => ExpensesCovered
  BY <1>1 DEF ExpensesCovered
<1>3. QED
  BY <1>2, SharesInvariant, PTL

\* The part of a unit in an expense is that of its class.
LEMMA PartIs ==
  ASSUME FeeParameters, NEW row \in Row, DOMAIN row.shares \subseteq Existing,
         NEW u \in Existing, NEW v \in Alike(u, Existing)
  PROVE  Part(v, row) = Part(u, row) /\ Part(u, row) \in Nat
<1>1. Alike(v, Existing) = Alike(u, Existing)
  BY DEF Alike
<1> DEFINE n == Cardinality(DOMAIN row.shares)
<1>2. n \in Nat /\ row.amount \in Nat /\ IsFiniteSet(DOMAIN row.shares)
  BY RowType
<1>3. CASE Alike(u, Existing) \cap DOMAIN row.shares = {}
  BY <1>1, <1>3 DEF Part
<1>4. CASE Alike(u, Existing) \cap DOMAIN row.shares # {}
  <2>1. n # 0
    BY <1>2, <1>4, FS_EmptySet
  <2>2. (row.amount + n - 1) \div n \in Nat
    <3> HIDE DEF n
    <3>1. n > 0 /\ row.amount + n - 1 \in Nat
      BY <1>2, <2>1
    <3>2. \A a \in Nat : a \div n \in Nat
      BY <1>2, <3>1
    <3>3. QED
      BY <3>1, <3>2
  <2>3. QED
    BY <1>1, <1>4, <2>2 DEF Part
<1>5. QED
  BY <1>3, <1>4

\* A number of which a has n is at most the quotient.
LEMMA QuotientBound ==
  ASSUME NEW s \in Nat, NEW a \in Nat, NEW n \in Nat \ {0}, s * n <= a
  PROVE  s <= a \div n
<1>1. a = n * (a \div n) + (a % n) /\ a % n \in 0..(n - 1) /\ a \div n \in Nat
  OBVIOUS
<1>2. PICK q \in Nat, r \in 0..(n - 1) : a = n * q + r /\ q = a \div n
  BY <1>1
<1>3. CASE s >= q + 1
  <2>1. s - (q + 1) \in Nat /\ s = (q + 1) + (s - (q + 1))
    BY <1>3
  <2>2. PICK d \in Nat : s = q + 1 + d
    BY <2>1
  <2>3. s * n = n * q + n + d * n /\ d * n \in Nat /\ n * q \in Nat
    BY <2>2
  <2>4. QED
    BY <2>3, <1>2
<1>4. QED
  BY <1>2, <1>3

\* What is levelled is the share of a unit of the class, which is at most an equal part.
LEMMA LevelIsPart ==
  ASSUME FeeParameters, NEW row \in Row, Fair(row), DOMAIN row.shares \subseteq Existing,
         NEW u \in Existing
  PROVE  Levelled(row)[u] <= Part(u, row)
<1> DEFINE n == Cardinality(DOMAIN row.shares)
<1>1. CASE Levelled(row)[u] = 0
  <2>1. u \in Alike(u, Existing)
    BY DEF Alike
  <2>2. Part(u, row) \in Nat
    BY <2>1, PartIs
  <2>3. QED
    BY <1>1, <2>2
<1>2. ASSUME NEW v \in Alike(u, Sharers(row)) \cap DOMAIN row.shares,
             Levelled(row)[u] = row.shares[v]
      PROVE  Levelled(row)[u] <= Part(u, row)
  <2>1. v \in Alike(u, Existing) \cap DOMAIN row.shares
    BY DEF Alike
  <2>2. Part(u, row) = (row.amount + n - 1) \div n
    BY <2>1 DEF Part
  <2>3. /\ row.shares[v] \in Nat /\ n \in Nat /\ row.amount \in Nat
        /\ row.shares[v] * n <= row.amount + n - 1 /\ IsFiniteSet(DOMAIN row.shares)
    BY <1>2, RowType DEF Fair
  <2>4. n # 0
    BY <2>1, <2>3, FS_EmptySet
  <2> HIDE DEF n
  <2>5. n \in Nat \ {0}
    BY <2>3, <2>4
  <2>6. row.amount + n - 1 \in Nat
    BY <2>3, <2>4
  <2>7. QED
    BY <1>2, <2>2, <2>3, <2>5, <2>6, QuotientBound
<1>3. QED
  BY <1>1, <1>2, LevelledIs

\* Nobody pays more for the units that are alike: as long as every unit that was to share
\* an expense exists, a unit is charged at most the equal part of each expense its class
\* has a row of, rounded up to a cent, and nothing for the others.
THEOREM NobodyPaysMore == ASSUME FeeParameters PROVE Spec => []NobodyOvercharged
<1>1. ASSUME SInv, \A t \in Counted : Given(expenses[t]) = expenses[t].amount,
             NEW u \in Existing
      PROVE  Due(u) <= Sum([t \in Counted |-> Part(u, expenses[t])], Counted)
  <2>1. PICK v \in Alike(u, Existing) : Due(u) = Raw(v)
    BY <1>1, DueIs
  <2>2. v \in Existing /\ v \in Alike(v, Existing)
    BY <2>1 DEF Alike
  <2> DEFINE f == [t \in Counted |-> Equalized(expenses[t])[v]]
             g == [t \in Counted |-> Part(u, expenses[t])]
  <2>3. ASSUME NEW t \in Counted PROVE f[t] \in Int /\ g[t] \in Int /\ f[t] <= g[t]
    <3> DEFINE row == expenses[t]
    <3>1. row \in Row /\ Fair(row) /\ DOMAIN row.shares \subseteq Existing
      BY <1>1, CountedRows DEF Left
    <3>2. Given(row) = row.amount
      BY <1>1
    <3> HIDE DEF row
    <3>3. Equalized(row) = Levelled(row)
      BY <2>2, <3>1, <3>2, EqualizedCovers
    <3>4. Levelled(row)[v] <= Part(v, row) /\ Levelled(row) \in [Existing -> Nat]
      BY <2>2, <3>1, LevelIsPart, LevelledIs
    <3>5. Part(v, row) = Part(u, row) /\ Part(u, row) \in Nat
      BY <1>1, <3>1, PartIs
    <3>6. f[t] = Levelled(row)[v] /\ g[t] = Part(u, row)
      BY <3>3 DEF row
    <3>7. QED
      BY <2>2, <3>4, <3>5, <3>6
  <2>4. Raw(v) = Sum(f, Counted)
    BY DEF Raw
  <2> HIDE DEF f, g
  <2>5. Sum(f, Counted) <= Sum(g, Counted)
    BY <1>1, <2>3, CountedRows, SumMonotone
  <2>6. QED
    BY <2>1, <2>4, <2>5 DEF g
<1>2. SInv => NobodyOvercharged
  BY <1>1 DEF NobodyOvercharged, Given
<1>3. QED
  BY <1>2, SharesInvariant, PTL

===============================================================================
