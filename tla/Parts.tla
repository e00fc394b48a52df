------------------------------- MODULE Parts --------------------------------
(***************************************************************************)
(* The components that share no rows with another one, side by side: the   *)
(* initial state chooses one of them, and only that one moves.  `part`     *)
(* names it; "elsewhere" stands for a component that is none of them.  The *)
(* variables x1 to x13 are those of the part, in the order in which its    *)
(* module declares them; those a part has no use for are None.             *)
(*                                                                         *)
(* The parameters of a part are the fields of a record, named as in its    *)
(* module.                                                                 *)
(***************************************************************************)
CONSTANTS
    None,
    OfPeople, OfGovernance, OfTimelines, OfMessages, OfAccruals, OfFees, OfCodes, OfPlans,
    OfTickets

VARIABLES part, x1, x2, x3, x4, x5, x6, x7, x8, x9, x10, x11, x12, x13

others == <<x1, x2, x3, x4, x5, x6, x7, x8, x9, x10, x11, x12, x13>>
partVars == <<part, others>>

\* Accounts, people of units and invitations.
People == INSTANCE PeopleInvitations WITH
    Emails <- OfPeople.Emails, Phones <- OfPeople.Phones, Units <- OfPeople.Units,
    Slots <- OfPeople.Slots, MaxAccounts <- OfPeople.MaxAccounts,
    MaxPeople <- OfPeople.MaxPeople, MaxInvites <- OfPeople.MaxInvites,
    MaxRequests <- OfPeople.MaxRequests, MaxCrashes <- OfPeople.MaxCrashes,
    accounts <- x1, people <- x2, units <- x3, links <- x4, invites <- x5, calls <- x6,
    requests <- x7, crashed <- x8

InitPeople ==
    /\ part = "people" /\ People!Init
    /\ x9 = None /\ x10 = None /\ x11 = None /\ x12 = None /\ x13 = None

\* Roles of the assembly and minutes of elections.
Governance == INSTANCE AssemblyGovernance WITH
    Users <- OfGovernance.Users, Owner <- OfGovernance.Owner,
    Responsible <- OfGovernance.Responsible, Docs <- OfGovernance.Docs,
    Polls <- OfGovernance.Polls, Slots <- OfGovernance.Slots,
    MaxRequests <- OfGovernance.MaxRequests, MaxStops <- OfGovernance.MaxStops,
    roles <- x1, log <- x2, docs <- x3, closed <- x4, tasks <- x5, asked <- x6, stops <- x7

InitGovernance ==
    /\ part = "governance" /\ Governance!Init
    /\ x8 = None /\ x9 = None /\ x10 = None /\ x11 = None /\ x12 = None /\ x13 = None

\* Works, maintenances and what is linked to them.
Timelines == INSTANCE WorkTimelines WITH
    Engines <- OfTimelines.Engines, Works <- OfTimelines.Works,
    Maintenances <- OfTimelines.Maintenances, Txs <- OfTimelines.Txs,
    Budgets <- OfTimelines.Budgets, MaxEntries <- OfTimelines.MaxEntries,
    MaxFiles <- OfTimelines.MaxFiles, MaxUpload <- OfTimelines.MaxUpload,
    Slots <- OfTimelines.Slots, MaxRequests <- OfTimelines.MaxRequests,
    MaxStops <- OfTimelines.MaxStops,
    engine <- x1, works <- x2, maintenances <- x3, txs <- x4, shown <- x5, entries <- x6,
    budgets <- x7, rows <- x8, stored <- x9, tasks <- x10, asked <- x11, stops <- x12,
    interrupted <- x13

InitTimelines == part = "timelines" /\ Timelines!Init

\* Communications and their deliveries.
Messages == INSTANCE Communications WITH
    Users <- OfMessages.Users, Units <- OfMessages.Units, Linked <- OfMessages.Linked,
    Contacts <- OfMessages.Contacts, Settings <- OfMessages.Settings,
    Files <- OfMessages.Files, Managers <- OfMessages.Managers,
    Readers <- OfMessages.Readers, MaxRequests <- OfMessages.MaxRequests,
    MaxReadings <- OfMessages.MaxReadings, MaxStops <- OfMessages.MaxStops,
    comm <- x1, recipients <- x2, links <- x3, handed <- x4, log <- x5, attached <- x6,
    stored <- x7, tasks <- x8, asked <- x9, read <- x10, stops <- x11

InitMessages == part = "messages" /\ Messages!Init /\ x12 = None /\ x13 = None

\* Monthly accruals of the funds.
Accruals == INSTANCE FundAccruals WITH
    Funds <- OfAccruals.Funds, Legacy <- OfAccruals.Legacy, Setups <- OfAccruals.Setups,
    MaxMonth <- OfAccruals.MaxMonth, MaxUnits <- OfAccruals.MaxUnits,
    MaxCents <- OfAccruals.MaxCents, MaxIds <- OfAccruals.MaxIds,
    MaxCalls <- OfAccruals.MaxCalls, MaxFaults <- OfAccruals.MaxFaults,
    Slots <- OfAccruals.Slots,
    plans <- x1, units <- x2, txs <- x3, accruals <- x4, closed <- x5, made <- x6,
    tasks <- x7, calls <- x8, faults <- x9, overlaps <- x10

InitAccruals == part = "accruals" /\ Accruals!Init /\ x11 = None /\ x12 = None /\ x13 = None

\* Shares of the expenses and the fees of a month.
Fees == INSTANCE FeeShares WITH
    Units <- OfFees.Units, Groupings <- OfFees.Groupings, Names <- OfFees.Names,
    Blank <- OfFees.Blank, Expenses <- OfFees.Expenses, Amounts <- OfFees.Amounts,
    Rules <- OfFees.Rules, WorkRule <- OfFees.WorkRule, MaxMoves <- OfFees.MaxMoves,
    MaxCalls <- OfFees.MaxCalls,
    home <- x1, name <- x2, expenses <- x3, job <- x4, calls <- x5

InitFees ==
    /\ part = "fees" /\ Fees!Init
    /\ x6 = None /\ x7 = None /\ x8 = None /\ x9 = None /\ x10 = None /\ x11 = None
    /\ x12 = None /\ x13 = None

\* One-time codes.
Codes == INSTANCE AccessCodes WITH
    Addresses <- OfCodes.Addresses, MaxCodes <- OfCodes.MaxCodes,
    MaxCalls <- OfCodes.MaxCalls, MaxStops <- OfCodes.MaxStops, Slots <- OfCodes.Slots,
    challenges <- x1, expired <- x2, issued <- x3, delivered <- x4, answered <- x5,
    tokens <- x6, tasks <- x7, calls <- x8, stops <- x9, overlaps <- x10

InitCodes == part = "codes" /\ Codes!Init /\ x11 = None /\ x12 = None /\ x13 = None

\* Plans, their bands and who uses them.
Plans == INSTANCE PlanCatalog WITH
    Users <- OfPlans.Users, Condominiums <- OfPlans.Condominiums, Prices <- OfPlans.Prices,
    Bands <- OfPlans.Bands, Patches <- OfPlans.Patches, MaxPlans <- OfPlans.MaxPlans,
    MaxUnits <- OfPlans.MaxUnits, MaxCalls <- OfPlans.MaxCalls,
    MaxStops <- OfPlans.MaxStops, Slots <- OfPlans.Slots,
    plans <- x1, made <- x2, planOf <- x3, condos <- x4, tasks <- x5, calls <- x6,
    stops <- x7, overlaps <- x8

InitPlans ==
    /\ part = "plans" /\ Plans!Init
    /\ x9 = None /\ x10 = None /\ x11 = None /\ x12 = None /\ x13 = None

\* Support tickets.
Support == INSTANCE SupportTickets WITH
    Tickets <- OfTickets.Tickets, MaxCalls <- OfTickets.MaxCalls,
    MaxFiles <- OfTickets.MaxFiles, MaxFaults <- OfTickets.MaxFaults,
    Slots <- OfTickets.Slots,
    status <- x1, messages <- x2, stored <- x3, closedAt <- x4, mails <- x5, answered <- x6,
    tasks <- x7, calls <- x8, faults <- x9, overlaps <- x10

InitSupport == part = "tickets" /\ Support!Init /\ x11 = None /\ x12 = None /\ x13 = None

InitElsewhere ==
    /\ part = "elsewhere"
    /\ x1 = None /\ x2 = None /\ x3 = None /\ x4 = None /\ x5 = None /\ x6 = None /\ x7 = None
    /\ x8 = None /\ x9 = None /\ x10 = None /\ x11 = None /\ x12 = None /\ x13 = None

InitParts ==
    \/ InitPeople \/ InitGovernance \/ InitTimelines \/ InitMessages \/ InitAccruals
    \/ InitFees \/ InitCodes \/ InitPlans \/ InitSupport \/ InitElsewhere

Rest8 == UNCHANGED <<x9, x10, x11, x12, x13>>
Rest10 == UNCHANGED <<x11, x12, x13>>

NextParts ==
    /\ \/ part = "people" /\ People!Next /\ Rest8
       \/ part = "governance" /\ Governance!Next /\ UNCHANGED x8 /\ Rest8
       \/ part = "timelines" /\ Timelines!Next
       \/ part = "messages" /\ Messages!Next /\ UNCHANGED <<x12, x13>>
       \/ part = "accruals" /\ Accruals!Next /\ Rest10
       \/ part = "fees" /\ Fees!Next /\ UNCHANGED <<x6, x7, x8>> /\ Rest8
       \/ part = "codes" /\ Codes!Next /\ Rest10
       \/ part = "plans" /\ Plans!Next /\ Rest8
       \/ part = "tickets" /\ Support!Next /\ Rest10
    /\ UNCHANGED part

SpecParts == InitParts /\ [][NextParts]_partVars

(***************************************************************************)
(* The properties, each of the component that runs.                        *)
(***************************************************************************)

\* Rows, requests and files of every component stay of their type, and rows refer
\* to rows that exist.
TypeOK ==
    /\ part = "people" => People!PeopleTypeOK
    /\ part = "governance" => Governance!GovernanceTypeOK
    /\ part = "timelines" => Timelines!TimelineTypeOK
    /\ part = "messages" => Messages!MessageTypeOK
    /\ part = "accruals" => Accruals!AccrualTypeOK
    /\ part = "fees" => Fees!ShareTypeOK
    /\ part = "codes" => Codes!CodeTypeOK
    /\ part = "plans" => Plans!PlanTypeOK
    /\ part = "tickets" => Support!TicketTypeOK

\* An invitation that is consumed has linked its guest, a person keeps its account, the
\* financial responsible is a responsible, and a guest has one open invitation to the
\* condominium.
ResidentsInOrder ==
    /\ [](part = "people" => People!FinancialIsResponsible /\ People!OneOpenInvite)
    /\ [][part = "people" => People!ConsumptionLinks /\ People!AccountStays]_partVars

\* The owner keeps the role of owner, an office has one holder, and every role that was
\* given or taken is in the audit log.
RolesInOrder ==
    part = "governance" =>
        Governance!OwnerRowStays /\ Governance!OneHolder /\ Governance!RolesAreLogged

\* Minutes of an election are published with the elected, and nobody else, in office, and
\* residents read them from their publication on.
ElectionInForce ==
    [][part = "governance" => Governance!ElectionSettles /\ Governance!ElectionShownByPublication]_partVars

\* The queue of works is their order, a transaction linked to a work is shown on its
\* timeline, and files, budgets and entries of a timeline fit together.
TimelinesInOrder ==
    part = "timelines" =>
        Timelines!QueueIsOrder /\ Timelines!LinkedIsShown /\ Timelines!TimelineInOrder

\* The links of a communication that was sent open, and its recipients are settled.
MessagesInOrder ==
    /\ [](part = "messages" => Messages!LinksLast)
    /\ [][part = "messages" => Messages!SendingSettles]_partVars

\* A month of a fund is accrued once, and a closed month has all its accruals, expenses of an
\* earlier release that were settled or cancelled by hand apart; the rows of an expense add up to it unless a unit was removed, the fees of a month cover its expenses,
\* and nobody is charged more than its part while no row is missing.
CostsShared ==
    /\ part = "accruals" => Accruals!AccruedOnce /\ Accruals!ClosedIsAccrued
    /\ part = "fees" => Fees!SharesAddUp /\ Fees!ExpensesCovered /\ Fees!NobodyOvercharged

\* A code that was replaced or spent is dead, one that was reported as sent works.
CodesInOrder ==
    part = "codes" => Codes!ReplacedIsDead /\ Codes!SpentIsDead /\ Codes!SentCodeWorks

\* There is a default plan, no plan in use is deleted, and every condominium has a price.
PlansInOrder ==
    part = "plans" =>
        /\ Plans!OneDefault /\ Plans!PlansKept
        /\ Plans!EveryUnitPriced /\ Plans!EveryCondominiumBilled

\* Messages are complete and announced, a closed ticket is quiet, an answered one taken.
TicketsInOrder ==
    part = "tickets" =>
        /\ Support!MessagesComplete /\ Support!MailShowsReply
        /\ Support!ClosedIsQuiet /\ Support!AnsweredIsTaken
=============================================================================
