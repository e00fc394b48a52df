----------------------------- MODULE Parts_proofs -----------------------------
(***************************************************************************)
(* The properties of Parts, of whichever component runs.                   *)
(*                                                                         *)
(* Those of one component are theorems of the module that holds its proofs.*)
(* That module is instantiated with the parameters and the variables of    *)
(* the part; what it declares for another component is None.  For each     *)
(* part a lemma Same... says that the component of the theorems is the one *)
(* Parts runs: both instantiate the same module in the same way, and their *)
(* definitions read alike once they are expanded.                          *)
(***************************************************************************)
EXTENDS Parts, Integers, TLAPS

(***************************************************************************)
(* One part runs, and keeps running.                                       *)
(***************************************************************************)

LEMMA PeopleRun ==
  SpecParts => \/ [](part = "people") /\ People!Spec
               \/ []~ (part = "people")
<1>1. InitParts => (part = "people" /\ People!Init) \/ ~ (part = "people")
  BY DEF InitParts, InitPeople, InitGovernance, InitTimelines, InitMessages, InitAccruals,
         InitFees, InitCodes, InitPlans, InitSupport, InitElsewhere
<1>2. part = "people" /\ [NextParts]_partVars =>
          (part = "people")' /\ [People!Next]_People!peopleVars
  BY DEF NextParts, partVars, others, People!peopleVars
<1>3. ~ (part = "people") /\ [NextParts]_partVars => ~ (part = "people")'
  BY DEF NextParts, partVars
<1>4. QED
  BY <1>1, <1>2, <1>3, PTL DEF SpecParts, People!Spec

LEMMA GovernanceRun ==
  SpecParts => \/ [](part = "governance") /\ Governance!Spec
               \/ []~ (part = "governance")
<1>1. InitParts => (part = "governance" /\ Governance!Init) \/ ~ (part = "governance")
  BY DEF InitParts, InitPeople, InitGovernance, InitTimelines, InitMessages, InitAccruals,
         InitFees, InitCodes, InitPlans, InitSupport, InitElsewhere
<1>2. part = "governance" /\ [NextParts]_partVars =>
          (part = "governance")' /\ [Governance!Next]_Governance!governanceVars
  BY DEF NextParts, partVars, others, Governance!governanceVars
<1>3. ~ (part = "governance") /\ [NextParts]_partVars => ~ (part = "governance")'
  BY DEF NextParts, partVars
<1>4. QED
  BY <1>1, <1>2, <1>3, PTL DEF SpecParts, Governance!Spec

LEMMA TimelinesRun ==
  SpecParts => \/ [](part = "timelines") /\ Timelines!Spec
               \/ []~ (part = "timelines")
<1>1. InitParts => (part = "timelines" /\ Timelines!Init) \/ ~ (part = "timelines")
  BY DEF InitParts, InitPeople, InitGovernance, InitTimelines, InitMessages, InitAccruals,
         InitFees, InitCodes, InitPlans, InitSupport, InitElsewhere
<1>2. part = "timelines" /\ [NextParts]_partVars =>
          (part = "timelines")' /\ [Timelines!Next]_Timelines!timelineVars
  BY DEF NextParts, partVars, others, Timelines!timelineVars
<1>3. ~ (part = "timelines") /\ [NextParts]_partVars => ~ (part = "timelines")'
  BY DEF NextParts, partVars
<1>4. QED
  BY <1>1, <1>2, <1>3, PTL DEF SpecParts, Timelines!Spec

LEMMA MessagesRun ==
  SpecParts => \/ [](part = "messages") /\ Messages!Spec
               \/ []~ (part = "messages")
<1>1. InitParts => (part = "messages" /\ Messages!Init) \/ ~ (part = "messages")
  BY DEF InitParts, InitPeople, InitGovernance, InitTimelines, InitMessages, InitAccruals,
         InitFees, InitCodes, InitPlans, InitSupport, InitElsewhere
<1>2. part = "messages" /\ [NextParts]_partVars =>
          (part = "messages")' /\ [Messages!Next]_Messages!messageVars
  BY DEF NextParts, partVars, others, Messages!messageVars
<1>3. ~ (part = "messages") /\ [NextParts]_partVars => ~ (part = "messages")'
  BY DEF NextParts, partVars
<1>4. QED
  BY <1>1, <1>2, <1>3, PTL DEF SpecParts, Messages!Spec

LEMMA AccrualsRun ==
  SpecParts => \/ [](part = "accruals") /\ Accruals!Spec
               \/ []~ (part = "accruals")
<1>1. InitParts => (part = "accruals" /\ Accruals!Init) \/ ~ (part = "accruals")
  BY DEF InitParts, InitPeople, InitGovernance, InitTimelines, InitMessages, InitAccruals,
         InitFees, InitCodes, InitPlans, InitSupport, InitElsewhere
<1>2. part = "accruals" /\ [NextParts]_partVars =>
          (part = "accruals")' /\ [Accruals!Next]_Accruals!accrualVars
  BY DEF NextParts, partVars, others, Accruals!accrualVars
<1>3. ~ (part = "accruals") /\ [NextParts]_partVars => ~ (part = "accruals")'
  BY DEF NextParts, partVars
<1>4. QED
  BY <1>1, <1>2, <1>3, PTL DEF SpecParts, Accruals!Spec

LEMMA FeesRun ==
  SpecParts => \/ [](part = "fees") /\ Fees!Spec
               \/ []~ (part = "fees")
<1>1. InitParts => (part = "fees" /\ Fees!Init) \/ ~ (part = "fees")
  BY DEF InitParts, InitPeople, InitGovernance, InitTimelines, InitMessages, InitAccruals,
         InitFees, InitCodes, InitPlans, InitSupport, InitElsewhere
<1>2. part = "fees" /\ [NextParts]_partVars =>
          (part = "fees")' /\ [Fees!Next]_Fees!shareVars
  BY DEF NextParts, partVars, others, Fees!shareVars
<1>3. ~ (part = "fees") /\ [NextParts]_partVars => ~ (part = "fees")'
  BY DEF NextParts, partVars
<1>4. QED
  BY <1>1, <1>2, <1>3, PTL DEF SpecParts, Fees!Spec

LEMMA CodesRun ==
  SpecParts => \/ [](part = "codes") /\ Codes!Spec
               \/ []~ (part = "codes")
<1>1. InitParts => (part = "codes" /\ Codes!Init) \/ ~ (part = "codes")
  BY DEF InitParts, InitPeople, InitGovernance, InitTimelines, InitMessages, InitAccruals,
         InitFees, InitCodes, InitPlans, InitSupport, InitElsewhere
<1>2. part = "codes" /\ [NextParts]_partVars =>
          (part = "codes")' /\ [Codes!Next]_Codes!codeVars
  BY DEF NextParts, partVars, others, Codes!codeVars
<1>3. ~ (part = "codes") /\ [NextParts]_partVars => ~ (part = "codes")'
  BY DEF NextParts, partVars
<1>4. QED
  BY <1>1, <1>2, <1>3, PTL DEF SpecParts, Codes!Spec

LEMMA PlansRun ==
  SpecParts => \/ [](part = "plans") /\ Plans!Spec
               \/ []~ (part = "plans")
<1>1. InitParts => (part = "plans" /\ Plans!Init) \/ ~ (part = "plans")
  BY DEF InitParts, InitPeople, InitGovernance, InitTimelines, InitMessages, InitAccruals,
         InitFees, InitCodes, InitPlans, InitSupport, InitElsewhere
<1>2. part = "plans" /\ [NextParts]_partVars =>
          (part = "plans")' /\ [Plans!Next]_Plans!planVars
  BY DEF NextParts, partVars, others, Plans!planVars
<1>3. ~ (part = "plans") /\ [NextParts]_partVars => ~ (part = "plans")'
  BY DEF NextParts, partVars
<1>4. QED
  BY <1>1, <1>2, <1>3, PTL DEF SpecParts, Plans!Spec

LEMMA TicketsRun ==
  SpecParts => \/ [](part = "tickets") /\ Support!Spec
               \/ []~ (part = "tickets")
<1>1. InitParts => (part = "tickets" /\ Support!Init) \/ ~ (part = "tickets")
  BY DEF InitParts, InitPeople, InitGovernance, InitTimelines, InitMessages, InitAccruals,
         InitFees, InitCodes, InitPlans, InitSupport, InitElsewhere
<1>2. part = "tickets" /\ [NextParts]_partVars =>
          (part = "tickets")' /\ [Support!Next]_Support!ticketVars
  BY DEF NextParts, partVars, others, Support!ticketVars
<1>3. ~ (part = "tickets") /\ [NextParts]_partVars => ~ (part = "tickets")'
  BY DEF NextParts, partVars
<1>4. QED
  BY <1>1, <1>2, <1>3, PTL DEF SpecParts, Support!Spec

(***************************************************************************)
(* What the parts keep, the whole keeps.                                   *)
(***************************************************************************)

LEMMA TypesGiven ==
  /\ (People!Spec => []People!PeopleTypeOK)
  /\ (Governance!Spec => []Governance!GovernanceTypeOK)
  /\ (Timelines!Spec => []Timelines!TimelineTypeOK)
  /\ (Messages!Spec => []Messages!MessageTypeOK)
  /\ (Accruals!Spec => []Accruals!AccrualTypeOK)
  /\ (Fees!Spec => []Fees!ShareTypeOK)
  /\ (Codes!Spec => []Codes!CodeTypeOK)
  /\ (Plans!Spec => []Plans!PlanTypeOK)
  /\ (Support!Spec => []Support!TicketTypeOK)
  => (SpecParts => []TypeOK)
BY PeopleRun, GovernanceRun, TimelinesRun, MessagesRun, AccrualsRun, FeesRun, CodesRun, PlansRun,
   TicketsRun, PTL DEF TypeOK

LEMMA ResidentsGiven ==
  /\ (People!Spec => /\ []People!FinancialIsResponsible
                     /\ []People!OneOpenInvite
                     /\ People!ConsumedIsLinked
                     /\ People!AccountKept)
  => (SpecParts => ResidentsInOrder)
<1>1. part = "people" /\ [NextParts]_partVars /\ [People!ConsumptionLinks]_People!peopleVars =>
          [part = "people" => People!ConsumptionLinks]_partVars
  BY DEF NextParts, partVars, others, People!peopleVars, Rest8
<1>2. ~ (part = "people") => [part = "people" => People!ConsumptionLinks]_partVars
  OBVIOUS
<1>3. part = "people" /\ [NextParts]_partVars /\ [People!AccountStays]_People!peopleVars =>
          [part = "people" => People!AccountStays]_partVars
  BY DEF NextParts, partVars, others, People!peopleVars, Rest8
<1>4. ~ (part = "people") => [part = "people" => People!AccountStays]_partVars
  OBVIOUS
<1>5. QED
  BY <1>1, <1>2, <1>3, <1>4, PeopleRun, PTL
     DEF ResidentsInOrder, SpecParts, People!ConsumedIsLinked, People!AccountKept

LEMMA RolesGiven ==
  /\ (Governance!Spec => /\ []Governance!OwnerRowStays
                         /\ []Governance!OneHolder
                         /\ []Governance!RolesAreLogged)
  => (SpecParts => []RolesInOrder)
BY GovernanceRun, PTL DEF RolesInOrder

LEMMA ElectionGiven ==
  /\ (Governance!Spec => /\ Governance!ElectionInForce
                         /\ Governance!MinutesShown)
  => (SpecParts => ElectionInForce)
<1>1. part = "governance" /\ [NextParts]_partVars
        /\ [Governance!ElectionSettles]_Governance!governanceVars =>
          [part = "governance" => Governance!ElectionSettles]_partVars
  BY DEF NextParts, partVars, others, Governance!governanceVars, Rest8
<1>2. ~ (part = "governance") => [part = "governance" => Governance!ElectionSettles]_partVars
  OBVIOUS
<1>3. part = "governance" /\ [NextParts]_partVars
        /\ [Governance!ElectionShownByPublication]_Governance!governanceVars =>
          [part = "governance" => Governance!ElectionShownByPublication]_partVars
  BY DEF NextParts, partVars, others, Governance!governanceVars, Rest8
<1>4. ~ (part = "governance") => [part = "governance" => Governance!ElectionShownByPublication]_partVars
  OBVIOUS
<1>5. QED
  BY <1>1, <1>2, <1>3, <1>4, GovernanceRun, PTL
     DEF ElectionInForce, SpecParts, Governance!ElectionInForce, Governance!MinutesShown

LEMMA TimelinesGiven ==
  /\ (Timelines!Spec => /\ []Timelines!QueueIsOrder
                        /\ []Timelines!LinkedIsShown
                        /\ []Timelines!TimelineInOrder)
  => (SpecParts => []TimelinesInOrder)
BY TimelinesRun, PTL DEF TimelinesInOrder

LEMMA MessagesGiven ==
  /\ (Messages!Spec => /\ []Messages!LinksLast
                       /\ Messages!SentIsSettled)
  => (SpecParts => MessagesInOrder)
<1>1. part = "messages" /\ [NextParts]_partVars /\ [Messages!SendingSettles]_Messages!messageVars =>
          [part = "messages" => Messages!SendingSettles]_partVars
  BY DEF NextParts, partVars, others, Messages!messageVars, Rest8
<1>2. ~ (part = "messages") => [part = "messages" => Messages!SendingSettles]_partVars
  OBVIOUS
<1>3. QED
  BY <1>1, <1>2, MessagesRun, PTL DEF MessagesInOrder, SpecParts, Messages!SentIsSettled

LEMMA CostsGiven ==
  /\ (Accruals!Spec => /\ []Accruals!AccruedOnce
                       /\ []Accruals!ClosedIsAccrued)
  /\ (Fees!Spec => /\ []Fees!SharesAddUp
                   /\ []Fees!ExpensesCovered
                   /\ []Fees!NobodyOvercharged)
  => (SpecParts => []CostsShared)
BY AccrualsRun, FeesRun, PTL DEF CostsShared

LEMMA CodesGiven ==
  /\ (Codes!Spec => /\ []Codes!ReplacedIsDead
                    /\ []Codes!SpentIsDead
                    /\ []Codes!SentCodeWorks)
  => (SpecParts => []CodesInOrder)
BY CodesRun, PTL DEF CodesInOrder

LEMMA PlansGiven ==
  /\ (Plans!Spec => /\ []Plans!OneDefault
                    /\ []Plans!PlansKept
                    /\ []Plans!EveryUnitPriced
                    /\ []Plans!EveryCondominiumBilled)
  => (SpecParts => []PlansInOrder)
BY PlansRun, PTL DEF PlansInOrder

LEMMA TicketsGiven ==
  /\ (Support!Spec => /\ []Support!MessagesComplete
                      /\ []Support!MailShowsReply
                      /\ []Support!ClosedIsQuiet
                      /\ []Support!AnsweredIsTaken)
  => (SpecParts => []TicketsInOrder)
BY TicketsRun, PTL DEF TicketsInOrder

(***************************************************************************)
(* Works and maintenances.                                                 *)
(***************************************************************************)

\* A value that is not None.
Other == IF None = 0 THEN 1 ELSE 0

InTimelines == INSTANCE TransactionSettlement_proofs WITH
    Engines <- OfTimelines.Engines, Works <- OfTimelines.Works,
    Maintenances <- OfTimelines.Maintenances, Txs <- OfTimelines.Txs,
    Budgets <- OfTimelines.Budgets, MaxEntries <- OfTimelines.MaxEntries,
    MaxFiles <- OfTimelines.MaxFiles, MaxUpload <- OfTimelines.MaxUpload,
    Slots <- OfTimelines.Slots, MaxRequests <- OfTimelines.MaxRequests,
    MaxStops <- OfTimelines.MaxStops, engine <- x1, works <- x2, maintenances <- x3, txs <- x4,
    shown <- x5, entries <- x6, budgets <- x7, rows <- x8, stored <- x9, tasks <- x10,
    asked <- x11, stops <- x12, interrupted <- x13, Units <- {}, Kinds <- {}, Amounts <- {},
    Receipts <- {}, Workers <- {}, Keep <- Other, MaxReopens <- 0, MaxGiven <- 0, tx <- None,
    used <- None, given <- None, taken <- None, balance <- None, reopens <- None, files <- None,
    req <- None

\* What the module of the theorems assumes of transactions, of which there are none here.
LEMMA NoneOutside == None \notin InTimelines!Row /\ Other # None
  BY SMTT(60) DEF InTimelines!Row, Other

\* Works are finitely many and no maintenances, there is an entry and a file to start with,
\* None is no row, and requests do not overlap.
TimelinesParameters == InTimelines!TimelineParameters /\ InTimelines!OneForm

LEMMA SameTimelines == InTimelines!Timelines!Spec <=> Timelines!Spec
<1>1. InTimelines!Timelines!Init <=> Timelines!Init
  BY SMTT(60) DEF InTimelines!Timelines!Init, Timelines!Init, InTimelines!Timelines!Cardinality,
         Timelines!Cardinality, InTimelines!Timelines!Unlinked, Timelines!Unlinked,
         InTimelines!Timelines!Sides, Timelines!Sides, InTimelines!Timelines!Shown,
         Timelines!Shown, InTimelines!Timelines!Entries, Timelines!Entries,
         InTimelines!Timelines!Files, Timelines!Files
<1>2. \A s : InTimelines!Timelines!RecordRequests(s) <=> Timelines!RecordRequests(s)
  BY DEF InTimelines!Timelines!RecordRequests, Timelines!RecordRequests,
         InTimelines!Timelines!CreateWork, Timelines!CreateWork, InTimelines!Timelines!UpdateWork,
         Timelines!UpdateWork, InTimelines!Timelines!Cardinality, Timelines!Cardinality,
         InTimelines!Timelines!Active, Timelines!Active, InTimelines!Timelines!ReorderQueue,
         Timelines!ReorderQueue, InTimelines!Timelines!CreateMaintenance,
         Timelines!CreateMaintenance, InTimelines!Timelines!RemoveMaintenance,
         Timelines!RemoveMaintenance, InTimelines!Timelines!RemoveWork, Timelines!RemoveWork,
         InTimelines!Timelines!Asks, Timelines!Asks, InTimelines!Timelines!Do, Timelines!Do,
         InTimelines!Timelines!NextQueueOrder, Timelines!NextQueueOrder,
         InTimelines!Timelines!Unused, Timelines!Unused, InTimelines!Timelines!DoFiles,
         Timelines!DoFiles, InTimelines!Timelines!FilesOf, Timelines!FilesOf,
         InTimelines!Timelines!Entries, Timelines!Entries, InTimelines!Timelines!Exists,
         Timelines!Exists, InTimelines!Timelines!Idle, Timelines!Idle,
         InTimelines!Timelines!tables, Timelines!tables, InTimelines!Timelines!Files,
         Timelines!Files
<1>3. \A s : InTimelines!Timelines!EntryRequests(s) <=> Timelines!EntryRequests(s)
  BY DEF InTimelines!Timelines!EntryRequests, Timelines!EntryRequests,
         InTimelines!Timelines!Uploads, Timelines!Uploads, InTimelines!Timelines!AddNote,
         Timelines!AddNote, InTimelines!Timelines!AddMaintenanceNote,
         Timelines!AddMaintenanceNote, InTimelines!Timelines!AddLegal, Timelines!AddLegal,
         InTimelines!Timelines!AddBudget, Timelines!AddBudget, InTimelines!Timelines!Entries,
         Timelines!Entries, InTimelines!Timelines!AddTimelineEntryAttachments,
         Timelines!AddTimelineEntryAttachments, InTimelines!Timelines!Files, Timelines!Files,
         InTimelines!Timelines!RemoveTimelineAttachment, Timelines!RemoveTimelineAttachment,
         InTimelines!Timelines!ReplaceTimelineAttachment, Timelines!ReplaceTimelineAttachment,
         InTimelines!Timelines!UpdateNote, Timelines!UpdateNote,
         InTimelines!Timelines!UpdateMaintenanceNote, Timelines!UpdateMaintenanceNote,
         InTimelines!Timelines!UpdateBudget, Timelines!UpdateBudget,
         InTimelines!Timelines!RemoveTimelineEntry, Timelines!RemoveTimelineEntry,
         InTimelines!Timelines!RemoveMaintenanceEntry, Timelines!RemoveMaintenanceEntry,
         InTimelines!Timelines!NewFiles, Timelines!NewFiles, InTimelines!Timelines!Cardinality,
         Timelines!Cardinality, InTimelines!Timelines!Adds, Timelines!Adds,
         InTimelines!Timelines!Says, Timelines!Says, InTimelines!Timelines!NewEntries,
         Timelines!NewEntries, InTimelines!Timelines!Summary, Timelines!Summary,
         InTimelines!Timelines!Do, Timelines!Do, InTimelines!Timelines!Least, Timelines!Least,
         InTimelines!Timelines!OnWork, Timelines!OnWork, InTimelines!Timelines!Asks,
         Timelines!Asks, InTimelines!Timelines!DoFiles, Timelines!DoFiles,
         InTimelines!Timelines!Spare, Timelines!Spare, InTimelines!Timelines!FilesOf,
         Timelines!FilesOf, InTimelines!Timelines!Reviewable, Timelines!Reviewable,
         InTimelines!Timelines!PlannedFiles, Timelines!PlannedFiles,
         InTimelines!Timelines!Planned, Timelines!Planned, InTimelines!Timelines!Idle,
         Timelines!Idle, InTimelines!Timelines!tables, Timelines!tables
<1>4. \A s : InTimelines!Timelines!TransactionRequests(s) <=> Timelines!TransactionRequests(s)
  BY DEF InTimelines!Timelines!TransactionRequests, Timelines!TransactionRequests,
         InTimelines!Timelines!Transaction, Timelines!Transaction,
         InTimelines!Timelines!CreateTransaction, Timelines!CreateTransaction,
         InTimelines!Timelines!UpdateTransaction, Timelines!UpdateTransaction,
         InTimelines!Timelines!Settle, Timelines!Settle, InTimelines!Timelines!Cancel,
         Timelines!Cancel, InTimelines!Timelines!Reopen, Timelines!Reopen,
         InTimelines!Timelines!RemoveTransaction, Timelines!RemoveTransaction,
         InTimelines!Timelines!RemoveRecurringSeries, Timelines!RemoveRecurringSeries,
         InTimelines!Timelines!BulkAssignWork, Timelines!BulkAssignWork,
         InTimelines!Timelines!BulkAssignMaintenance, Timelines!BulkAssignMaintenance,
         InTimelines!Timelines!Status, Timelines!Status, InTimelines!Timelines!Sides,
         Timelines!Sides, InTimelines!Timelines!Linkable, Timelines!Linkable,
         InTimelines!Timelines!Asks, Timelines!Asks, InTimelines!Timelines!Do, Timelines!Do,
         InTimelines!Timelines!Exists, Timelines!Exists, InTimelines!Timelines!ChangeStatus,
         Timelines!ChangeStatus, InTimelines!Timelines!Find, Timelines!Find,
         InTimelines!Timelines!Unlinked, Timelines!Unlinked, InTimelines!Timelines!BulkAssign,
         Timelines!BulkAssign, InTimelines!Timelines!Idle, Timelines!Idle,
         InTimelines!Timelines!tables, Timelines!tables, InTimelines!Timelines!LoadedWorkKept,
         Timelines!LoadedWorkKept
<1>5. \A s : InTimelines!Timelines!Steps(s) <=> Timelines!Steps(s)
  BY DEF InTimelines!Timelines!Steps, Timelines!Steps, InTimelines!Timelines!SaveWork,
         Timelines!SaveWork, InTimelines!Timelines!SaveQueue, Timelines!SaveQueue,
         InTimelines!Timelines!SaveMaintenance, Timelines!SaveMaintenance,
         InTimelines!Timelines!DeleteRecord, Timelines!DeleteRecord,
         InTimelines!Timelines!InsertEntry, Timelines!InsertEntry, InTimelines!Timelines!Upload,
         Timelines!Upload, InTimelines!Timelines!InsertRow, Timelines!InsertRow,
         InTimelines!Timelines!Unlink, Timelines!Unlink, InTimelines!Timelines!Through,
         Timelines!Through, InTimelines!Timelines!DeleteRow, Timelines!DeleteRow,
         InTimelines!Timelines!Store, Timelines!Store, InTimelines!Timelines!SaveRow,
         Timelines!SaveRow, InTimelines!Timelines!SaveBudget, Timelines!SaveBudget,
         InTimelines!Timelines!SaveEntry, Timelines!SaveEntry, InTimelines!Timelines!DeleteEntry,
         Timelines!DeleteEntry, InTimelines!Timelines!Assign, Timelines!Assign,
         InTimelines!Timelines!Commit, Timelines!Commit, InTimelines!Timelines!Load,
         Timelines!Load, InTimelines!Timelines!DeleteTransactions, Timelines!DeleteTransactions,
         InTimelines!Timelines!SyncWork, Timelines!SyncWork,
         InTimelines!Timelines!SyncMaintenance, Timelines!SyncMaintenance,
         InTimelines!Timelines!Show, Timelines!Show, InTimelines!Timelines!Hide, Timelines!Hide,
         InTimelines!Timelines!Doing, Timelines!Doing, InTimelines!Timelines!Now, Timelines!Now,
         InTimelines!Timelines!Done, Timelines!Done, InTimelines!Timelines!Entries,
         Timelines!Entries, InTimelines!Timelines!Keyed, Timelines!Keyed,
         InTimelines!Timelines!Without, Timelines!Without, InTimelines!Timelines!RowsWithout,
         Timelines!RowsWithout, InTimelines!Timelines!Exists, Timelines!Exists,
         InTimelines!Timelines!Refused, Timelines!Refused, InTimelines!Timelines!Goes,
         Timelines!Goes, InTimelines!Timelines!DoFiles, Timelines!DoFiles,
         InTimelines!Timelines!Files, Timelines!Files, InTimelines!Timelines!tables,
         Timelines!tables, InTimelines!Timelines!Idle, Timelines!Idle, InTimelines!Timelines!Do,
         Timelines!Do, InTimelines!Timelines!Find, Timelines!Find, InTimelines!Timelines!Sides,
         Timelines!Sides, InTimelines!Timelines!Sync, Timelines!Sync, InTimelines!Timelines!Shown,
         Timelines!Shown, InTimelines!Timelines!Synchronised, Timelines!Synchronised,
         InTimelines!Timelines!Ends, Timelines!Ends, InTimelines!Timelines!control,
         Timelines!control, InTimelines!Timelines!CutLinks, Timelines!CutLinks
<1>6. \A s : InTimelines!Timelines!Stop(s) <=> Timelines!Stop(s)
  BY DEF InTimelines!Timelines!Stop, Timelines!Stop, InTimelines!Timelines!Idle, Timelines!Idle,
         InTimelines!Timelines!Ends, Timelines!Ends, InTimelines!Timelines!tables,
         Timelines!tables, InTimelines!Timelines!CutLinks, Timelines!CutLinks,
         InTimelines!Timelines!Sides, Timelines!Sides
<1>7. [InTimelines!Timelines!Next]_InTimelines!Timelines!timelineVars
      <=> [Timelines!Next]_Timelines!timelineVars
  BY <1>2, <1>3, <1>4, <1>5, <1>6
     DEF InTimelines!Timelines!Next, Timelines!Next, InTimelines!Timelines!timelineVars,
         Timelines!timelineVars, InTimelines!Timelines!Idle, Timelines!Idle
<1>8. QED
  BY <1>1, <1>7, PTL DEF InTimelines!Timelines!Spec, Timelines!Spec

LEMMA SameInTimelines ==
  /\ InTimelines!Timelines!TimelineTypeOK <=> Timelines!TimelineTypeOK
  /\ InTimelines!Timelines!QueueIsOrder <=> Timelines!QueueIsOrder
  /\ InTimelines!Timelines!LinkedIsShown <=> Timelines!LinkedIsShown
  /\ InTimelines!Timelines!TimelineInOrder <=> Timelines!TimelineInOrder
  BY SMTT(60) DEF InTimelines!Timelines!TimelineTypeOK, Timelines!TimelineTypeOK,
         InTimelines!Timelines!QueueIsOrder, Timelines!QueueIsOrder,
         InTimelines!Timelines!LinkedIsShown, Timelines!LinkedIsShown,
         InTimelines!Timelines!TimelineInOrder, Timelines!TimelineInOrder,
         InTimelines!Timelines!Work, Timelines!Work, InTimelines!Timelines!Transaction,
         Timelines!Transaction, InTimelines!Timelines!Entries, Timelines!Entries,
         InTimelines!Timelines!Entry, Timelines!Entry, InTimelines!Timelines!Budget,
         Timelines!Budget, InTimelines!Timelines!Files, Timelines!Files,
         InTimelines!Timelines!Active, Timelines!Active, InTimelines!Timelines!AtRest,
         Timelines!AtRest, InTimelines!Timelines!Sides, Timelines!Sides,
         InTimelines!Timelines!Exists, Timelines!Exists, InTimelines!Timelines!FilesOf,
         Timelines!FilesOf, InTimelines!Timelines!Summary, Timelines!Summary,
         InTimelines!Timelines!Status, Timelines!Status, InTimelines!Timelines!Idle,
         Timelines!Idle

LEMMA TimelinesStayTyped ==
  ASSUME TimelinesParameters PROVE Timelines!Spec => []Timelines!TimelineTypeOK
<1>1. InTimelines!Timelines!Spec => []InTimelines!Timelines!TimelineTypeOK
  BY InTimelines!TimelineTyped, NoneOutside DEF TimelinesParameters
<1>2. QED
  BY <1>1, SameTimelines, SameInTimelines, PTL

\* TimelinesInOrder: with requests one at a time, no two active works share a place in the
\* queue; a transaction linked to a work or a maintenance is shown on its timeline, with its
\* status, unless a request about it was cut short; and files, budgets and entries of a
\* timeline fit together as long as none was.
THEOREM TimelinesOrderly ==
  ASSUME TimelinesParameters
  PROVE  SpecParts => []TimelinesInOrder
<1>1. InTimelines!Timelines!Spec => []InTimelines!Timelines!QueueIsOrder
  BY InTimelines!QueueOrdered, NoneOutside DEF TimelinesParameters
<1>2. InTimelines!Timelines!Spec => []InTimelines!Timelines!LinkedIsShown
  BY InTimelines!LinksShown, NoneOutside DEF TimelinesParameters
<1>3. InTimelines!Timelines!Spec => []InTimelines!Timelines!TimelineInOrder
  BY InTimelines!EntriesKept, NoneOutside DEF TimelinesParameters
<1>4. QED
  BY <1>1, <1>2, <1>3, SameTimelines, SameInTimelines, TimelinesGiven, PTL

(***************************************************************************)
(* Communications.                                                         *)
(***************************************************************************)

InMessages == INSTANCE Messages_proofs WITH
    Users <- OfMessages.Users, Units <- OfMessages.Units, Linked <- OfMessages.Linked,
    Contacts <- OfMessages.Contacts, Settings <- OfMessages.Settings, Files <- OfMessages.Files,
    Managers <- OfMessages.Managers, Readers <- OfMessages.Readers,
    MaxRequests <- OfMessages.MaxRequests, MaxReadings <- OfMessages.MaxReadings,
    MaxStops <- OfMessages.MaxStops, comm <- x1, recipients <- x2, links <- x3, handed <- x4,
    log <- x5, attached <- x6, stored <- x7, tasks <- x8, asked <- x9, read <- x10, stops <- x11,
    Addresses <- None, MaxCodes <- None, MaxCalls <- None, Slots <- None, Emails <- None,
    Phones <- None, MaxAccounts <- None, MaxPeople <- None, MaxInvites <- None,
    MaxCrashes <- None, challenges <- None, expired <- None, issued <- None, delivered <- None,
    answered <- None, tokens <- None, calls <- None, overlaps <- None, accounts <- None,
    people <- None, units <- None, invites <- None, requests <- None, crashed <- None

\* Settings name units and channels, every account its units, and None is no recipient.
MessagesParameters == InMessages!MessageParameters

\* The management has one request at a time; readers may overlap with it.
MessagesTakeTurns == InMessages!OneManager

LEMMA SameMessages == InMessages!Messaging!Spec <=> Messages!Spec
<1>1. InMessages!Messaging!Init <=> Messages!Init
  BY SMTT(60) DEF InMessages!Messaging!Init, Messages!Init, InMessages!Messaging!Created,
         Messages!Created, InMessages!Messaging!Slots, Messages!Slots, InMessages!Messaging!Blank,
         Messages!Blank, InMessages!Messaging!Channels, Messages!Channels
<1>2. \A s : InMessages!Messaging!Requests(s) <=> Messages!Requests(s)
  BY DEF InMessages!Messaging!Requests, Messages!Requests, InMessages!Messaging!Update,
         Messages!Update, InMessages!Messaging!AddAttachment, Messages!AddAttachment,
         InMessages!Messaging!RemoveAttachment, Messages!RemoveAttachment,
         InMessages!Messaging!Send, Messages!Send, InMessages!Messaging!OpenLink,
         Messages!OpenLink, InMessages!Messaging!MarkReadApp, Messages!MarkReadApp,
         InMessages!Messaging!Asks, Messages!Asks, InMessages!Messaging!Blank, Messages!Blank,
         InMessages!Messaging!FirstStep, Messages!FirstStep, InMessages!Messaging!At, Messages!At,
         InMessages!Messaging!Opens, Messages!Opens, InMessages!Messaging!Goes, Messages!Goes
<1>3. \A s : InMessages!Messaging!Steps(s) <=> Messages!Steps(s)
  BY DEF InMessages!Messaging!Steps, Messages!Steps, InMessages!Messaging!Save, Messages!Save,
         InMessages!Messaging!Attach, Messages!Attach, InMessages!Messaging!Detach,
         Messages!Detach, InMessages!Messaging!DropLinks, Messages!DropLinks,
         InMessages!Messaging!DropRecipients, Messages!DropRecipients, InMessages!Messaging!Make,
         Messages!Make, InMessages!Messaging!InsertRecipients, Messages!InsertRecipients,
         InMessages!Messaging!InsertLinks, Messages!InsertLinks,
         InMessages!Messaging!NextRecipient, Messages!NextRecipient, InMessages!Messaging!Mail,
         Messages!Mail, InMessages!Messaging!Text, Messages!Text,
         InMessages!Messaging!SaveRecipient, Messages!SaveRecipient, InMessages!Messaging!Finish,
         Messages!Finish, InMessages!Messaging!LogReading, Messages!LogReading,
         InMessages!Messaging!FindRecipient, Messages!FindRecipient,
         InMessages!Messaging!TouchRecipient, Messages!TouchRecipient, InMessages!Messaging!At,
         Messages!At, InMessages!Messaging!Ends, Messages!Ends, InMessages!Messaging!To,
         Messages!To, InMessages!Messaging!Addressed, Messages!Addressed,
         InMessages!Messaging!Channels, Messages!Channels, InMessages!Messaging!Reaches,
         Messages!Reaches, InMessages!Messaging!Made, Messages!Made, InMessages!Messaging!Goes,
         Messages!Goes, InMessages!Messaging!Tokens, Messages!Tokens,
         InMessages!Messaging!Deliver, Messages!Deliver, InMessages!Messaging!Put, Messages!Put,
         InMessages!Messaging!Blank, Messages!Blank, InMessages!Messaging!UnitsOf,
         Messages!UnitsOf, InMessages!Messaging!Waiting, Messages!Waiting,
         InMessages!Messaging!Taken, Messages!Taken, InMessages!Messaging!Audience,
         Messages!Audience, InMessages!Messaging!Arrived, Messages!Arrived
<1>4. \A s : InMessages!Messaging!Stop(s) <=> Messages!Stop(s)
  BY DEF InMessages!Messaging!Stop, Messages!Stop, InMessages!Messaging!At, Messages!At,
         InMessages!Messaging!Ends, Messages!Ends, InMessages!Messaging!Goes, Messages!Goes,
         InMessages!Messaging!Blank, Messages!Blank
<1>5. [InMessages!Messaging!Next]_InMessages!Messaging!messageVars
      <=> [Messages!Next]_Messages!messageVars
  BY <1>2, <1>3, <1>4
     DEF InMessages!Messaging!Next, Messages!Next, InMessages!Messaging!messageVars,
         Messages!messageVars, InMessages!Messaging!Slots, Messages!Slots
<1>6. QED
  BY <1>1, <1>5, PTL DEF InMessages!Messaging!Spec, Messages!Spec

LEMMA SameInMessages ==
  /\ InMessages!Messaging!MessageTypeOK <=> Messages!MessageTypeOK
  /\ InMessages!Messaging!LinksLast <=> Messages!LinksLast
  /\ InMessages!Messaging!SentIsSettled <=> Messages!SentIsSettled
  BY SMTT(60) DEF InMessages!Messaging!MessageTypeOK, Messages!MessageTypeOK,
         InMessages!Messaging!LinksLast, Messages!LinksLast, InMessages!Messaging!SentIsSettled,
         Messages!SentIsSettled, InMessages!Messaging!Communication, Messages!Communication,
         InMessages!Messaging!Recipient, Messages!Recipient, InMessages!Messaging!Token,
         Messages!Token, InMessages!Messaging!SendingSettles, Messages!SendingSettles,
         InMessages!Messaging!messageVars, Messages!messageVars, InMessages!Messaging!Channels,
         Messages!Channels, InMessages!Messaging!Delivery, Messages!Delivery,
         InMessages!Messaging!UnitsOf, Messages!UnitsOf, InMessages!Messaging!Audience,
         Messages!Audience

LEMMA MessagesStayTyped ==
  ASSUME MessagesParameters PROVE Messages!Spec => []Messages!MessageTypeOK
<1>1. InMessages!Messaging!Spec => []InMessages!Messaging!MessageTypeOK
  BY InMessages!MessagesTyped DEF MessagesParameters
<1>2. QED
  BY <1>1, SameMessages, SameInMessages, PTL

\* MessagesInOrder: with one request of the management at a time, and readers at any time, the
\* links of a communication that was sent open for good, and it becomes sent only with every
\* recipient settled.
THEOREM MessagesOrderly ==
  ASSUME MessagesParameters, MessagesTakeTurns
  PROVE  SpecParts => MessagesInOrder
<1>1. InMessages!Messaging!Spec => []InMessages!Messaging!LinksLast
  BY InMessages!LinksOpenForGood DEF MessagesParameters, MessagesTakeTurns
<1>2. InMessages!Messaging!Spec => InMessages!Messaging!SentIsSettled
  BY InMessages!SendingsSettle DEF MessagesParameters, MessagesTakeTurns
<1>3. QED
  BY <1>1, <1>2, SameMessages, SameInMessages, MessagesGiven, PTL

(***************************************************************************)
(* Accounts, people and invitations.                                       *)
(***************************************************************************)

InPeople == INSTANCE Messages_proofs WITH
    Emails <- OfPeople.Emails, Phones <- OfPeople.Phones, Units <- OfPeople.Units,
    Slots <- OfPeople.Slots, MaxAccounts <- OfPeople.MaxAccounts, MaxPeople <- OfPeople.MaxPeople,
    MaxInvites <- OfPeople.MaxInvites, MaxRequests <- OfPeople.MaxRequests,
    MaxCrashes <- OfPeople.MaxCrashes, accounts <- x1, people <- x2, units <- x3, links <- x4,
    invites <- x5, calls <- x6, requests <- x7, crashed <- x8, Addresses <- None,
    MaxCodes <- None, MaxCalls <- None, MaxStops <- None, Users <- None, Linked <- None,
    Contacts <- None, Settings <- None, Files <- None, Managers <- None, Readers <- None,
    MaxReadings <- None, challenges <- None, expired <- None, issued <- None, delivered <- None,
    answered <- None, tokens <- None, tasks <- None, stops <- None, overlaps <- None,
    comm <- None, recipients <- None, handed <- None, log <- None, attached <- None,
    stored <- None, asked <- None, read <- None

\* Bounds are numbers.
PeopleParameters == InPeople!ResidentParameters

\* Requests do not overlap.
PeopleTakeTurns == InPeople!OneRequest

LEMMA SamePeople == InPeople!Residents!Spec <=> People!Spec
<1>1. InPeople!Residents!Init <=> People!Init
  BY SMTT(60) DEF InPeople!Residents!Init, People!Init, InPeople!Residents!NoUnit, People!NoUnit,
         InPeople!Residents!NoCall, People!NoCall, InPeople!Residents!NoPerson, People!NoPerson,
         InPeople!Residents!SomeUnit, People!SomeUnit
<1>2. ASSUME NEW s PROVE InPeople!Residents!Requests(s) <=> People!Requests(s)
  <2>1. (\E a \in DOMAIN x1, e \in OfPeople.Emails, ph \in OfPeople.Phones, named \in BOOLEAN :
              InPeople!Residents!UpdateProfile(s, a, e, ph, named))
        <=> (\E a \in DOMAIN x1, e \in OfPeople.Emails, ph \in OfPeople.Phones, named \in BOOLEAN :
              People!UpdateProfile(s, a, e, ph, named))
    BY DEF InPeople!Residents!UpdateProfile, People!UpdateProfile, InPeople!Residents!Idle,
           People!Idle, InPeople!Residents!AccountFits, People!AccountFits,
           InPeople!Residents!PersonForMe, People!PersonForMe, InPeople!Residents!Counted,
           People!Counted, InPeople!Residents!Begins, People!Begins, InPeople!Residents!NoCall,
           People!NoCall, InPeople!Residents!PersonOf, People!PersonOf,
           InPeople!Residents!NoPerson, People!NoPerson, InPeople!Residents!SomeUnit,
           People!SomeUnit, InPeople!Residents!NoUnit, People!NoUnit, InPeople!Residents!First,
           People!First
  <2>2. (\E u \in OfPeople.Units, role \in InPeople!Residents!Roles,
           e \in OfPeople.Emails, ph \in OfPeople.Phones \cup {None} :
              InPeople!Residents!AssignToUnit(s, u, role, e, ph))
        <=> (\E u \in OfPeople.Units, role \in People!Roles, e \in OfPeople.Emails,
           ph \in OfPeople.Phones \cup {None} :
              People!AssignToUnit(s, u, role, e, ph))
    BY DEF InPeople!Residents!AssignToUnit, People!AssignToUnit, InPeople!Residents!Roles,
           People!Roles, InPeople!Residents!AssignPerson, People!AssignPerson,
           InPeople!Residents!AssignAccount, People!AssignAccount,
           InPeople!Residents!AssignStranger, People!AssignStranger,
           InPeople!Residents!PersonByEmail, People!PersonByEmail,
           InPeople!Residents!AccountByEmail, People!AccountByEmail, InPeople!Residents!PersonOf,
           People!PersonOf, InPeople!Residents!Begins, People!Begins,
           InPeople!Residents!Assigning, People!Assigning, InPeople!Residents!WithPhone,
           People!WithPhone, InPeople!Residents!WithRole, People!WithRole,
           InPeople!Residents!LinkSteps, People!LinkSteps, InPeople!Residents!First, People!First,
           InPeople!Residents!Idle, People!Idle, InPeople!Residents!Counted, People!Counted,
           InPeople!Residents!NoCall, People!NoCall, InPeople!Residents!LinkedTo, People!LinkedTo,
           InPeople!Residents!AsOwner, People!AsOwner, InPeople!Residents!AsResponsible,
           People!AsResponsible, InPeople!Residents!NoPerson, People!NoPerson,
           InPeople!Residents!SomeUnit, People!SomeUnit, InPeople!Residents!NoUnit, People!NoUnit
  <2>3. (\E u \in OfPeople.Units, e \in OfPeople.Emails \cup {None},
           ph \in OfPeople.Phones \cup {None} :
              InPeople!Residents!CreateCondominiumInvitation(s, u, e, ph))
        <=> (\E u \in OfPeople.Units, e \in OfPeople.Emails \cup {None},
           ph \in OfPeople.Phones \cup {None} :
              People!CreateCondominiumInvitation(s, u, e, ph))
    BY DEF InPeople!Residents!CreateCondominiumInvitation, People!CreateCondominiumInvitation,
           InPeople!Residents!InvitePhone, People!InvitePhone, InPeople!Residents!InvitedPerson,
           People!InvitedPerson, InPeople!Residents!Begins, People!Begins,
           InPeople!Residents!Inviting, People!Inviting, InPeople!Residents!Filled, People!Filled,
           InPeople!Residents!InvitedAccount, People!InvitedAccount,
           InPeople!Residents!PersonByEmail, People!PersonByEmail,
           InPeople!Residents!PersonByPhone, People!PersonByPhone, InPeople!Residents!PersonOf,
           People!PersonOf, InPeople!Residents!Idle, People!Idle, InPeople!Residents!Counted,
           People!Counted, InPeople!Residents!NoCall, People!NoCall,
           InPeople!Residents!AccountByEmail, People!AccountByEmail,
           InPeople!Residents!AccountByPhone, People!AccountByPhone, InPeople!Residents!First,
           People!First, InPeople!Residents!NoPerson, People!NoPerson,
           InPeople!Residents!SomeUnit, People!SomeUnit, InPeople!Residents!NoUnit, People!NoUnit
  <2>4. (\E i \in DOMAIN x5, ph \in OfPeople.Phones :
              InPeople!Residents!AcceptUnitInvitation(s, i, ph))
        <=> (\E i \in DOMAIN x5, ph \in OfPeople.Phones :
              People!AcceptUnitInvitation(s, i, ph))
    BY DEF InPeople!Residents!AcceptUnitInvitation, People!AcceptUnitInvitation,
           InPeople!Residents!AccountByEmail, People!AccountByEmail, InPeople!Residents!Join,
           People!Join, InPeople!Residents!First, People!First, InPeople!Residents!AccountByPhone,
           People!AccountByPhone, InPeople!Residents!Begins, People!Begins,
           InPeople!Residents!Accepting, People!Accepting, InPeople!Residents!JoinSteps,
           People!JoinSteps, InPeople!Residents!Idle, People!Idle, InPeople!Residents!Counted,
           People!Counted, InPeople!Residents!NoCall, People!NoCall, InPeople!Residents!WithPhone,
           People!WithPhone, InPeople!Residents!NoPerson, People!NoPerson,
           InPeople!Residents!SomeUnit, People!SomeUnit, InPeople!Residents!NoUnit, People!NoUnit
  <2>5. (\E i \in DOMAIN x5, ph \in OfPeople.Phones :
              InPeople!Residents!AcceptCondominiumInvitation(s, i, ph))
        <=> (\E i \in DOMAIN x5, ph \in OfPeople.Phones :
              People!AcceptCondominiumInvitation(s, i, ph))
    BY DEF InPeople!Residents!AcceptCondominiumInvitation, People!AcceptCondominiumInvitation,
           InPeople!Residents!InvitedAccount, People!InvitedAccount, InPeople!Residents!Join,
           People!Join, InPeople!Residents!Confirm, People!Confirm,
           InPeople!Residents!AccountByEmail, People!AccountByEmail,
           InPeople!Residents!AccountByPhone, People!AccountByPhone, InPeople!Residents!Begins,
           People!Begins, InPeople!Residents!Accepting, People!Accepting,
           InPeople!Residents!JoinSteps, People!JoinSteps, InPeople!Residents!First, People!First,
           InPeople!Residents!Idle, People!Idle, InPeople!Residents!Counted, People!Counted,
           InPeople!Residents!NoCall, People!NoCall, InPeople!Residents!WithPhone,
           People!WithPhone, InPeople!Residents!NoPerson, People!NoPerson,
           InPeople!Residents!SomeUnit, People!SomeUnit, InPeople!Residents!NoUnit, People!NoUnit
  <2>6. (\E u \in OfPeople.Units, p \in DOMAIN x2, ph \in OfPeople.Phones \cup {None} :
              InPeople!Residents!PatchPersonPhone(s, u, p, ph))
        <=> (\E u \in OfPeople.Units, p \in DOMAIN x2, ph \in OfPeople.Phones \cup {None} :
              People!PatchPersonPhone(s, u, p, ph))
    BY DEF InPeople!Residents!PatchPersonPhone, People!PatchPersonPhone,
           InPeople!Residents!LinkedTo, People!LinkedTo, InPeople!Residents!Begins, People!Begins,
           InPeople!Residents!NoCall, People!NoCall, InPeople!Residents!Idle, People!Idle,
           InPeople!Residents!Counted, People!Counted, InPeople!Residents!NoPerson,
           People!NoPerson, InPeople!Residents!SomeUnit, People!SomeUnit,
           InPeople!Residents!NoUnit, People!NoUnit
  <2>7. (\E u \in OfPeople.Units, p \in {0} \cup DOMAIN x2 :
              InPeople!Residents!RemoveResponsible(s, u, p))
        <=> (\E u \in OfPeople.Units, p \in {0} \cup DOMAIN x2 :
              People!RemoveResponsible(s, u, p))
    BY DEF InPeople!Residents!RemoveResponsible, People!RemoveResponsible,
           InPeople!Residents!Idle, People!Idle, InPeople!Residents!LinkedTo, People!LinkedTo,
           InPeople!Residents!Begins, People!Begins, InPeople!Residents!NoCall, People!NoCall,
           InPeople!Residents!Counted, People!Counted, InPeople!Residents!NoPerson,
           People!NoPerson, InPeople!Residents!SomeUnit, People!SomeUnit,
           InPeople!Residents!NoUnit, People!NoUnit
  <2>8. QED
    BY <2>1, <2>2, <2>3, <2>4, <2>5, <2>6, <2>7 DEF InPeople!Residents!Requests, People!Requests
<1>3. \A s : InPeople!Residents!Steps(s) <=> People!Steps(s)
  BY DEF InPeople!Residents!Steps, People!Steps, InPeople!Residents!CreateAccount,
         People!CreateAccount, InPeople!Residents!CreatePerson, People!CreatePerson,
         InPeople!Residents!SavePerson, People!SavePerson, InPeople!Residents!LinkPerson,
         People!LinkPerson, InPeople!Residents!SaveUnit, People!SaveUnit,
         InPeople!Residents!ReplaceInvites, People!ReplaceInvites, InPeople!Residents!SendInvite,
         People!SendInvite, InPeople!Residents!ConfirmPhone, People!ConfirmPhone,
         InPeople!Residents!Consume, People!Consume, InPeople!Residents!SetPhoneByStaff,
         People!SetPhoneByStaff, InPeople!Residents!Forget, People!Forget,
         InPeople!Residents!Does, People!Does, InPeople!Residents!DoneOrRefused,
         People!DoneOrRefused, InPeople!Residents!AccountFits, People!AccountFits,
         InPeople!Residents!PersonFits, People!PersonFits, InPeople!Residents!Filled,
         People!Filled, InPeople!Residents!Continues, People!Continues,
         InPeople!Residents!Orphans, People!Orphans, InPeople!Residents!UnitWritten,
         People!UnitWritten, InPeople!Residents!Replaced, People!Replaced,
         InPeople!Residents!AsOwner, People!AsOwner, InPeople!Residents!AsResponsible,
         People!AsResponsible, InPeople!Residents!Ends, People!Ends, InPeople!Residents!NoCall,
         People!NoCall, InPeople!Residents!LinkedTo, People!LinkedTo, InPeople!Residents!Open,
         People!Open, InPeople!Residents!NoPerson, People!NoPerson, InPeople!Residents!SomeUnit,
         People!SomeUnit, InPeople!Residents!NoUnit, People!NoUnit
<1>4. \A s : InPeople!Residents!Crash(s) <=> People!Crash(s)
  BY DEF InPeople!Residents!Crash, People!Crash, InPeople!Residents!Idle, People!Idle,
         InPeople!Residents!Ends, People!Ends, InPeople!Residents!NoCall, People!NoCall,
         InPeople!Residents!NoPerson, People!NoPerson, InPeople!Residents!SomeUnit,
         People!SomeUnit, InPeople!Residents!NoUnit, People!NoUnit
<1>5. \A e, q : InPeople!Residents!Register(e, q) <=> People!Register(e, q)
  BY DEF InPeople!Residents!Register, People!Register, InPeople!Residents!AccountFits,
         People!AccountFits, InPeople!Residents!Counted, People!Counted
<1>6. \A u, p : InPeople!Residents!SetFinancialResponsible(u, p)
      <=> People!SetFinancialResponsible(u, p)
  BY DEF InPeople!Residents!SetFinancialResponsible, People!SetFinancialResponsible,
         InPeople!Residents!LinkedTo, People!LinkedTo, InPeople!Residents!Counted, People!Counted
<1>7. \A u, q : InPeople!Residents!SetPendingPhone(u, q) <=> People!SetPendingPhone(u, q)
  BY DEF InPeople!Residents!SetPendingPhone, People!SetPendingPhone, InPeople!Residents!LinkedTo,
         People!LinkedTo, InPeople!Residents!Counted, People!Counted
<1>8. \A i : InPeople!Residents!DeleteCondominiumInvitation(i)
      <=> People!DeleteCondominiumInvitation(i)
  BY DEF InPeople!Residents!DeleteCondominiumInvitation, People!DeleteCondominiumInvitation,
         InPeople!Residents!Open, People!Open, InPeople!Residents!Counted, People!Counted
<1>9. \A i : InPeople!Residents!Expire(i) <=> People!Expire(i)
  BY DEF InPeople!Residents!Expire, People!Expire
<1>10. [InPeople!Residents!Next]_InPeople!Residents!peopleVars <=> [People!Next]_People!peopleVars
  BY <1>2, <1>3, <1>4, <1>5, <1>6, <1>7, <1>8, <1>9
     DEF InPeople!Residents!Next, People!Next, InPeople!Residents!peopleVars, People!peopleVars
<1>11. QED
  BY <1>1, <1>10, PTL DEF InPeople!Residents!Spec, People!Spec

LEMMA SameInPeople ==
  /\ InPeople!Residents!PeopleTypeOK <=> People!PeopleTypeOK
  /\ InPeople!Residents!FinancialIsResponsible <=> People!FinancialIsResponsible
  /\ InPeople!Residents!OneOpenInvite <=> People!OneOpenInvite
  /\ InPeople!Residents!ConsumedIsLinked <=> People!ConsumedIsLinked
  /\ InPeople!Residents!AccountKept <=> People!AccountKept
  BY SMTT(60) DEF InPeople!Residents!PeopleTypeOK, People!PeopleTypeOK,
         InPeople!Residents!FinancialIsResponsible, People!FinancialIsResponsible,
         InPeople!Residents!OneOpenInvite, People!OneOpenInvite,
         InPeople!Residents!ConsumedIsLinked, People!ConsumedIsLinked,
         InPeople!Residents!AccountKept, People!AccountKept, InPeople!Residents!Account,
         People!Account, InPeople!Residents!Person, People!Person, InPeople!Residents!Unit,
         People!Unit, InPeople!Residents!Invite, People!Invite, InPeople!Residents!Idle,
         People!Idle, InPeople!Residents!Open, People!Open, InPeople!Residents!ConsumptionLinks,
         People!ConsumptionLinks, InPeople!Residents!peopleVars, People!peopleVars,
         InPeople!Residents!AccountStays, People!AccountStays, InPeople!Residents!NoCall,
         People!NoCall, InPeople!Residents!NoPerson, People!NoPerson, InPeople!Residents!SomeUnit,
         People!SomeUnit, InPeople!Residents!NoUnit, People!NoUnit

LEMMA PeopleStayTyped ==
  ASSUME PeopleParameters PROVE People!Spec => []People!PeopleTypeOK
<1>1. InPeople!Residents!Spec => []InPeople!Residents!PeopleTypeOK
  BY InPeople!PeopleTyped DEF PeopleParameters
<1>2. QED
  BY <1>1, SamePeople, SameInPeople, PTL

\* ResidentsInOrder: with requests one at a time, which may stop between any two saves, a
\* consumed invitation has linked its guest, a person keeps its account, and a guest has one
\* open invitation; the financial responsible of a unit is one of its responsibles as long as
\* none stopped.
THEOREM ResidentsOrderly ==
  ASSUME PeopleParameters, PeopleTakeTurns
  PROVE  SpecParts => ResidentsInOrder
<1>1. InPeople!Residents!Spec => []InPeople!Residents!FinancialIsResponsible
  BY InPeople!ResponsibleAnswers DEF PeopleParameters, PeopleTakeTurns
<1>2. InPeople!Residents!Spec => []InPeople!Residents!OneOpenInvite
  BY InPeople!OneInvitationEach DEF PeopleParameters, PeopleTakeTurns
<1>3. InPeople!Residents!Spec => InPeople!Residents!ConsumedIsLinked
  BY InPeople!ConsumptionsLink DEF PeopleParameters, PeopleTakeTurns
<1>4. InPeople!Residents!Spec => InPeople!Residents!AccountKept
  BY InPeople!AccountKeptForGood DEF PeopleParameters, PeopleTakeTurns
<1>5. QED
  BY <1>1, <1>2, <1>3, <1>4, SamePeople, SameInPeople, ResidentsGiven, PTL

(***************************************************************************)
(* Plans.                                                                  *)
(***************************************************************************)

InPlans == INSTANCE Components_proofs WITH
    Users <- OfPlans.Users, Condominiums <- OfPlans.Condominiums, Prices <- OfPlans.Prices,
    Bands <- OfPlans.Bands, Patches <- OfPlans.Patches, MaxPlans <- OfPlans.MaxPlans,
    MaxUnits <- OfPlans.MaxUnits, MaxCalls <- OfPlans.MaxCalls, MaxStops <- OfPlans.MaxStops,
    Slots <- OfPlans.Slots, plans <- x1, made <- x2, planOf <- x3, condos <- x4, tasks <- x5,
    calls <- x6, stops <- x7, overlaps <- x8, Units <- None, Groupings <- None, Names <- None,
    Blank <- None, Expenses <- None, Amounts <- None, Rules <- None, WorkRule <- None,
    MaxMoves <- None, MaxFaults <- None, Tickets <- None, MaxFiles <- None, Owner <- None,
    Responsible <- None, Docs <- None, Polls <- None, MaxRequests <- None, Funds <- None,
    Setups <- None, Legacy <- None, MaxMonth <- None, MaxCents <- None, MaxIds <- None,
    home <- None, name <- None, expenses <- None, job <- None, faults <- None, status <- None,
    messages <- None, stored <- None, closedAt <- None, mails <- None, answered <- None,
    roles <- None, log <- None, docs <- None, closed <- None, asked <- None, units <- None,
    txs <- None, accruals <- None

\* A patch carries what a new plan does, there is a plan for a start, None is no row.
PlansParameters == InPlans!PlanParameters /\ InPlans!PlanBounds

LEMMA SamePlans == InPlans!Plans!Spec <=> Plans!Spec
<1>1. InPlans!Plans!Init <=> Plans!Init
  BY SMTT(60) DEF InPlans!Plans!Init, Plans!Init, InPlans!Plans!Ids, Plans!Ids,
         InPlans!Plans!Idle, Plans!Idle
<1>2. [InPlans!Plans!Next]_InPlans!Plans!planVars <=> [Plans!Next]_Plans!planVars
  BY SMTT(60) DEF InPlans!Plans!Next, Plans!Next, InPlans!Plans!planVars, Plans!planVars,
         InPlans!Plans!CreatePlan, Plans!CreatePlan, InPlans!Plans!Ids, Plans!Ids,
         InPlans!Plans!PatchPlan, Plans!PatchPlan, InPlans!Plans!SetDefaultPlan,
         Plans!SetDefaultPlan, InPlans!Plans!DeletePlan, Plans!DeletePlan, InPlans!Plans!Register,
         Plans!Register, InPlans!Plans!CreateCondominium, Plans!CreateCondominium,
         InPlans!Plans!UpdateCondominium, Plans!UpdateCondominium, InPlans!Plans!SelectPlan,
         Plans!SelectPlan, InPlans!Plans!WritePlan, Plans!WritePlan, InPlans!Plans!MarkDefault,
         Plans!MarkDefault, InPlans!Plans!CountCondominiums, Plans!CountCondominiums,
         InPlans!Plans!CountUsers, Plans!CountUsers, InPlans!Plans!Delete, Plans!Delete,
         InPlans!Plans!InsertAccount, Plans!InsertAccount, InPlans!Plans!InsertCondominium,
         Plans!InsertCondominium, InPlans!Plans!SelectCondominium, Plans!SelectCondominium,
         InPlans!Plans!StoreCondominium, Plans!StoreCondominium, InPlans!Plans!Interrupt,
         Plans!Interrupt, InPlans!Plans!RemoveCondominium, Plans!RemoveCondominium,
         InPlans!Plans!Idle, Plans!Idle, InPlans!Plans!AssertValid, Plans!AssertValid,
         InPlans!Plans!Existing, Plans!Existing, InPlans!Plans!Patched, Plans!Patched,
         InPlans!Plans!Start, Plans!Start, InPlans!Plans!Defaults, Plans!Defaults,
         InPlans!Plans!At, Plans!At, InPlans!Plans!Become, Plans!Become,
         InPlans!Plans!EntitySave!Saved, Plans!EntitySave!Saved, InPlans!Plans!Move, Plans!Move,
         InPlans!Plans!Restricted, Plans!Restricted, InPlans!Plans!Sorted, Plans!Sorted,
         InPlans!Plans!EntitySave!Merge, Plans!EntitySave!Merge, InPlans!Plans!Cardinality,
         Plans!Cardinality, InPlans!Plans!ByMin, Plans!ByMin
<1>3. QED
  BY <1>1, <1>2, PTL DEF InPlans!Plans!Spec, Plans!Spec

LEMMA SameInPlans ==
  /\ InPlans!Plans!PlanTypeOK <=> Plans!PlanTypeOK
  /\ InPlans!Plans!OneDefault <=> Plans!OneDefault
  /\ InPlans!Plans!PlansKept <=> Plans!PlansKept
  /\ InPlans!Plans!EveryUnitPriced <=> Plans!EveryUnitPriced
  /\ InPlans!Plans!EveryCondominiumBilled <=> Plans!EveryCondominiumBilled
  BY SMTT(60) DEF InPlans!Plans!PlanTypeOK, Plans!PlanTypeOK, InPlans!Plans!OneDefault,
         Plans!OneDefault, InPlans!Plans!PlansKept, Plans!PlansKept,
         InPlans!Plans!EveryUnitPriced, Plans!EveryUnitPriced,
         InPlans!Plans!EveryCondominiumBilled, Plans!EveryCondominiumBilled, InPlans!Plans!Ids,
         Plans!Ids, InPlans!Plans!Plan, Plans!Plan, InPlans!Plans!Existing, Plans!Existing,
         InPlans!Plans!Cardinality, Plans!Cardinality, InPlans!Plans!Defaults, Plans!Defaults,
         InPlans!Plans!Covers, Plans!Covers, InPlans!Plans!PricePerUnit, Plans!PricePerUnit,
         InPlans!Plans!PlanOfCondominium, Plans!PlanOfCondominium, InPlans!Plans!Sorted,
         Plans!Sorted, InPlans!Plans!PlanOfOwner, Plans!PlanOfOwner, InPlans!Plans!ByMin,
         Plans!ByMin

LEMMA PlansStayTyped ==
  ASSUME PlansParameters PROVE Plans!Spec => []Plans!PlanTypeOK
<1>1. InPlans!Plans!Spec => []InPlans!Plans!PlanTypeOK
  BY InPlans!PlansTyped DEF PlansParameters
<1>2. QED
  BY <1>1, SamePlans, SameInPlans, PTL

\* PlansInOrder: however requests overlap and are interrupted, no plan in use is deleted and a
\* plan prices any number of units once; while they do not overlap there is one default plan,
\* and a plan is found for every condominium.
THEOREM PlansOrderly ==
  ASSUME PlansParameters
  PROVE  SpecParts => []PlansInOrder
<1>1. InPlans!Plans!Spec => []InPlans!Plans!OneDefault
  BY InPlans!OneDefaultPlan DEF PlansParameters
<1>2. InPlans!Plans!Spec => []InPlans!Plans!PlansKept
  BY InPlans!PlansStay DEF PlansParameters
<1>3. InPlans!Plans!Spec => []InPlans!Plans!EveryUnitPriced
  BY InPlans!UnitsPriced DEF PlansParameters
<1>4. InPlans!Plans!Spec => []InPlans!Plans!EveryCondominiumBilled
  BY InPlans!CondominiumsBilled DEF PlansParameters
<1>5. QED
  BY <1>1, <1>2, <1>3, <1>4, SamePlans, SameInPlans, PlansGiven, PTL

(***************************************************************************)
(* One-time codes.                                                         *)
(***************************************************************************)

InCodes == INSTANCE Messages_proofs WITH
    Addresses <- OfCodes.Addresses, MaxCodes <- OfCodes.MaxCodes, MaxCalls <- OfCodes.MaxCalls,
    MaxStops <- OfCodes.MaxStops, Slots <- OfCodes.Slots, challenges <- x1, expired <- x2,
    issued <- x3, delivered <- x4, answered <- x5, tokens <- x6, tasks <- x7, calls <- x8,
    stops <- x9, overlaps <- x10, Users <- None, Units <- None, Linked <- None, Contacts <- None,
    Settings <- None, Files <- None, Managers <- None, Readers <- None, MaxRequests <- None,
    MaxReadings <- None, Emails <- None, Phones <- None, MaxAccounts <- None, MaxPeople <- None,
    MaxInvites <- None, MaxCrashes <- None, comm <- None, recipients <- None, links <- None,
    handed <- None, log <- None, attached <- None, stored <- None, asked <- None, read <- None,
    accounts <- None, people <- None, units <- None, invites <- None, requests <- None,
    crashed <- None

\* Bounds are numbers.
CodesParameters == OfCodes.MaxCodes \in Nat /\ InCodes!CodeBounds

LEMMA SameCodes == InCodes!Spec <=> Codes!Spec
<1>1. InCodes!Init <=> Codes!Init
  BY SMTT(60) DEF InCodes!Init, Codes!Init, InCodes!Codes, Codes!Codes, InCodes!Idle, Codes!Idle
<1>2. [InCodes!Next]_InCodes!codeVars <=> [Codes!Next]_Codes!codeVars
  BY SMTT(60) DEF InCodes!Next, Codes!Next, InCodes!codeVars, Codes!codeVars, InCodes!RequestCode,
         Codes!RequestCode, InCodes!VerifyCode, Codes!VerifyCode, InCodes!Clear, Codes!Clear,
         InCodes!Store, Codes!Store, InCodes!Withdraw, Codes!Withdraw, InCodes!Deliver,
         Codes!Deliver, InCodes!ReadNewest, Codes!ReadNewest, InCodes!DropExpired,
         Codes!DropExpired, InCodes!UseCode, Codes!UseCode, InCodes!Interrupt, Codes!Interrupt,
         InCodes!Codes, Codes!Codes, InCodes!Expire, Codes!Expire, InCodes!Start, Codes!Start,
         InCodes!Idle, Codes!Idle, InCodes!DeleteAll, Codes!DeleteAll, InCodes!Advance,
         Codes!Advance, InCodes!Cardinality, Codes!Cardinality, InCodes!Become, Codes!Become,
         InCodes!Valid, Codes!Valid, InCodes!Newest, Codes!Newest
<1>3. QED
  BY <1>1, <1>2, PTL DEF InCodes!Spec, Codes!Spec

LEMMA SameInCodes ==
  /\ InCodes!CodeTypeOK <=> Codes!CodeTypeOK
  /\ InCodes!ReplacedIsDead <=> Codes!ReplacedIsDead
  /\ InCodes!SpentIsDead <=> Codes!SpentIsDead
  /\ InCodes!SentCodeWorks <=> Codes!SentCodeWorks
  BY SMTT(60) DEF InCodes!CodeTypeOK, Codes!CodeTypeOK, InCodes!ReplacedIsDead,
         Codes!ReplacedIsDead, InCodes!SpentIsDead, Codes!SpentIsDead, InCodes!SentCodeWorks,
         Codes!SentCodeWorks, InCodes!Codes, Codes!Codes, InCodes!Task, Codes!Task,
         InCodes!Newest, Codes!Newest, InCodes!Idle, Codes!Idle

LEMMA CodesStayTyped ==
  ASSUME CodesParameters PROVE Codes!Spec => []Codes!CodeTypeOK
<1>1. InCodes!Spec => []InCodes!CodeTypeOK
  BY InCodes!CodesTyped DEF CodesParameters
<1>2. QED
  BY <1>1, SameCodes, SameInCodes, PTL

\* CodesInOrder: however requests overlap and are interrupted, a code that was replaced or
\* spent is dead, two verifications at once apart; one that was reported as sent works while
\* they do neither.
THEOREM CodesOrderly ==
  ASSUME CodesParameters
  PROVE  SpecParts => []CodesInOrder
<1>1. InCodes!Spec => []InCodes!ReplacedIsDead
  BY InCodes!ReplacedCodesDie DEF CodesParameters
<1>2. InCodes!Spec => []InCodes!SpentIsDead
  BY InCodes!SpentCodesDie DEF CodesParameters
<1>3. InCodes!Spec => []InCodes!SentCodeWorks
  BY InCodes!SentCodesWork DEF CodesParameters
<1>4. QED
  BY <1>1, <1>2, <1>3, SameCodes, SameInCodes, CodesGiven, PTL

(***************************************************************************)
(* The assembly.                                                           *)
(***************************************************************************)

InGovernance == INSTANCE Components_proofs WITH
    Users <- OfGovernance.Users, Owner <- OfGovernance.Owner,
    Responsible <- OfGovernance.Responsible, Docs <- OfGovernance.Docs,
    Polls <- OfGovernance.Polls, Slots <- OfGovernance.Slots,
    MaxRequests <- OfGovernance.MaxRequests, MaxStops <- OfGovernance.MaxStops, roles <- x1,
    log <- x2, docs <- x3, closed <- x4, tasks <- x5, asked <- x6, stops <- x7, Units <- None,
    Groupings <- None, Names <- None, Blank <- None, Expenses <- None, Amounts <- None,
    Rules <- None, WorkRule <- None, MaxMoves <- None, MaxCalls <- None, MaxFaults <- None,
    Tickets <- None, MaxFiles <- None, Condominiums <- None, Prices <- None, Bands <- None,
    Patches <- None, MaxPlans <- None, MaxUnits <- None, Funds <- None, Setups <- None,
    Legacy <- None, MaxMonth <- None, MaxCents <- None, MaxIds <- None, home <- None,
    name <- None, expenses <- None, job <- None, calls <- None, faults <- None, overlaps <- None,
    status <- None, messages <- None, stored <- None, closedAt <- None, mails <- None,
    answered <- None, plans <- None, made <- None, planOf <- None, condos <- None, units <- None,
    txs <- None, accruals <- None

\* The owner has an account, and None is neither an account nor a document.
GovernanceParameters == InGovernance!GovernanceParameters

\* Requests do not overlap.
GovernanceTakeTurns == InGovernance!OneSlot

LEMMA SameGovernance == InGovernance!Assembly!Spec <=> Governance!Spec
<1>1. InGovernance!Assembly!Init <=> Governance!Init
  BY SMTT(60) DEF InGovernance!Assembly!Init, Governance!Init, InGovernance!Assembly!Blank,
         Governance!Blank
<1>2. [InGovernance!Assembly!Next]_InGovernance!Assembly!governanceVars
      <=> [Governance!Next]_Governance!governanceVars
  BY SMTT(60) DEF InGovernance!Assembly!Next, Governance!Next,
         InGovernance!Assembly!governanceVars, Governance!governanceVars,
         InGovernance!Assembly!Generate, Governance!Generate, InGovernance!Assembly!ClosePolls,
         Governance!ClosePolls, InGovernance!Assembly!Requests, Governance!Requests,
         InGovernance!Assembly!Steps, Governance!Steps, InGovernance!Assembly!Stop,
         Governance!Stop, InGovernance!Assembly!Governs, Governance!Governs,
         InGovernance!Assembly!BootstrapCount, Governance!BootstrapCount,
         InGovernance!Assembly!Assignable, Governance!Assignable,
         InGovernance!Assembly!CreateParticipant, Governance!CreateParticipant,
         InGovernance!Assembly!RemoveParticipant, Governance!RemoveParticipant,
         InGovernance!Assembly!UploadFinalPdf, Governance!UploadFinalPdf,
         InGovernance!Assembly!Publish, Governance!Publish, InGovernance!Assembly!BootstrapSave,
         Governance!BootstrapSave, InGovernance!Assembly!FindOlds, Governance!FindOlds,
         InGovernance!Assembly!RemoveOlds, Governance!RemoveOlds, InGovernance!Assembly!FindSame,
         Governance!FindSame, InGovernance!Assembly!SaveParticipant, Governance!SaveParticipant,
         InGovernance!Assembly!RemoveRow, Governance!RemoveRow, InGovernance!Assembly!Log,
         Governance!Log, InGovernance!Assembly!FindInOffice, Governance!FindInOffice,
         InGovernance!Assembly!RemoveFromOffice, Governance!RemoveFromOffice,
         InGovernance!Assembly!OfficeCleared, Governance!OfficeCleared,
         InGovernance!Assembly!ElectSyndic, Governance!ElectSyndic,
         InGovernance!Assembly!ElectAdmin, Governance!ElectAdmin,
         InGovernance!Assembly!LogElection, Governance!LogElection, InGovernance!Assembly!SaveDoc,
         Governance!SaveDoc, InGovernance!Assembly!At, Governance!At, InGovernance!Assembly!Ends,
         Governance!Ends, InGovernance!Assembly!Asks, Governance!Asks,
         InGovernance!Assembly!Blank, Governance!Blank, InGovernance!Assembly!Sole,
         Governance!Sole, InGovernance!Assembly!Signed, Governance!Signed,
         InGovernance!Assembly!Published, Governance!Published, InGovernance!Assembly!Insert,
         Governance!Insert, InGovernance!Assembly!Founding, Governance!Founding,
         InGovernance!Assembly!Goes, Governance!Goes, InGovernance!Assembly!Replaced,
         Governance!Replaced, InGovernance!Assembly!Named, Governance!Named,
         InGovernance!Assembly!Holders, Governance!Holders, InGovernance!Assembly!ElectedAdmins,
         Governance!ElectedAdmins, InGovernance!Assembly!Final, Governance!Final
<1>3. QED
  BY <1>1, <1>2, PTL DEF InGovernance!Assembly!Spec, Governance!Spec

LEMMA SameInGovernance ==
  /\ InGovernance!Assembly!GovernanceTypeOK <=> Governance!GovernanceTypeOK
  /\ InGovernance!Assembly!OwnerRowStays <=> Governance!OwnerRowStays
  /\ InGovernance!Assembly!OneHolder <=> Governance!OneHolder
  /\ InGovernance!Assembly!RolesAreLogged <=> Governance!RolesAreLogged
  /\ InGovernance!Assembly!ElectionInForce <=> Governance!ElectionInForce
  /\ InGovernance!Assembly!MinutesShown <=> Governance!MinutesShown
  BY SMTT(60) DEF InGovernance!Assembly!GovernanceTypeOK, Governance!GovernanceTypeOK,
         InGovernance!Assembly!OwnerRowStays, Governance!OwnerRowStays,
         InGovernance!Assembly!OneHolder, Governance!OneHolder,
         InGovernance!Assembly!RolesAreLogged, Governance!RolesAreLogged,
         InGovernance!Assembly!ElectionInForce, Governance!ElectionInForce,
         InGovernance!Assembly!MinutesShown, Governance!MinutesShown, InGovernance!Assembly!Role,
         Governance!Role, InGovernance!Assembly!Doc, Governance!Doc, InGovernance!Assembly!Sole,
         Governance!Sole, InGovernance!Assembly!Cardinality, Governance!Cardinality,
         InGovernance!Assembly!Holders, Governance!Holders, InGovernance!Assembly!AtRest,
         Governance!AtRest, InGovernance!Assembly!Founding, Governance!Founding,
         InGovernance!Assembly!ElectionSettles, Governance!ElectionSettles,
         InGovernance!Assembly!governanceVars, Governance!governanceVars,
         InGovernance!Assembly!ElectionShownByPublication, Governance!ElectionShownByPublication,
         InGovernance!Assembly!Assignable, Governance!Assignable, InGovernance!Assembly!At,
         Governance!At, InGovernance!Assembly!ReadByResidents, Governance!ReadByResidents

LEMMA GovernanceStayTyped ==
  ASSUME GovernanceParameters PROVE Governance!Spec => []Governance!GovernanceTypeOK
<1>1. InGovernance!Assembly!Spec => []InGovernance!Assembly!GovernanceTypeOK
  BY InGovernance!GovernanceTyped DEF GovernanceParameters
<1>2. QED
  BY <1>1, SameGovernance, SameInGovernance, PTL

\* RolesInOrder: with requests one at a time, wherever an assignment or an election is cut
\* short, the owner keeps its role and an office has one holder; as long as none was cut short
\* the audit log knows how every role was got.
THEOREM RolesOrderly ==
  ASSUME GovernanceParameters, GovernanceTakeTurns
  PROVE  SpecParts => []RolesInOrder
<1>1. InGovernance!Assembly!Spec => []InGovernance!Assembly!OwnerRowStays
  BY InGovernance!OwnersStay DEF GovernanceParameters, GovernanceTakeTurns
<1>2. InGovernance!Assembly!Spec => []InGovernance!Assembly!OneHolder
  BY InGovernance!OfficesHeldByOne DEF GovernanceParameters, GovernanceTakeTurns
<1>3. InGovernance!Assembly!Spec => []InGovernance!Assembly!RolesAreLogged
  BY InGovernance!RolesLogged DEF GovernanceParameters, GovernanceTakeTurns
<1>4. QED
  BY <1>1, <1>2, <1>3, SameGovernance, SameInGovernance, RolesGiven, PTL

\* ElectionInForce: with requests one at a time, minutes of an election record an elected
\* syndic only with the elected, and nobody else, in office, and residents read them from their
\* publication on.
THEOREM ElectionsInForce ==
  ASSUME GovernanceParameters, GovernanceTakeTurns
  PROVE  SpecParts => ElectionInForce
<1>1. InGovernance!Assembly!Spec => InGovernance!Assembly!ElectionInForce
  BY InGovernance!ElectedInOffice DEF GovernanceParameters, GovernanceTakeTurns
<1>2. InGovernance!Assembly!Spec => InGovernance!Assembly!MinutesShown
  BY InGovernance!MinutesPublished DEF GovernanceParameters, GovernanceTakeTurns
<1>3. QED
  BY <1>1, <1>2, SameGovernance, SameInGovernance, ElectionGiven, PTL

(***************************************************************************)
(* Shares and fees.                                                        *)
(***************************************************************************)

InFees == INSTANCE Components_proofs WITH
    Units <- OfFees.Units, Groupings <- OfFees.Groupings, Names <- OfFees.Names,
    Blank <- OfFees.Blank, Expenses <- OfFees.Expenses, Amounts <- OfFees.Amounts,
    Rules <- OfFees.Rules, WorkRule <- OfFees.WorkRule, MaxMoves <- OfFees.MaxMoves,
    MaxCalls <- OfFees.MaxCalls, home <- x1, name <- x2, expenses <- x3, job <- x4, calls <- x5,
    Slots <- None, MaxFaults <- None, MaxStops <- None, Tickets <- None, MaxFiles <- None,
    Users <- None, Condominiums <- None, Prices <- None, Bands <- None, Patches <- None,
    MaxPlans <- None, MaxUnits <- None, Owner <- None, Responsible <- None, Docs <- None,
    Polls <- None, MaxRequests <- None, Funds <- None, Setups <- None, Legacy <- None,
    MaxMonth <- None, MaxCents <- None, MaxIds <- None, tasks <- None, faults <- None,
    stops <- None, overlaps <- None, status <- None, messages <- None, stored <- None,
    closedAt <- None, mails <- None, answered <- None, plans <- None, made <- None,
    planOf <- None, condos <- None, roles <- None, log <- None, docs <- None, closed <- None,
    asked <- None, units <- None, txs <- None, accruals <- None

\* Units are numbers, and finitely many, as expenses are; rules are rules.
FeesParameters == InFees!FeeParameters

LEMMA SameFees == InFees!Spec <=> Fees!Spec
<1>1. InFees!Init <=> Fees!Init
  BY SMTT(60) DEF InFees!Init, Fees!Init, InFees!Open, Fees!Open
<1>2. [InFees!Next]_InFees!shareVars <=> [Fees!Next]_Fees!shareVars
  BY SMTT(60) DEF InFees!Next, Fees!Next, InFees!shareVars, Fees!shareVars, InFees!Create,
         Fees!Create, InFees!Update, Fees!Update, InFees!LinkWork, Fees!LinkWork,
         InFees!SetStatus, Fees!SetStatus, InFees!Remove, Fees!Remove, InFees!Store, Fees!Store,
         InFees!RemoveUnit, Fees!RemoveUnit, InFees!AddUnit, Fees!AddUnit, InFees!CreateGrouping,
         Fees!CreateGrouping, InFees!RenameGrouping, Fees!RenameGrouping, InFees!RemoveGrouping,
         Fees!RemoveGrouping, InFees!Begin, Fees!Begin, InFees!Existing, Fees!Existing,
         InFees!Change, Fees!Change, InFees!Drop, Fees!Drop, InFees!Open, Fees!Open,
         InFees!Cardinality, Fees!Cardinality, InFees!Resolvable, Fees!Resolvable,
         InFees!Distribute, Fees!Distribute, InFees!Selected, Fees!Selected, InFees!RuleFor,
         Fees!RuleFor
<1>3. QED
  BY <1>1, <1>2, PTL DEF InFees!Spec, Fees!Spec

LEMMA SameInFees ==
  /\ InFees!ShareTypeOK <=> Fees!ShareTypeOK
  /\ InFees!SharesAddUp <=> Fees!SharesAddUp
  BY SMTT(60) DEF InFees!ShareTypeOK, Fees!ShareTypeOK, InFees!SharesAddUp, Fees!SharesAddUp,
         InFees!Existing, Fees!Existing, InFees!Open, Fees!Open, InFees!Stored, Fees!Stored,
         InFees!Rule, Fees!Rule, InFees!Sum, Fees!Sum, InFees!MapThenSumSet, Fees!MapThenSumSet,
         InFees!MapThenFoldSet, Fees!MapThenFoldSet, InFees!Cardinality, Fees!Cardinality

\* The definitions of the fees are too deep to be expanded at once.
LEMMA SameMissing ==
  ASSUME NEW level, NEW sharers, NEW missing
  PROVE  InFees!AddMissing(level, sharers, missing) = Fees!AddMissing(level, sharers, missing)
<1> DEFINE
    smallest1 ==
        CHOOSE c \in {InFees!Alike(u, sharers) : u \in sharers} :
            \A d \in {InFees!Alike(u, sharers) : u \in sharers} :
                \/ InFees!Cardinality(c) < InFees!Cardinality(d)
                \/ InFees!Cardinality(c) = InFees!Cardinality(d) /\ InFees!Min(c) <= InFees!Min(d)
    size1 == InFees!Cardinality(smallest1)
    moves1 == InFees!Min({OfFees.MaxMoves, missing \div size1})
    lifted1 == [u \in InFees!Existing |-> level[u] + IF u \in smallest1 THEN moves1 ELSE 0]
    paying1 == {u \in InFees!Existing : lifted1[u] > 0}
    rest1 == InFees!Distribute(missing - moves1 * size1,
                           IF paying1 = {} THEN InFees!Existing ELSE paying1)
    all1 == [u \in InFees!Existing |->
                lifted1[u] + IF u \in DOMAIN rest1 THEN rest1[u] ELSE 0]
    smallest2 ==
        CHOOSE c \in {Fees!Alike(u, sharers) : u \in sharers} :
            \A d \in {Fees!Alike(u, sharers) : u \in sharers} :
                \/ Fees!Cardinality(c) < Fees!Cardinality(d)
                \/ Fees!Cardinality(c) = Fees!Cardinality(d) /\ Fees!Min(c) <= Fees!Min(d)
    size2 == Fees!Cardinality(smallest2)
    moves2 == Fees!Min({OfFees.MaxMoves, missing \div size2})
    lifted2 == [u \in Fees!Existing |-> level[u] + IF u \in smallest2 THEN moves2 ELSE 0]
    paying2 == {u \in Fees!Existing : lifted2[u] > 0}
    rest2 == Fees!Distribute(missing - moves2 * size2,
                           IF paying2 = {} THEN Fees!Existing ELSE paying2)
    all2 == [u \in Fees!Existing |->
                lifted2[u] + IF u \in DOMAIN rest2 THEN rest2[u] ELSE 0]
<1>1. InFees!AddMissing(level, sharers, missing) = all1
  BY SMTT(60) DEF InFees!AddMissing
<1>2. Fees!AddMissing(level, sharers, missing) = all2
  BY DEF Fees!AddMissing
<1>3. smallest1 = smallest2
  BY SMTT(60) DEF InFees!Alike, Fees!Alike, InFees!Class, Fees!Class, InFees!Cardinality,
         Fees!Cardinality, InFees!Min, Fees!Min
<1>4. InFees!Existing = Fees!Existing
  BY SMTT(60) DEF InFees!Existing, Fees!Existing
<1>5. \A S : InFees!Cardinality(S) = Fees!Cardinality(S)
  BY SMTT(60) DEF InFees!Cardinality, Fees!Cardinality
<1>6. \A S : InFees!Min(S) = Fees!Min(S)
  BY SMTT(60) DEF InFees!Min, Fees!Min
<1>7. \A t, S : InFees!Distribute(t, S) = Fees!Distribute(t, S)
  BY SMTT(60) DEF InFees!Distribute, Fees!Distribute, InFees!Cardinality, Fees!Cardinality
<1> HIDE DEF smallest1, smallest2
<1>8. size1 = size2
  BY <1>3, <1>5
<1> HIDE DEF size1, size2
<1>9. moves1 = moves2
  BY <1>6, <1>8
<1> HIDE DEF moves1, moves2
<1>10. lifted1 = lifted2
  BY <1>3, <1>4, <1>9
<1> HIDE DEF lifted1, lifted2
<1>11. paying1 = paying2
  BY <1>4, <1>10
<1> HIDE DEF paying1, paying2
<1>12. rest1 = rest2
  BY <1>4, <1>7, <1>8, <1>9, <1>11
<1> HIDE DEF rest1, rest2
<1>13. all1 = all2
  BY <1>4, <1>10, <1>12
<1> HIDE DEF all1, all2
<1>14. QED
  BY <1>1, <1>2, <1>13

LEMMA SameRows ==
  /\ InFees!Existing = Fees!Existing /\ InFees!Counted = Fees!Counted
  /\ \A u, S : InFees!Alike(u, S) = Fees!Alike(u, S)
  /\ \A f, S : InFees!Sum(f, S) = Fees!Sum(f, S)
<1>1. /\ InFees!Existing = Fees!Existing /\ InFees!Counted = Fees!Counted
      /\ \A u, S : InFees!Alike(u, S) = Fees!Alike(u, S)
  BY SMTT(60) DEF InFees!Existing, Fees!Existing, InFees!Counted, Fees!Counted, InFees!Stored,
         Fees!Stored, InFees!Alike, Fees!Alike, InFees!Class, Fees!Class
<1>2. \A f, S : InFees!Sum(f, S) = Fees!Sum(f, S)
  BY SMTT(60) DEF InFees!Sum, Fees!Sum, InFees!MapThenSumSet, Fees!MapThenSumSet,
         InFees!MapThenFoldSet, Fees!MapThenFoldSet
<1>3. QED
  BY <1>1, <1>2

LEMMA SameDue == \A u : InFees!Due(u) = Fees!Due(u)
<1>1. \A row : InFees!Levelled(row) = Fees!Levelled(row) /\ InFees!Sharers(row) = Fees!Sharers(row)
  BY SMTT(60) DEF InFees!Sharers, Fees!Sharers, InFees!Levelled, Fees!Levelled, InFees!Max,
         Fees!Max, InFees!Existing, Fees!Existing, InFees!Alike, Fees!Alike, InFees!Class,
         Fees!Class
<1>2. \A S : InFees!Max(S) = Fees!Max(S)
  BY SMTT(60) DEF InFees!Max, Fees!Max
<1>3. \A row : InFees!Equalized(row) = Fees!Equalized(row)
  BY <1>1, SameRows, SameMissing DEF InFees!Equalized, Fees!Equalized
<1>4. ASSUME NEW u PROVE InFees!Raw(u) = Fees!Raw(u)
  <2>1. [t \in InFees!Counted |-> InFees!Equalized(x3[t])[u]]
        = [t \in Fees!Counted |-> Fees!Equalized(x3[t])[u]]
    BY <1>3, SameRows
  <2>2. QED
    BY <2>1, SameRows DEF InFees!Raw, Fees!Raw
<1>5. ASSUME NEW u PROVE InFees!Due(u) = Fees!Due(u)
  <2>1. {InFees!Raw(v) : v \in InFees!Alike(u, InFees!Existing)}
        = {Fees!Raw(v) : v \in Fees!Alike(u, Fees!Existing)}
    BY <1>4, SameRows
  <2>2. QED
    BY <2>1, <1>2 DEF InFees!Due, Fees!Due
<1>6. QED
  BY <1>5

LEMMA SameCharges ==
  /\ InFees!ExpensesCovered <=> Fees!ExpensesCovered
  /\ InFees!NobodyOvercharged <=> Fees!NobodyOvercharged
<1>1. \A u, row : InFees!Part(u, row) = Fees!Part(u, row)
  BY SMTT(60) DEF InFees!Part, Fees!Part, InFees!Alike, Fees!Alike, InFees!Class, Fees!Class,
         InFees!Existing, Fees!Existing, InFees!Cardinality, Fees!Cardinality
<1>2. [u \in InFees!Existing |-> InFees!Due(u)] = [u \in Fees!Existing |-> Fees!Due(u)]
  BY SameRows, SameDue
<1>3. InFees!ExpensesCovered <=> Fees!ExpensesCovered
  BY <1>2, SameRows DEF InFees!ExpensesCovered, Fees!ExpensesCovered
<1>4. \A u : [t \in InFees!Counted |-> InFees!Part(u, x3[t])]
             = [t \in Fees!Counted |-> Fees!Part(u, x3[t])]
  BY <1>1, SameRows
<1>5. InFees!NobodyOvercharged <=> Fees!NobodyOvercharged
  BY <1>4, SameRows, SameDue DEF InFees!NobodyOvercharged, Fees!NobodyOvercharged
<1>6. QED
  BY <1>3, <1>5

LEMMA FeesStayTyped ==
  ASSUME FeesParameters PROVE Fees!Spec => []Fees!ShareTypeOK
<1>1. InFees!Spec => []InFees!ShareTypeOK
  BY InFees!SharesTyped DEF FeesParameters
<1>2. QED
  BY <1>1, SameFees, SameInFees, PTL

(***************************************************************************)
(* Accruals of the funds.                                                  *)
(***************************************************************************)

InAccruals == INSTANCE Components_proofs WITH
    Funds <- OfAccruals.Funds, Legacy <- OfAccruals.Legacy, Setups <- OfAccruals.Setups,
    MaxMonth <- OfAccruals.MaxMonth, MaxUnits <- OfAccruals.MaxUnits,
    MaxCents <- OfAccruals.MaxCents, MaxIds <- OfAccruals.MaxIds, MaxCalls <- OfAccruals.MaxCalls,
    MaxFaults <- OfAccruals.MaxFaults, Slots <- OfAccruals.Slots, plans <- x1, units <- x2,
    txs <- x3, accruals <- x4, closed <- x5, made <- x6, tasks <- x7, calls <- x8, faults <- x9,
    overlaps <- x10, Units <- None, Groupings <- None, Names <- None, Blank <- None,
    Expenses <- None, Amounts <- None, Rules <- None, WorkRule <- None, MaxMoves <- None,
    MaxStops <- None, Tickets <- None, MaxFiles <- None, Users <- None, Condominiums <- None,
    Prices <- None, Bands <- None, Patches <- None, MaxPlans <- None, Owner <- None,
    Responsible <- None, Docs <- None, Polls <- None, MaxRequests <- None, home <- None,
    name <- None, expenses <- None, job <- None, stops <- None, status <- None, messages <- None,
    stored <- None, closedAt <- None, mails <- None, answered <- None, planOf <- None,
    condos <- None, roles <- None, log <- None, docs <- None, asked <- None

\* Bounds are numbers, there is a month, and None is no row.
AccrualsParameters == InAccruals!AccrualParameters

LEMMA SameAccruals == InAccruals!Accruals!Spec <=> Accruals!Spec
<1>1. InAccruals!Accruals!Init <=> Accruals!Init
  BY SMTT(60) DEF InAccruals!Accruals!Init, Accruals!Init, InAccruals!Accruals!Ids, Accruals!Ids,
         InAccruals!Accruals!Range, Accruals!Range, InAccruals!Accruals!Cardinality,
         Accruals!Cardinality, InAccruals!Accruals!LegacyTx, Accruals!LegacyTx,
         InAccruals!Accruals!Idle, Accruals!Idle, InAccruals!Accruals!Counts, Accruals!Counts
<1>2. [InAccruals!Accruals!Next]_InAccruals!Accruals!accrualVars
      <=> [Accruals!Next]_Accruals!accrualVars
  BY SMTT(60) DEF InAccruals!Accruals!Next, Accruals!Next, InAccruals!Accruals!accrualVars,
         Accruals!accrualVars, InAccruals!Accruals!Months, Accruals!Months,
         InAccruals!Accruals!CloseMonth, Accruals!CloseMonth, InAccruals!Accruals!RegenerateMonth,
         Accruals!RegenerateMonth, InAccruals!Accruals!ListAccruals, Accruals!ListAccruals,
         InAccruals!Accruals!ReadStatus, Accruals!ReadStatus, InAccruals!Accruals!ClearPending,
         Accruals!ClearPending, InAccruals!Accruals!FindAccrual, Accruals!FindAccrual,
         InAccruals!Accruals!ReadAccrued, Accruals!ReadAccrued, InAccruals!Accruals!DropShares,
         Accruals!DropShares, InAccruals!Accruals!CreditShares, Accruals!CreditShares,
         InAccruals!Accruals!TurnIntoIncome, Accruals!TurnIntoIncome,
         InAccruals!Accruals!ResolveUnits, Accruals!ResolveUnits, InAccruals!Accruals!MakeIncome,
         Accruals!MakeIncome, InAccruals!Accruals!MarkAccrued, Accruals!MarkAccrued,
         InAccruals!Accruals!Fault, Accruals!Fault, InAccruals!Accruals!Ids, Accruals!Ids,
         InAccruals!Accruals!RemoveTransaction, Accruals!RemoveTransaction,
         InAccruals!Accruals!ReopenTransaction, Accruals!ReopenTransaction,
         InAccruals!Accruals!UpdateFund, Accruals!UpdateFund, InAccruals!Accruals!Start,
         Accruals!Start, InAccruals!Accruals!Idle, Accruals!Idle, InAccruals!Accruals!Become,
         Accruals!Become, InAccruals!Accruals!RemoveTxs, Accruals!RemoveTxs,
         InAccruals!Accruals!IsLegacy, Accruals!IsLegacy, InAccruals!Accruals!NextFund,
         Accruals!NextFund, InAccruals!Accruals!NoShares, Accruals!NoShares,
         InAccruals!Accruals!Advance, Accruals!Advance, InAccruals!Accruals!Put, Accruals!Put,
         InAccruals!Accruals!Due, Accruals!Due, InAccruals!Accruals!Without, Accruals!Without,
         InAccruals!Accruals!SettleTransaction, Accruals!SettleTransaction,
         InAccruals!Accruals!CancelTransaction, Accruals!CancelTransaction,
         InAccruals!Accruals!Handles, Accruals!Handles, InAccruals!Accruals!ChangeStatus,
         Accruals!ChangeStatus, InAccruals!Accruals!Unresolved, Accruals!Unresolved
<1>3. QED
  BY <1>1, <1>2, PTL DEF InAccruals!Accruals!Spec, Accruals!Spec

LEMMA SameInAccruals ==
  /\ InAccruals!Accruals!AccrualTypeOK <=> Accruals!AccrualTypeOK
  /\ InAccruals!Accruals!AccruedOnce <=> Accruals!AccruedOnce
  /\ InAccruals!Accruals!ClosedIsAccrued <=> Accruals!ClosedIsAccrued
  BY SMTT(60) DEF InAccruals!Accruals!AccrualTypeOK, Accruals!AccrualTypeOK,
         InAccruals!Accruals!AccruedOnce, Accruals!AccruedOnce,
         InAccruals!Accruals!ClosedIsAccrued, Accruals!ClosedIsAccrued, InAccruals!Accruals!Fund,
         Accruals!Fund, InAccruals!Accruals!Ids, Accruals!Ids, InAccruals!Accruals!Range,
         Accruals!Range, InAccruals!Accruals!Tx, Accruals!Tx, InAccruals!Accruals!Keys,
         Accruals!Keys, InAccruals!Accruals!Task, Accruals!Task, InAccruals!Accruals!Months,
         Accruals!Months, InAccruals!Accruals!Cardinality, Accruals!Cardinality,
         InAccruals!Accruals!Incomes, Accruals!Incomes, InAccruals!Accruals!Idle, Accruals!Idle,
         InAccruals!Accruals!Due, Accruals!Due, InAccruals!Accruals!NoShares, Accruals!NoShares,
         InAccruals!Accruals!Shares, Accruals!Shares, InAccruals!Accruals!Counts, Accruals!Counts

LEMMA AccrualsStayTyped ==
  ASSUME AccrualsParameters PROVE Accruals!Spec => []Accruals!AccrualTypeOK
<1>1. InAccruals!Accruals!Spec => []InAccruals!Accruals!AccrualTypeOK
  BY InAccruals!AccrualsTypedAlways DEF AccrualsParameters
<1>2. QED
  BY <1>1, SameAccruals, SameInAccruals, PTL

\* CostsShared, with the exceptions the property names. As long as calls do not overlap a month
\* that was closed has the accrual of every fund that owes, credited and paid unless it is an
\* expense of an earlier release that was settled or cancelled by hand, and a fund one income
\* per month as long as none was interrupted (closeMonth, regenerateMonth). The rows of
\* an expense add up to it unless a unit was removed, the fees of a month cover its expenses as
\* long as there is a unit, and nobody is charged more than its part while no row is missing.
THEOREM CostsAreShared ==
  ASSUME AccrualsParameters, FeesParameters
  PROVE  SpecParts => []CostsShared
<1>1. InAccruals!Accruals!Spec => []InAccruals!Accruals!AccruedOnce
  BY InAccruals!AccruedAtMostOnce DEF AccrualsParameters
<1>2. InAccruals!Accruals!Spec => []InAccruals!Accruals!ClosedIsAccrued
  BY InAccruals!ClosedMonthsAccrued DEF AccrualsParameters
<1>3. InFees!Spec => []InFees!SharesAddUp
  BY InFees!RowsAddUp DEF FeesParameters
<1>4. InFees!Spec => []InFees!ExpensesCovered
  BY InFees!FeesCoverExpenses DEF FeesParameters
<1>5. InFees!Spec => []InFees!NobodyOvercharged
  BY InFees!NobodyPaysMore DEF FeesParameters
<1>6. QED
  BY <1>1, <1>2, <1>3, <1>4, <1>5, SameAccruals, SameInAccruals, SameFees, SameInFees,
     SameCharges, CostsGiven, PTL

(***************************************************************************)
(* Support tickets.                                                        *)
(***************************************************************************)

InTickets == INSTANCE Components_proofs WITH
    Tickets <- OfTickets.Tickets, MaxCalls <- OfTickets.MaxCalls, MaxFiles <- OfTickets.MaxFiles,
    MaxFaults <- OfTickets.MaxFaults, Slots <- OfTickets.Slots, status <- x1, messages <- x2,
    stored <- x3, closedAt <- x4, mails <- x5, answered <- x6, tasks <- x7, calls <- x8,
    faults <- x9, overlaps <- x10, Units <- None, Groupings <- None, Names <- None, Blank <- None,
    Expenses <- None, Amounts <- None, Rules <- None, WorkRule <- None, MaxMoves <- None,
    MaxStops <- None, Users <- None, Condominiums <- None, Prices <- None, Bands <- None,
    Patches <- None, MaxPlans <- None, MaxUnits <- None, Owner <- None, Responsible <- None,
    Docs <- None, Polls <- None, MaxRequests <- None, Funds <- None, Setups <- None,
    Legacy <- None, MaxMonth <- None, MaxCents <- None, MaxIds <- None, home <- None,
    name <- None, expenses <- None, job <- None, stops <- None, plans <- None, made <- None,
    planOf <- None, condos <- None, roles <- None, log <- None, docs <- None, closed <- None,
    asked <- None, units <- None, txs <- None, accruals <- None

\* Bounds are numbers, and None is neither a status nor a row.
TicketsParameters == InTickets!TicketParameters /\ InTickets!TicketBounds

LEMMA SameTickets == InTickets!Support!Spec <=> Support!Spec
<1>1. InTickets!Support!Init <=> Support!Init
  BY SMTT(60) DEF InTickets!Support!Init, Support!Init, InTickets!Support!Idle, Support!Idle
<1>2. [InTickets!Support!Next]_InTickets!Support!ticketVars <=> [Support!Next]_Support!ticketVars
  BY SMTT(60) DEF InTickets!Support!Next, Support!Next, InTickets!Support!ticketVars,
         Support!ticketVars, InTickets!Support!Create, Support!Create,
         InTickets!Support!PostMessage, Support!PostMessage, InTickets!Support!Statuses,
         Support!Statuses, InTickets!Support!PatchStatus, Support!PatchStatus,
         InTickets!Support!SaveFile, Support!SaveFile, InTickets!Support!InsertMessage,
         Support!InsertMessage, InTickets!Support!SelectTicket, Support!SelectTicket,
         InTickets!Support!WriteTicket, Support!WriteTicket, InTickets!Support!Notify,
         Support!Notify, InTickets!Support!Finish, Support!Finish, InTickets!Support!Fail,
         Support!Fail, InTickets!Support!Begin, Support!Begin, InTickets!Support!Become,
         Support!Become, InTickets!Support!Idle, Support!Idle, InTickets!Support!FilesThen,
         Support!FilesThen, InTickets!Support!TakesMessages, Support!TakesMessages,
         InTickets!Support!At, Support!At, InTickets!Support!AfterInsert, Support!AfterInsert,
         InTickets!Support!EntitySave!Saved, Support!EntitySave!Saved,
         InTickets!Support!NewStatus, Support!NewStatus, InTickets!Support!Move, Support!Move,
         InTickets!Support!Answer, Support!Answer, InTickets!Support!LastReply, Support!LastReply,
         InTickets!Support!EntitySave!Merge, Support!EntitySave!Merge
<1>3. QED
  BY <1>1, <1>2, PTL DEF InTickets!Support!Spec, Support!Spec

LEMMA SameInTickets ==
  /\ InTickets!Support!TicketTypeOK <=> Support!TicketTypeOK
  /\ InTickets!Support!MessagesComplete <=> Support!MessagesComplete
  /\ InTickets!Support!MailShowsReply <=> Support!MailShowsReply
  /\ InTickets!Support!ClosedIsQuiet <=> Support!ClosedIsQuiet
  /\ InTickets!Support!AnsweredIsTaken <=> Support!AnsweredIsTaken
  BY SMTT(60) DEF InTickets!Support!TicketTypeOK, Support!TicketTypeOK,
         InTickets!Support!MessagesComplete, Support!MessagesComplete,
         InTickets!Support!MailShowsReply, Support!MailShowsReply,
         InTickets!Support!ClosedIsQuiet, Support!ClosedIsQuiet,
         InTickets!Support!AnsweredIsTaken, Support!AnsweredIsTaken, InTickets!Support!Statuses,
         Support!Statuses, InTickets!Support!Idle, Support!Idle

LEMMA TicketsStayTyped ==
  ASSUME TicketsParameters PROVE Support!Spec => []Support!TicketTypeOK
<1>1. InTickets!Support!Spec => []InTickets!Support!TicketTypeOK
  BY InTickets!TicketsTyped DEF TicketsParameters
<1>2. QED
  BY <1>1, SameTickets, SameInTickets, PTL

\* TicketsInOrder: however requests overlap and fail, messages have their files, a mail shows
\* the reply it is about or a later one, and a closed ticket has no message of a request that
\* began afterwards; while they do neither an answered ticket is not shown as open.
THEOREM TicketsOrderly ==
  ASSUME TicketsParameters
  PROVE  SpecParts => []TicketsInOrder
<1>1. InTickets!Support!Spec => []InTickets!Support!MessagesComplete
  BY InTickets!TicketMessagesComplete DEF TicketsParameters
<1>2. InTickets!Support!Spec => []InTickets!Support!MailShowsReply
  BY InTickets!TicketMailsShowReply DEF TicketsParameters
<1>3. InTickets!Support!Spec => []InTickets!Support!ClosedIsQuiet
  BY InTickets!ClosedTicketsQuiet DEF TicketsParameters
<1>4. InTickets!Support!Spec => []InTickets!Support!AnsweredIsTaken
  BY InTickets!AnsweredTicketsTaken DEF TicketsParameters
<1>5. QED
  BY <1>1, <1>2, <1>3, <1>4, SameTickets, SameInTickets, TicketsGiven, PTL

(***************************************************************************)
(* All of them.                                                            *)
(***************************************************************************)

\* TypeOK: whichever component runs, its rows, requests and files stay of their type and refer
\* to rows that exist, however requests overlap, those of works and maintenances apart.
THEOREM TypesHold ==
  ASSUME PeopleParameters, GovernanceParameters, TimelinesParameters, MessagesParameters,
         AccrualsParameters, FeesParameters, CodesParameters, PlansParameters, TicketsParameters
  PROVE  SpecParts => []TypeOK
BY PeopleStayTyped, GovernanceStayTyped, TimelinesStayTyped, MessagesStayTyped, AccrualsStayTyped,
   FeesStayTyped, CodesStayTyped, PlansStayTyped, TicketsStayTyped, TypesGiven, PTL
===============================================================================
