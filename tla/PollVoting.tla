----------------------------- MODULE PollVoting -----------------------------
(***************************************************************************)
(* A poll of an assembly: its lifecycle, its questions, and the votes and  *)
(* abstentions of the units (PlanningPollsService).  Polls share nothing,  *)
(* so there is one.                                                        *)
(*                                                                         *)
(* No handler uses a transaction: each statement is an action, and `save`  *)
(* of the poll is a SELECT and an UPDATE (EntitySave).  Titles, texts,     *)
(* dates, archiving, attachments, notes and the decided option the poll    *)
(* repeats are left out; a resident's vote arrives within the voting       *)
(* period.                                                                 *)
(***************************************************************************)
EXTENDS Integers, FiniteSets, EntitySave

CONSTANTS
    Units,       \* the units of the condominium
    Questions,   \* the identifiers questions can get
    Options,     \* the identifiers options can get
    QuestionOf,  \* option -> its question
    Multiple,    \* the questions that admit several options of a unit
    Forms,       \* the sets of questions a poll can be given, pairwise disjoint
    Overrides,   \* the statuses an update writes
    Workers,     \* requests in progress
    Keep,        \* a patch leaves a column as it is
    Absent       \* a question that is not in the table

Statuses == {"draft", "open", "closed", "decided", "postponed", "withdrawn"}
Types == {"ordinary", "election", "ata"}
OptionsOf(q) == {o \in Options : QuestionOf[o] = q}

Row == [status : Statuses, type : Types]

RowOrNone == Row \cup {None}

\* The table of questions: a question has a decided option or none.
Table == [Questions -> Options \cup {None, Absent}]

PCs == {"idle", "save_load", "save_write", "refresh", "delete_row", "decide_question",
        "replace_votes", "replace_questions", "replace_insert",
        "cast_merge", "cast_clear", "cast_delete", "cast_insert",
        "abstain_votes", "abstain_clear", "abstain_insert"}

Request == [pc   : PCs,
            ent  : RowOrNone,                       \* the entity of the handler
            base : RowOrNone,                       \* the row `save` compares it with
            qs   : Table,                           \* the questions it was loaded with
            then : {"done", "refresh"},             \* what follows the save
            form : Forms \cup {{}},                 \* the questions that replace them
            unit : Units \cup {None},
            any  : BOOLEAN,                         \* may vote for any unit
            ids  : SUBSET Options,                  \* the options submitted, then merged
            o    : Options \cup {None}]                \* the option decided

NoQuestions == [q \in Questions |-> Absent]

Idle == [pc |-> "idle", ent |-> None, base |-> None, qs |-> NoQuestions, then |-> "done",
         form |-> {}, unit |-> None, any |-> FALSE, ids |-> {}, o |-> None]

ASSUME ConstantsAssumption ==
    /\ QuestionOf \in [Options -> Questions]
    /\ \A q \in Questions : \E o \in Options : QuestionOf[o] = q
    /\ Multiple \subseteq Questions
    /\ Forms \subseteq SUBSET Questions
    /\ Overrides \subseteq Statuses
    /\ None \notin Row /\ None \notin Units /\ None \notin Options
    /\ Absent \notin Options \cup {None}
    /\ Keep \notin Types /\ Keep \notin Statuses /\ Keep \notin Forms \cup {{}}

VARIABLES
    poll,        \* the row of planning_polls
    question,    \* table planning_poll_questions
    votes,       \* table planning_poll_votes: pairs of a unit and an option
    abstained,   \* table planning_poll_abstentions: pairs of a unit and a question
    used,        \* the forms whose identifiers were given out
    req          \* the requests in progress

vars == <<poll, question, votes, abstained, used, req>>

TypeOK ==
    /\ poll \in RowOrNone
    /\ question \in Table
    /\ votes \subseteq Units \X Options
    /\ abstained \subseteq Units \X Questions
    /\ used \subseteq Forms
    /\ req \in [Workers -> Request]

Init ==
    /\ poll = None
    /\ question = NoQuestions
    /\ votes = {}
    /\ abstained = {}
    /\ used = {}
    /\ req = [w \in Workers |-> Idle]

-----------------------------------------------------------------------------
Rows(table) == {q \in Questions : table[q] # Absent}
HasVoting(table) == \E o \in Options : table[QuestionOf[o]] # Absent    \* pollHasVoting

Start(w, r) == req[w].pc = "idle" /\ req' = [req EXCEPT ![w] = r]
Finish(w) == req' = [req EXCEPT ![w] = Idle]
Continue(w, pc) == req' = [req EXCEPT ![w].pc = pc]

Status(S) == poll # None /\ poll.status \in S

\* A handler that loaded the poll and goes on to save `ent`.
Edit(ent) == [Idle EXCEPT !.pc = "save_load", !.ent = ent, !.qs = question]

\* The questions a poll of a type may be given (normalizeQuestionInputs).
Fits(type, form) ==
    IF type = "ata" THEN form = {}
    ELSE form # {} /\ (type = "election" => form \cap Multiple = {})

FreshTable(form) == [q \in Questions |-> IF q \in form THEN None ELSE Absent]

\* create: the poll and its questions, in the transaction of one save.
Create(type, form) ==
    /\ poll = None
    /\ Fits(type, form)
    /\ form \notin used
    /\ poll' = [status |-> "draft", type |-> type]
    /\ question' = FreshTable(form)
    /\ used' = used \cup ({form} \ {{}})
    /\ UNCHANGED <<votes, abstained, req>>

-----------------------------------------------------------------------------
(***************************************************************************)
(* `save` of the poll.  When the poll is gone it is inserted again, with   *)
(* the questions the entity was loaded with (cascade insert).              *)
(***************************************************************************)
SaveLoad(w) ==
    /\ req[w].pc = "save_load"
    /\ req' = [req EXCEPT ![w].pc = "save_write", ![w].base = poll]
    /\ UNCHANGED <<poll, question, votes, abstained, used>>

SaveWrite(w) ==
    /\ req[w].pc = "save_write"
    /\ poll' = Saved(poll, req[w].base, req[w].ent)
    /\ question' = IF req[w].base # None THEN question
                   ELSE [q \in Questions |-> IF question[q] = Absent THEN req[w].qs[q]
                                             ELSE question[q]]
    /\ req' = [req EXCEPT ![w] = IF req[w].then = "done" THEN Idle
                                 ELSE [Idle EXCEPT !.pc = "refresh"]]
    /\ UNCHANGED <<votes, abstained, used>>

(***************************************************************************)
(* The handlers that load the poll, check its status and save another.     *)
(***************************************************************************)
Move(w, from, to) ==
    /\ Status({from})
    /\ Start(w, Edit([poll EXCEPT !.status = to]))
    /\ UNCHANGED <<poll, question, votes, abstained, used>>

Open(w) ==
    /\ poll # None /\ poll.type # "ata" => HasVoting(question)
    /\ Move(w, "draft", "open")

Close(w) == Move(w, "open", "closed")

FinalizeAta(w) ==
    /\ poll # None /\ poll.type = "ata"
    /\ Move(w, "closed", "decided")

RegisterFinalResolution(w) == \E outcome \in {"postponed", "withdrawn"} : Move(w, "closed", outcome)

Resume(w) == Move(w, "postponed", "draft")

DeleteRead(w) ==
    /\ Status({"draft"})
    /\ Start(w, [Idle EXCEPT !.pc = "delete_row"])
    /\ UNCHANGED <<poll, question, votes, abstained, used>>

\* By identifier; questions, votes and abstentions go with the poll.
DeleteRow(w) ==
    /\ req[w].pc = "delete_row"
    /\ poll' = None
    /\ question' = NoQuestions
    /\ votes' = {}
    /\ abstained' = {}
    /\ Finish(w)
    /\ UNCHANGED used

(***************************************************************************)
(* decide: the option goes to the question; the poll is saved, loaded      *)
(* again, and decided when all its questions are.                          *)
(***************************************************************************)
DecideRead(w, o) ==
    /\ Status({"closed"})
    /\ poll.type # "ata"
    /\ question[QuestionOf[o]] # Absent
    /\ Start(w, [Edit(poll) EXCEPT !.pc = "decide_question", !.then = "refresh", !.o = o])
    /\ UNCHANGED <<poll, question, votes, abstained, used>>

DecideQuestion(w) ==
    LET o == req[w].o
    IN  /\ req[w].pc = "decide_question"
        /\ question' = [question EXCEPT ![QuestionOf[o]] = IF @ = Absent THEN Absent ELSE o]
        /\ Continue(w, "save_load")
        /\ UNCHANGED <<poll, votes, abstained, used>>

SomeDecided(table) == \E q \in Rows(table) : table[q] # None        \* mutant

AllDecided(table) == Rows(table) # {} /\ \A q \in Rows(table) : table[q] # None

Refresh(w) ==
    /\ req[w].pc = "refresh"
    /\ poll # None
    /\ IF AllDecided(question)
       THEN req' = [req EXCEPT ![w] = Edit([poll EXCEPT !.status = "decided"])]
       ELSE Finish(w)
    /\ UNCHANGED <<poll, question, votes, abstained, used>>

(***************************************************************************)
(* update.  The type and the questions can be patched in a draft; new      *)
(* questions replace the old ones, with the votes, in three statements     *)
(* before the poll is saved.  A status is written as it is.                *)
(***************************************************************************)
InAnyStatus(type, form) == poll # None        \* mutant: not only in a draft

Configurable(type, form) == type # Keep \/ form # Keep => Status({"draft"})

UpdateRead(w, type, form, status) ==
    LET next == IF type = Keep THEN poll.type ELSE type
        ent == [poll EXCEPT !.type = next, !.status = IF status = Keep THEN @ ELSE status]
    IN  /\ Status(Statuses)
        /\ Configurable(type, form)
        /\ form # Keep => Fits(next, form) /\ form \notin used
        /\ poll.type = "ata" /\ next # "ata" => form # Keep
        /\ Start(w, IF form = Keep THEN Edit(ent)
                    ELSE [Edit(ent) EXCEPT !.pc = "replace_votes", !.form = form])
        /\ UNCHANGED <<poll, question, votes, abstained, used>>

ReplaceVotes(w) ==
    /\ req[w].pc = "replace_votes"
    /\ votes' = {}
    /\ Continue(w, "replace_questions")
    /\ UNCHANGED <<poll, question, abstained, used>>

\* Options, votes and abstentions go with the questions.
ReplaceQuestions(w) ==
    /\ req[w].pc = "replace_questions"
    /\ question' = NoQuestions
    /\ votes' = {}
    /\ abstained' = {}
    /\ Continue(w, "replace_insert")
    /\ UNCHANGED <<poll, used>>

ReplaceInsert(w) ==
    LET form == req[w].form
    IN  /\ req[w].pc = "replace_insert"
        /\ form \notin used
        /\ form # {} => poll # None
        /\ question' = [q \in Questions |-> IF q \in form THEN None ELSE question[q]]
        /\ used' = used \cup ({form} \ {{}})
        /\ Continue(w, "save_load")
        /\ UNCHANGED <<poll, votes, abstained>>

-----------------------------------------------------------------------------
(***************************************************************************)
(* castVote.  The owner of the condominium and the syndic vote for any     *)
(* unit until the poll is decided, a resident for the own unit while the   *)
(* poll is open.  The options submitted replace the vote in the questions  *)
(* they belong to; the votes of the unit are deleted and written again.    *)
(***************************************************************************)
MayVote(any) == Status(IF any THEN {"draft", "open", "closed"} ELSE {"open"})

CastRead(w, u, ids, any) ==
    /\ MayVote(any)
    /\ ids # {}
    /\ \A o \in ids : question[QuestionOf[o]] # Absent
    /\ Start(w, [Idle EXCEPT !.pc = "cast_merge", !.qs = question,
                             !.unit = u, !.any = any, !.ids = ids])
    /\ UNCHANGED <<poll, question, votes, abstained, used>>

VoteOf(u) == {o \in Options : <<u, o>> \in votes}

\* mutants: the answers to other questions are lost, or identifiers of
\* questions are written for those of options
OnlySubmitted(existing, submitted) == submitted
WrongIds(existing, submitted) == {QuestionOf[o] : o \in submitted}

\* mergeUnitVoteOptionIds
Merged(existing, submitted) ==
    submitted \cup {o \in existing : submitted \cap OptionsOf(QuestionOf[o]) = {}}

AnyNumber(q, ids) == TRUE              \* mutant: several options of one question

AtMostOne(q, ids) == q \in Multiple \/ Cardinality(ids \cap OptionsOf(q)) <= 1

CastMerge(w) ==
    LET existing == {o \in VoteOf(req[w].unit) : req[w].qs[QuestionOf[o]] # Absent}
        ids == Merged(existing, req[w].ids)
    IN  /\ req[w].pc = "cast_merge"
        /\ \A q \in Rows(req[w].qs) :
              /\ req[w].any \/ ids \cap OptionsOf(q) # {}
              /\ AtMostOne(q, ids)
        /\ req' = [req EXCEPT ![w].pc = "cast_clear", ![w].ids = ids]
        /\ UNCHANGED <<poll, question, votes, abstained, used>>

CastClear(w) ==
    LET r == req[w]
    IN  /\ r.pc = "cast_clear"
        /\ abstained' = abstained \ {<<r.unit, QuestionOf[o]>> : o \in r.ids}
        /\ Continue(w, "cast_delete")
        /\ UNCHANGED <<poll, question, votes, used>>

CastDelete(w) ==
    /\ req[w].pc = "cast_delete"
    /\ votes' = {v \in votes : v[1] # req[w].unit}
    /\ Continue(w, "cast_insert")
    /\ UNCHANGED <<poll, question, abstained, used>>

\* Refused when an option is gone or a vote is there already.
CastInsert(w) ==
    LET ballot == {req[w].unit} \X req[w].ids
    IN  /\ req[w].pc = "cast_insert"
        /\ \A o \in req[w].ids : question[QuestionOf[o]] # Absent
        /\ ballot \cap votes = {}
        /\ votes' = votes \cup ballot
        /\ Finish(w)
        /\ UNCHANGED <<poll, question, abstained, used>>

(***************************************************************************)
(* registerAbstention, by the owner or the syndic once the poll is closed. *)
(***************************************************************************)
AbstainRead(w, u, q) ==
    /\ Status({"closed"})
    /\ question[q] # Absent
    /\ Start(w, [Idle EXCEPT !.pc = "abstain_votes", !.qs = question, !.unit = u,
                             !.ids = OptionsOf(q)])
    /\ UNCHANGED <<poll, question, votes, abstained, used>>

QuestionAbstained(w) == QuestionOf[CHOOSE o \in req[w].ids : TRUE]

NothingWithdrawn(u, ids) == {}                  \* mutant

Withdrawn(u, ids) == {u} \X ids

AbstainVotes(w) ==
    /\ req[w].pc = "abstain_votes"
    /\ votes' = votes \ Withdrawn(req[w].unit, req[w].ids)
    /\ Continue(w, "abstain_clear")
    /\ UNCHANGED <<poll, question, abstained, used>>

AbstainClear(w) ==
    /\ req[w].pc = "abstain_clear"
    /\ abstained' = abstained \ {<<req[w].unit, QuestionAbstained(w)>>}
    /\ Continue(w, "abstain_insert")
    /\ UNCHANGED <<poll, question, votes, used>>

AbstainInsert(w) ==
    LET pair == <<req[w].unit, QuestionAbstained(w)>>
    IN  /\ req[w].pc = "abstain_insert"
        /\ question[pair[2]] # Absent
        /\ pair \notin abstained
        /\ abstained' = abstained \cup {pair}
        /\ Finish(w)
        /\ UNCHANGED <<poll, question, votes, used>>

\* An exception or a crash between two awaits.
Fail(w) ==
    /\ req[w].pc # "idle"
    /\ Finish(w)
    /\ UNCHANGED <<poll, question, votes, abstained, used>>

Lifecycle(w) ==
    \/ Open(w) \/ Close(w) \/ FinalizeAta(w) \/ RegisterFinalResolution(w) \/ Resume(w)
    \/ SaveLoad(w) \/ SaveWrite(w) \/ DeleteRead(w) \/ DeleteRow(w)

Decide(w) == (\E o \in Options : DecideRead(w, o)) \/ DecideQuestion(w) \/ Refresh(w)

Update(w) ==
    \/ \E type \in Types \cup {Keep}, form \in Forms \cup {{}, Keep}, status \in Overrides \cup {Keep} :
          UpdateRead(w, type, form, status)
    \/ ReplaceVotes(w) \/ ReplaceQuestions(w) \/ ReplaceInsert(w)

Cast(w) ==
    \/ \E u \in Units, ids \in SUBSET Options, any \in BOOLEAN : CastRead(w, u, ids, any)
    \/ CastMerge(w) \/ CastClear(w) \/ CastDelete(w) \/ CastInsert(w)

Abstain(w) ==
    \/ \E u \in Units, q \in Questions : AbstainRead(w, u, q)
    \/ AbstainVotes(w) \/ AbstainClear(w) \/ AbstainInsert(w)

Next ==
    \/ \E type \in Types, form \in Forms \cup {{}} : Create(type, form)
    \/ \E w \in Workers :
          Lifecycle(w) \/ Decide(w) \/ Update(w) \/ Cast(w) \/ Abstain(w) \/ Fail(w)

Spec == Init /\ [][Next]_vars
-----------------------------------------------------------------------------
(***************************************************************************)
(* Properties.                                                             *)
(***************************************************************************)

\* A unit has at most one vote in a question of single choice, whatever was
\* submitted before and which of its requests failed.
SingleChoice ==
    \A u \in Units, q \in Questions \ Multiple : Cardinality(VoteOf(u) \cap OptionsOf(q)) <= 1

\* In a question a unit votes or abstains, never both.
VoteOrAbstain ==
    \A p \in abstained : VoteOf(p[1]) \cap OptionsOf(p[2]) = {}

\* The assembly is held on what it decided: while a poll keeps a final or
\* postponed status, neither votes nor abstentions nor decisions change.
ResultIsFinal ==
    [][Status({"decided", "postponed", "withdrawn"}) /\ poll' = poll
          => UNCHANGED <<question, votes, abstained>>]_vars

\* A poll other than an "ata" is decided only with questions, each of which has
\* one of its own options as the decided one.
DecidedIsComplete ==
    Status({"decided"}) /\ poll.type # "ata" =>
        Rows(question) # {} /\ \A q \in Rows(question) : question[q] \in OptionsOf(q)

\* In an election a unit chooses one option of each question.
ElectionSingleChoice ==
    poll # None /\ poll.type = "election" =>
        \A u \in Units, q \in Questions : Cardinality(VoteOf(u) \cap OptionsOf(q)) <= 1

\* The tables behave as the ballot box of BallotBox, where a vote replaces the
\* previous one in a single step: between the delete and the insert of castVote
\* the unit's choice is the one about to be written.
Choice(u) ==
    LET written == {w \in Workers : req[w].pc = "cast_insert" /\ req[w].unit = u}
    IN  VoteOf(u) \cup UNION {req[w].ids : w \in written}

Box == INSTANCE BallotBox WITH
           status <- IF poll = None THEN "none" ELSE poll.status,
           open <- Rows(question),
           choice <- [u \in Units |-> Choice(u)]

ImplementsBallotBox == Box!BSpec
=============================================================================
