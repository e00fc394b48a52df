------------------------- MODULE PollVoting_proofs -------------------------
(***************************************************************************)
(* Theorems about PollVoting: types for any number of requests in          *)
(* progress, and what the tables promise when requests come one at a time. *)
(***************************************************************************)
EXTENDS PollVoting, FiniteSetTheorems, TLAPS

\* What a request has loaded when it is about to use it.
WellFormed(r) ==
    /\ r.pc \in {"save_load", "save_write", "decide_question", "replace_votes",
                 "replace_questions", "replace_insert"} => r.ent # None
    /\ r.pc = "decide_question" => r.o # None
    /\ r.pc \in {"cast_merge", "cast_clear", "cast_delete", "cast_insert",
                 "abstain_votes", "abstain_clear", "abstain_insert"} => r.unit # None
    /\ r.pc \in {"abstain_votes", "abstain_clear", "abstain_insert"} =>
          \E q \in Questions : r.ids = OptionsOf(q)

TInv == TypeOK /\ \A w \in Workers : WellFormed(req[w])

LEMMA IdleIsRequest == Idle \in Request /\ Idle.pc = "idle" /\ WellFormed(Idle)
  BY DEF Idle, Request, PCs, NoQuestions, Table, RowOrNone, WellFormed

LEMMA InitType == Init => TInv
  BY IdleIsRequest DEF Init, TInv, TypeOK, NoQuestions, Table, RowOrNone

\* save leaves a row or nothing where there was a row or nothing.
LEMMA SavedType ==
  ASSUME NEW row \in RowOrNone, NEW was \in RowOrNone, NEW ent \in Row
  PROVE  Saved(row, was, ent) \in RowOrNone
  BY DEF Saved, Merge, Row, RowOrNone

\* A step that changes one request keeps the others.
LEMMA OneRequest ==
  ASSUME TInv, NEW w \in Workers, NEW r \in Request, WellFormed(r),
         req' = [req EXCEPT ![w] = r]
  PROVE  req' \in [Workers -> Request] /\ \A v \in Workers : WellFormed(req'[v])
  BY DEF TInv, TypeOK

LEMMA FinishType ==
  ASSUME TInv, NEW w \in Workers, Finish(w)
  PROVE  req' \in [Workers -> Request] /\ \A v \in Workers : WellFormed(req'[v])
  BY OneRequest, IdleIsRequest DEF Finish

\* A request that goes on with what it has loaded.
LEMMA ContinueType ==
  ASSUME TInv, NEW w \in Workers, NEW pc \in PCs, WellFormed([req[w] EXCEPT !.pc = pc]),
         Continue(w, pc)
  PROVE  req' \in [Workers -> Request] /\ \A v \in Workers : WellFormed(req'[v])
<1> DEFINE r == [req[w] EXCEPT !.pc = pc]
<1>1. r \in Request
  BY DEF TInv, TypeOK, Request
<1>2. QED
  BY <1>1, OneRequest DEF Continue

\* A handler that loaded the poll and starts to save an entity of it.
LEMMA EditType ==
  ASSUME TInv, NEW ent \in Row
  PROVE  Edit(ent) \in Request /\ WellFormed(Edit(ent))
<1> DEFINE r == [Idle EXCEPT !.pc = "save_load", !.ent = ent, !.qs = question]
<1>1. r \in Request
  BY DEF Idle, TInv, TypeOK, Request, PCs, RowOrNone
<1>2. WellFormed(r)
  BY ConstantsAssumption DEF Idle, WellFormed, Row, RowOrNone
<1>3. QED
  BY <1>1, <1>2 DEF Edit

\* The same for one that replaces the questions first.
LEMMA ReplaceType ==
  ASSUME TInv, NEW ent \in Row, NEW form \in Forms \cup {{}}
  PROVE  /\ [Edit(ent) EXCEPT !.pc = "replace_votes", !.form = form] \in Request
         /\ WellFormed([Edit(ent) EXCEPT !.pc = "replace_votes", !.form = form])
<1> DEFINE r == [Edit(ent) EXCEPT !.pc = "replace_votes", !.form = form]
<1>1. Edit(ent) \in Request /\ Edit(ent).ent # None
  BY EditType, ConstantsAssumption DEF Edit, Idle
<1>2. "replace_votes" \in PCs
  BY DEF PCs
<1>3. r \in Request
  BY <1>1, <1>2 DEF Request
<1>4. WellFormed(r)
  BY <1>1 DEF WellFormed, Request
<1>5. QED
  BY <1>3, <1>4

LEMMA FreshTableType == ASSUME NEW form PROVE FreshTable(form) \in Table
  BY DEF FreshTable, Table

-----------------------------------------------------------------------------
LEMMA LifecycleType ==
  ASSUME TInv, NEW w \in Workers, Lifecycle(w)
  PROVE  TInv'
<1>1. ASSUME NEW from \in Statuses, NEW to \in Statuses, Move(w, from, to)
      PROVE  TInv'
  <2>1. [poll EXCEPT !.status = to] \in Row
    BY <1>1 DEF Move, Status, TInv, TypeOK, RowOrNone, Row
  <2>2. QED
    BY <1>1, <2>1, EditType, OneRequest DEF Move, Start, TInv, TypeOK
<1>2. CASE Open(w) \/ Close(w) \/ FinalizeAta(w) \/ RegisterFinalResolution(w) \/ Resume(w)
  <2>1. PICK from \in Statuses, to \in Statuses : Move(w, from, to)
    BY <1>2 DEF Open, Close, FinalizeAta, RegisterFinalResolution, Resume, Statuses
  <2>2. QED
    BY <2>1, <1>1
<1>3. CASE SaveLoad(w)
  <2> DEFINE r == [req[w] EXCEPT !.pc = "save_write", !.base = poll]
  <2>1. r \in Request /\ WellFormed(r)
    <3>r. req[w] \in Request /\ poll \in RowOrNone
      BY DEF TInv, TypeOK
    <3>1. r \in Request
      BY <3>r DEF Request, PCs
    <3>2. WellFormed(r)
      BY <1>3 DEF SaveLoad, TInv, TypeOK, Request, WellFormed
    <3>3. QED
      BY <3>1, <3>2
  <2>2. req' = [req EXCEPT ![w] = r]
    BY <1>3 DEF SaveLoad, TInv, TypeOK
  <2>3. QED
    BY <1>3, <2>1, <2>2, OneRequest DEF SaveLoad, TInv, TypeOK
<1>4. CASE SaveWrite(w)
  <2>1. req[w] \in Request /\ req[w].ent \in Row /\ req[w].base \in RowOrNone /\ poll \in RowOrNone
    BY <1>4 DEF SaveWrite, TInv, TypeOK, WellFormed, Request, RowOrNone
  <2>2. poll' \in RowOrNone
    BY <1>4, <2>1, SavedType DEF SaveWrite
  <2>3. question' \in Table
    BY <1>4, <2>1 DEF SaveWrite, TInv, TypeOK, Request, Table
  <2>4. [Idle EXCEPT !.pc = "refresh"] \in Request /\ WellFormed([Idle EXCEPT !.pc = "refresh"])
    BY DEF Idle, Request, PCs, NoQuestions, Table, RowOrNone, WellFormed
  <2>5. QED
    BY <1>4, <2>2, <2>3, <2>4, IdleIsRequest, OneRequest DEF SaveWrite, TInv, TypeOK
<1>5. CASE DeleteRead(w)
  <2> DEFINE r == [Idle EXCEPT !.pc = "delete_row"]
  <2>1. r \in Request /\ WellFormed(r)
    BY DEF Idle, Request, PCs, NoQuestions, Table, RowOrNone, WellFormed
  <2>2. QED
    BY <1>5, <2>1, OneRequest DEF DeleteRead, Start, TInv, TypeOK
<1>6. CASE DeleteRow(w)
  BY <1>6, FinishType DEF DeleteRow, NoQuestions, Table, RowOrNone, TInv, TypeOK
<1>7. QED
  BY <1>2, <1>3, <1>4, <1>5, <1>6 DEF Lifecycle

LEMMA DecideType ==
  ASSUME TInv, NEW w \in Workers, Decide(w)
  PROVE  TInv'
<1>1. ASSUME NEW o \in Options, DecideRead(w, o)
      PROVE  TInv'
  <2> DEFINE r == [Edit(poll) EXCEPT !.pc = "decide_question", !.then = "refresh", !.o = o]
  <2>1. poll \in Row
    BY <1>1 DEF DecideRead, Status, TInv, TypeOK, RowOrNone
  <2>2. Edit(poll) \in Request /\ Edit(poll).ent # None
    BY <2>1, EditType, ConstantsAssumption DEF Edit, Idle
  <2>3. r \in Request /\ WellFormed(r)
    BY <2>2, ConstantsAssumption DEF Request, PCs, WellFormed
  <2>4. QED
    BY <1>1, <2>3, OneRequest DEF DecideRead, Start, TInv, TypeOK
<1>2. CASE DecideQuestion(w)
  <2>1. req[w] \in Request /\ req[w].o \in Options
    BY <1>2 DEF DecideQuestion, TInv, TypeOK, WellFormed, Request
  <2>2. question' \in Table
    BY <1>2, <2>1, ConstantsAssumption DEF DecideQuestion, TInv, TypeOK, Table
  <2>3. WellFormed([req[w] EXCEPT !.pc = "save_load"])
    BY <1>2, <2>1 DEF DecideQuestion, TInv, WellFormed, Request
  <2>4. Continue(w, "save_load") /\ "save_load" \in PCs
    BY <1>2 DEF DecideQuestion, PCs
  <2>5. QED
    BY <1>2, <2>2, <2>3, <2>4, ContinueType DEF DecideQuestion, TInv, TypeOK
<1>3. CASE Refresh(w)
  <2>1. [poll EXCEPT !.status = "decided"] \in Row
    BY <1>3 DEF Refresh, TInv, TypeOK, RowOrNone, Row, Statuses
  <2>2. req' \in [Workers -> Request] /\ \A v \in Workers : WellFormed(req'[v])
    BY <1>3, <2>1, EditType, OneRequest, FinishType DEF Refresh
  <2>3. QED
    BY <1>3, <2>2 DEF Refresh, TInv, TypeOK
<1>4. QED
  BY <1>1, <1>2, <1>3 DEF Decide

LEMMA UpdateType ==
  ASSUME TInv, NEW w \in Workers, Update(w)
  PROVE  TInv'
<1>1. ASSUME NEW type \in Types \cup {Keep}, NEW form \in Forms \cup {{}, Keep},
             NEW status \in Overrides \cup {Keep}, UpdateRead(w, type, form, status)
      PROVE  TInv'
  <2> DEFINE next == IF type = Keep THEN poll.type ELSE type
             ent == [poll EXCEPT !.type = next, !.status = IF status = Keep THEN @ ELSE status]
             r == [Edit(ent) EXCEPT !.pc = "replace_votes", !.form = form]
  <2>1. ent \in Row
    BY <1>1, ConstantsAssumption DEF UpdateRead, Status, TInv, TypeOK, RowOrNone, Row
  <2>2. form # Keep => form \in Forms \cup {{}}
    OBVIOUS
  <2>3. form # Keep => r \in Request /\ WellFormed(r)
    BY <2>1, <2>2, ReplaceType
  <2>4. QED
    BY <1>1, <2>1, <2>3, EditType, OneRequest DEF UpdateRead, Start, TInv, TypeOK
<1>2. CASE ReplaceVotes(w)
  <2>1. WellFormed([req[w] EXCEPT !.pc = "replace_questions"])
    BY <1>2 DEF ReplaceVotes, TInv, TypeOK, WellFormed, Request
  <2>2. QED
    BY <1>2, <2>1, ContinueType DEF ReplaceVotes, PCs, TInv, TypeOK
<1>3. CASE ReplaceQuestions(w)
  <2>1. WellFormed([req[w] EXCEPT !.pc = "replace_insert"])
    BY <1>3 DEF ReplaceQuestions, TInv, TypeOK, WellFormed, Request
  <2>2. QED
    BY <1>3, <2>1, ContinueType DEF ReplaceQuestions, PCs, NoQuestions, Table, TInv, TypeOK
<1>4. CASE ReplaceInsert(w)
  <2>1. WellFormed([req[w] EXCEPT !.pc = "save_load"])
    BY <1>4 DEF ReplaceInsert, TInv, TypeOK, WellFormed, Request
  <2>2. req' \in [Workers -> Request] /\ \A v \in Workers : WellFormed(req'[v])
    BY <1>4, <2>1, ContinueType DEF ReplaceInsert, PCs
  <2>3. question' \in Table /\ used' \subseteq Forms
    BY <1>4 DEF ReplaceInsert, TInv, TypeOK, Table, Request
  <2>4. QED
    BY <1>4, <2>2, <2>3 DEF ReplaceInsert, TInv, TypeOK
<1>5. QED
  BY <1>1, <1>2, <1>3, <1>4 DEF Update

LEMMA CastType ==
  ASSUME TInv, NEW w \in Workers, Cast(w)
  PROVE  TInv'
<1>1. ASSUME NEW u \in Units, NEW ids \in SUBSET Options, NEW any \in BOOLEAN,
             CastRead(w, u, ids, any)
      PROVE  TInv'
  <2> DEFINE r == [Idle EXCEPT !.pc = "cast_merge", !.qs = question, !.unit = u, !.any = any,
                               !.ids = ids]
  <2>1. r \in Request /\ WellFormed(r)
    BY ConstantsAssumption DEF Idle, TInv, TypeOK, Request, PCs, RowOrNone, WellFormed
  <2>2. QED
    BY <1>1, <2>1, OneRequest DEF CastRead, Start, TInv, TypeOK
<1>2. CASE CastMerge(w)
  <2> DEFINE existing == {o \in VoteOf(req[w].unit) : req[w].qs[QuestionOf[o]] # Absent}
             ids == Merged(existing, req[w].ids)
             r == [req[w] EXCEPT !.pc = "cast_clear", !.ids = ids]
  <2>1. req[w] \in Request
    BY DEF TInv, TypeOK
  <2>2. ids \subseteq Options
    BY <2>1 DEF Merged, VoteOf, Request
  <2>3. r \in Request /\ WellFormed(r)
    BY <1>2, <2>1, <2>2 DEF CastMerge, TInv, Request, PCs, WellFormed
  <2>4. req' = [req EXCEPT ![w] = r]
    BY <1>2 DEF CastMerge, TInv, TypeOK
  <2>5. QED
    BY <1>2, <2>3, <2>4, OneRequest DEF CastMerge, TInv, TypeOK
<1>3. CASE CastClear(w)
  <2>1. WellFormed([req[w] EXCEPT !.pc = "cast_delete"])
    BY <1>3 DEF CastClear, TInv, TypeOK, WellFormed, Request
  <2>2. QED
    BY <1>3, <2>1, ContinueType DEF CastClear, PCs, TInv, TypeOK
<1>4. CASE CastDelete(w)
  <2>1. WellFormed([req[w] EXCEPT !.pc = "cast_insert"])
    BY <1>4 DEF CastDelete, TInv, TypeOK, WellFormed, Request
  <2>2. QED
    BY <1>4, <2>1, ContinueType DEF CastDelete, PCs, TInv, TypeOK
<1>5. CASE CastInsert(w)
  <2>1. req[w].unit \in Units /\ req[w].ids \subseteq Options
    BY <1>5 DEF CastInsert, TInv, TypeOK, WellFormed, Request
  <2>2. QED
    BY <1>5, <2>1, FinishType DEF CastInsert, TInv, TypeOK
<1>6. QED
  BY <1>1, <1>2, <1>3, <1>4, <1>5 DEF Cast

\* The question of an abstention is the one whose options it withdraws.
LEMMA AbstainedQuestion ==
  ASSUME TInv, NEW w \in Workers, NEW q \in Questions, req[w].ids = OptionsOf(q)
  PROVE  QuestionAbstained(w) = q
<1>1. OptionsOf(q) # {}
  BY ConstantsAssumption DEF OptionsOf
<1>2. QED
  BY <1>1 DEF QuestionAbstained, OptionsOf

LEMMA AbstainType ==
  ASSUME TInv, NEW w \in Workers, Abstain(w)
  PROVE  TInv'
<1>1. ASSUME NEW u \in Units, NEW q \in Questions, AbstainRead(w, u, q)
      PROVE  TInv'
  <2> DEFINE r == [Idle EXCEPT !.pc = "abstain_votes", !.qs = question, !.unit = u,
                               !.ids = OptionsOf(q)]
  <2>1. OptionsOf(q) \subseteq Options
    BY DEF OptionsOf
  <2>2. r \in Request
    BY <2>1 DEF Idle, TInv, TypeOK, Request, PCs, RowOrNone
  <2>3. WellFormed(r)
    BY ConstantsAssumption DEF Idle, WellFormed
  <2>4. QED
    BY <1>1, <2>2, <2>3, OneRequest DEF AbstainRead, Start, TInv, TypeOK
<1>2. CASE AbstainVotes(w)
  <2>1. WellFormed([req[w] EXCEPT !.pc = "abstain_clear"])
    BY <1>2 DEF AbstainVotes, TInv, TypeOK, WellFormed, Request
  <2>2. QED
    BY <1>2, <2>1, ContinueType DEF AbstainVotes, PCs, TInv, TypeOK
<1>3. CASE AbstainClear(w)
  <2>1. WellFormed([req[w] EXCEPT !.pc = "abstain_insert"])
    BY <1>3 DEF AbstainClear, TInv, TypeOK, WellFormed, Request
  <2>2. QED
    BY <1>3, <2>1, ContinueType DEF AbstainClear, PCs, TInv, TypeOK
<1>4. CASE AbstainInsert(w)
  <2>1. PICK q \in Questions : req[w].ids = OptionsOf(q)
    BY <1>4 DEF AbstainInsert, TInv, WellFormed
  <2>2. QuestionAbstained(w) \in Questions /\ req[w].unit \in Units
    BY <1>4, <2>1, AbstainedQuestion DEF AbstainInsert, TInv, TypeOK, WellFormed, Request
  <2>3. QED
    BY <1>4, <2>2, FinishType DEF AbstainInsert, TInv, TypeOK
<1>5. QED
  BY <1>1, <1>2, <1>3, <1>4 DEF Abstain

LEMMA StepType == TInv /\ [Next]_vars => TInv'
<1> SUFFICES ASSUME TInv, [Next]_vars PROVE TInv'
  OBVIOUS
<1>1. ASSUME NEW type \in Types, NEW form \in Forms \cup {{}}, Create(type, form)
      PROVE  TInv'
  <2>1. poll' \in RowOrNone /\ used' \subseteq Forms
    BY <1>1 DEF Create, TInv, TypeOK, RowOrNone, Row, Statuses
  <2>2. QED
    BY <1>1, <2>1, FreshTableType DEF Create, TInv, TypeOK
<1>2. ASSUME NEW w \in Workers, Fail(w)
      PROVE  TInv'
  BY <1>2, FinishType DEF Fail, TInv, TypeOK
<1>3. CASE UNCHANGED vars
  BY <1>3 DEF vars, TInv, TypeOK
<1>4. QED
  BY <1>1, <1>2, <1>3, LifecycleType, DecideType, UpdateType, CastType, AbstainType DEF Next

\* However many requests are interleaved and wherever they fail, the poll, its tables and
\* the requests keep their types; in particular a vote is always for an option, and an
\* abstention in a question, of the poll's tables.
THEOREM TypeCorrect == Spec => []TypeOK
<1>1. TInv => TypeOK
  BY DEF TInv
<1>2. QED
  BY InitType, StepType, <1>1, PTL DEF Spec
-----------------------------------------------------------------------------
(***************************************************************************)
(* Requests one at a time.                                                 *)
(***************************************************************************)
OneAtATime == \A v, w \in Workers : v = w

\* What a request has cleared stays cleared until it is done.
Cleared(r) ==
    /\ r.pc \in {"cast_delete", "cast_insert"} =>
          \A o \in r.ids : <<r.unit, QuestionOf[o]>> \notin abstained
    /\ r.pc \in {"abstain_clear", "abstain_insert"} => VoteOf(r.unit) \cap r.ids = {}

VInv == TInv /\ VoteOrAbstain /\ \A w \in Workers : Cleared(req[w])

LEMMA FewerBallots ==
  ASSUME VoteOrAbstain, votes' \subseteq votes, abstained' \subseteq abstained
  PROVE  VoteOrAbstain'
  BY DEF VoteOrAbstain, VoteOf

LEMMA CastClears ==
  ASSUME OneAtATime, VInv, TInv', NEW w \in Workers, Cast(w)
  PROVE  VInv'
<1> SUFFICES VoteOrAbstain' /\ Cleared(req[w])'
  BY DEF VInv, OneAtATime
<1>1. req[w] \in Request /\ req' = [req EXCEPT ![w] = req'[w]]
  BY DEF VInv, TInv, TypeOK, Cast, CastRead, CastMerge, CastClear, CastDelete, CastInsert,
         Start, Continue, Finish
<1>2. CASE (\E u \in Units, ids \in SUBSET Options, any \in BOOLEAN : CastRead(w, u, ids, any))
           \/ CastMerge(w)
  <2>1. req'[w].pc \in {"cast_merge", "cast_clear"}
    <3>1. req \in [Workers -> Request]
      BY DEF VInv, TInv, TypeOK
    <3>2. CASE CastMerge(w)
      BY <3>1, <3>2 DEF CastMerge, Request
    <3>3. ASSUME NEW u \in Units, NEW ids \in SUBSET Options, NEW any \in BOOLEAN,
                 CastRead(w, u, ids, any)
          PROVE  req'[w].pc = "cast_merge"
      BY <3>1, <3>3 DEF CastRead, Start, Idle
    <3>4. QED
      BY <1>2, <3>2, <3>3
  <2>2. UNCHANGED <<votes, abstained>>
    BY <1>2 DEF CastRead, CastMerge
  <2>3. QED
    BY <2>1, <2>2, FewerBallots DEF Cleared, VInv
<1>3. CASE CastClear(w)
  <2>1. req'[w] = [req[w] EXCEPT !.pc = "cast_delete"]
    BY <1>3 DEF CastClear, Continue, VInv, TInv, TypeOK
  <2>2. votes' = votes /\ abstained' = abstained \ {<<req[w].unit, QuestionOf[o]>> : o \in req[w].ids}
    BY <1>3 DEF CastClear
  <2>3. req'[w].ids = req[w].ids /\ req'[w].unit = req[w].unit /\ req'[w].pc = "cast_delete"
    BY <1>1, <2>1 DEF Request
  <2>4. QED
    BY <2>2, <2>3, FewerBallots DEF Cleared, VInv
<1>4. CASE CastDelete(w)
  <2>1. /\ req'[w].ids = req[w].ids /\ req'[w].unit = req[w].unit
        /\ req'[w].pc = "cast_insert" /\ req[w].pc = "cast_delete"
    BY <1>4 DEF CastDelete, Continue, VInv, TInv, TypeOK, Request
  <2>2. votes' \subseteq votes /\ abstained' = abstained
    BY <1>4 DEF CastDelete
  <2>3. QED
    BY <2>1, <2>2, FewerBallots DEF Cleared, VInv
<1>5. CASE CastInsert(w)
  <2>1. req'[w].pc = "idle"
    BY <1>5, IdleIsRequest DEF CastInsert, Finish, VInv, TInv, TypeOK
  <2>2. abstained' = abstained /\ votes' = votes \cup ({req[w].unit} \X req[w].ids)
    BY <1>5 DEF CastInsert
  <2>3. ASSUME NEW p \in abstained, NEW o \in VoteOf(p[1])', o \in OptionsOf(p[2])
        PROVE  FALSE
    <3>1. p = <<p[1], p[2]>> /\ o \in Options /\ QuestionOf[o] = p[2]
      BY <2>3 DEF VInv, TInv, TypeOK, VoteOf, OptionsOf
    <3>2. <<p[1], o>> \notin votes
      BY <2>3, <3>1 DEF VInv, VoteOrAbstain, VoteOf
    <3>3. p[1] = req[w].unit /\ o \in req[w].ids
      BY <2>2, <2>3, <3>2 DEF VoteOf
    <3>4. QED
      BY <1>5, <3>1, <3>3 DEF CastInsert, VInv, Cleared
  <2>4. QED
    BY <2>1, <2>2, <2>3 DEF VoteOrAbstain, Cleared
<1>6. QED
  BY <1>2, <1>3, <1>4, <1>5 DEF Cast

LEMMA AbstainClears ==
  ASSUME OneAtATime, VInv, TInv', NEW w \in Workers, Abstain(w)
  PROVE  VInv'
<1> SUFFICES VoteOrAbstain' /\ Cleared(req[w])'
  BY DEF VInv, OneAtATime
<1>1. req[w] \in Request
  BY DEF VInv, TInv, TypeOK
<1>2. CASE \E u \in Units, q \in Questions : AbstainRead(w, u, q)
  <2>1. req'[w].pc = "abstain_votes" /\ UNCHANGED <<votes, abstained>>
    BY <1>2 DEF AbstainRead, Start, Idle, VInv, TInv, TypeOK
  <2>2. QED
    BY <2>1, FewerBallots DEF Cleared, VInv
<1>3. CASE AbstainVotes(w)
  <2>1. req'[w].ids = req[w].ids /\ req'[w].unit = req[w].unit /\ req'[w].pc = "abstain_clear"
    BY <1>3 DEF AbstainVotes, Continue, VInv, TInv, TypeOK, Request
  <2>2. votes' = votes \ ({req[w].unit} \X req[w].ids) /\ abstained' = abstained
    BY <1>3 DEF AbstainVotes, Withdrawn
  <2>3. QED
    BY <2>1, <2>2, FewerBallots DEF Cleared, VInv, VoteOf
<1>4. CASE AbstainClear(w)
  <2>1. /\ req'[w].ids = req[w].ids /\ req'[w].unit = req[w].unit
        /\ req'[w].pc = "abstain_insert" /\ req[w].pc = "abstain_clear"
    BY <1>4 DEF AbstainClear, Continue, VInv, TInv, TypeOK, Request
  <2>2. votes' = votes /\ abstained' \subseteq abstained
    BY <1>4 DEF AbstainClear
  <2>3. QED
    BY <2>1, <2>2, FewerBallots DEF Cleared, VInv, VoteOf
<1>5. CASE AbstainInsert(w)
  <2>1. req'[w].pc = "idle"
    BY <1>5, IdleIsRequest DEF AbstainInsert, Finish, VInv, TInv, TypeOK
  <2>2. PICK q \in Questions : req[w].ids = OptionsOf(q)
    BY <1>5 DEF AbstainInsert, VInv, TInv, WellFormed
  <2>3. abstained' = abstained \cup {<<req[w].unit, q>>} /\ votes' = votes
    BY <1>5, <2>2, AbstainedQuestion DEF AbstainInsert, VInv
  <2>4. VoteOf(req[w].unit) \cap OptionsOf(q) = {}
    BY <1>5, <2>2 DEF AbstainInsert, VInv, Cleared
  <2>5. QED
    BY <2>1, <2>3, <2>4 DEF VoteOrAbstain, VoteOf, Cleared, VInv
<1>6. QED
  BY <1>2, <1>3, <1>4, <1>5 DEF Abstain

\* The handlers of the poll itself and a failure leave or empty the tables of ballots and
\* begin no ballot.
LEMMA OthersLeave ==
  ASSUME TInv, NEW w \in Workers, Lifecycle(w) \/ Decide(w) \/ Update(w) \/ Fail(w)
  PROVE  /\ votes' \subseteq votes /\ abstained' \subseteq abstained
         /\ req'[w].pc \in {"idle", "save_load", "save_write", "refresh", "delete_row",
                            "decide_question", "replace_votes", "replace_questions",
                            "replace_insert"}
<1>1. req \in [Workers -> Request]
  BY DEF TInv, TypeOK
<1>2. CASE Lifecycle(w)
  <2>1. votes' \subseteq votes /\ abstained' \subseteq abstained
    BY <1>2 DEF Lifecycle, Open, Close, FinalizeAta, RegisterFinalResolution, Resume, Move,
                SaveLoad, SaveWrite, DeleteRead, DeleteRow
  <2>2. ASSUME NEW from, NEW to, Move(w, from, to)
        PROVE  req'[w].pc = "save_load"
    BY <1>1, <2>2 DEF Move, Start, Edit, Idle
  <2>3. CASE SaveLoad(w)
    BY <1>1, <2>1, <2>3 DEF SaveLoad, Request
  <2>4. CASE SaveWrite(w)
    BY <1>1, <2>1, <2>4 DEF SaveWrite, Idle
  <2>5. CASE DeleteRead(w) \/ DeleteRow(w)
    BY <1>1, <2>1, <2>5 DEF DeleteRead, DeleteRow, Start, Finish, Idle
  <2>6. QED
    BY <1>2, <2>1, <2>2, <2>3, <2>4, <2>5
    DEF Lifecycle, Open, Close, FinalizeAta, RegisterFinalResolution, Resume
<1>3. CASE Decide(w)
  <2>1. UNCHANGED <<votes, abstained>>
    BY <1>3 DEF Decide, DecideRead, DecideQuestion, Refresh
  <2>2. ASSUME NEW o \in Options, DecideRead(w, o)
        PROVE  req'[w].pc = "decide_question"
    BY <1>1, <2>2 DEF DecideRead, Start, Edit, Idle
  <2>3. CASE DecideQuestion(w)
    BY <1>1, <2>1, <2>3 DEF DecideQuestion, Continue, Request
  <2>4. CASE Refresh(w)
    <3>1. Edit([poll EXCEPT !.status = "decided"]).pc = "save_load"
      BY DEF Edit, Idle
    <3>2. QED
      BY <1>1, <2>1, <2>4, <3>1, IdleIsRequest DEF Refresh, Finish
  <2>5. QED
    BY <1>3, <2>1, <2>2, <2>3, <2>4 DEF Decide
<1>4. CASE Update(w)
  <2>1. votes' \subseteq votes /\ abstained' \subseteq abstained
    BY <1>4 DEF Update, UpdateRead, ReplaceVotes, ReplaceQuestions, ReplaceInsert
  <2>2. ASSUME NEW type, NEW form, NEW status, UpdateRead(w, type, form, status)
        PROVE  req'[w].pc \in {"save_load", "replace_votes"}
    BY <1>1, <2>2 DEF UpdateRead, Start, Edit, Idle
  <2>3. CASE ReplaceVotes(w) \/ ReplaceQuestions(w) \/ ReplaceInsert(w)
    BY <1>1, <2>1, <2>3 DEF ReplaceVotes, ReplaceQuestions, ReplaceInsert, Continue, Request
  <2>4. QED
    BY <1>4, <2>1, <2>2, <2>3 DEF Update
<1>5. CASE Fail(w)
  BY <1>1, <1>5, IdleIsRequest DEF Fail, Finish
<1>6. QED
  BY <1>2, <1>3, <1>4, <1>5

LEMMA OthersClear ==
  ASSUME OneAtATime, VInv, TInv', NEW w \in Workers,
         Lifecycle(w) \/ Decide(w) \/ Update(w) \/ Fail(w)
  PROVE  VInv'
<1> SUFFICES VoteOrAbstain' /\ Cleared(req[w])'
  BY DEF VInv, OneAtATime
<1>1. QED
  BY OthersLeave, FewerBallots DEF Cleared, VInv

\* With requests one at a time a unit never both votes and abstains in a question, however
\* the requests follow each other and wherever they fail, for every poll.
THEOREM VoteExcludesAbstention ==
  ASSUME OneAtATime
  PROVE  Spec => []VoteOrAbstain
<1>1. Init => VInv
  <2>1. ASSUME Init PROVE VoteOrAbstain /\ \A w \in Workers : Cleared(req[w])
    BY <2>1, IdleIsRequest DEF Init, VoteOrAbstain, Cleared
  <2>2. QED
    BY <2>1, InitType DEF VInv
<1>2. VInv /\ [Next]_vars => VInv'
  <2> SUFFICES ASSUME VInv, [Next]_vars PROVE VInv'
    OBVIOUS
  <2>1. TInv'
    BY StepType DEF VInv
  <2>2. ASSUME NEW type \in Types, NEW form \in Forms \cup {{}}, Create(type, form)
        PROVE  VInv'
    BY <2>1, <2>2 DEF Create, VInv, VoteOrAbstain, VoteOf, Cleared
  <2>3. CASE UNCHANGED vars
    BY <2>1, <2>3 DEF vars, VInv, VoteOrAbstain, VoteOf, Cleared
  <2>4. QED
    BY <2>1, <2>2, <2>3, OneAtATime, CastClears, AbstainClears, OthersClear DEF Next
<1>3. VInv => VoteOrAbstain
  BY DEF VInv
<1>4. QED
  BY <1>1, <1>2, <1>3, PTL DEF Spec
-----------------------------------------------------------------------------
\* At most one option of each question of single choice.
OneEach(ids) ==
    \A q \in Questions \ Multiple : Cardinality(ids \cap OptionsOf(q)) <= 1

\* A ballot has options of the questions it was read with only; from its check on it has
\* one of each, and when it is written nothing else of its unit is there.
Counted(r) ==
    /\ r.pc = "cast_merge" => \A o \in r.ids : r.qs[QuestionOf[o]] # Absent
    /\ r.pc \in {"cast_clear", "cast_delete", "cast_insert"} => OneEach(r.ids)
    /\ r.pc = "cast_insert" => VoteOf(r.unit) = {}

SInv == TInv /\ SingleChoice /\ \A w \in Workers : Counted(req[w])

LEMMA FewerOptions ==
  ASSUME IsFiniteSet(Options), NEW some \in SUBSET Options, NEW fewer \in SUBSET some,
         NEW q \in Questions, Cardinality(some \cap OptionsOf(q)) <= 1
  PROVE  Cardinality(fewer \cap OptionsOf(q)) <= 1
<1>1. IsFiniteSet(some \cap OptionsOf(q))
  BY FS_Subset
<1>2. fewer \cap OptionsOf(q) \in SUBSET (some \cap OptionsOf(q))
  OBVIOUS
<1>3. /\ Cardinality(fewer \cap OptionsOf(q)) <= Cardinality(some \cap OptionsOf(q))
      /\ Cardinality(fewer \cap OptionsOf(q)) \in Nat
      /\ Cardinality(some \cap OptionsOf(q)) \in Nat
  BY <1>1, <1>2, FS_Subset, FS_CardinalityType
<1>4. QED
  BY <1>3

LEMMA FewerVotes ==
  ASSUME IsFiniteSet(Options), SingleChoice, votes' \subseteq votes
  PROVE  SingleChoice'
<1> SUFFICES ASSUME NEW u \in Units, NEW q \in Questions \ Multiple
             PROVE  Cardinality(VoteOf(u)' \cap OptionsOf(q)) <= 1
  BY DEF SingleChoice
<1>1. VoteOf(u)' \in SUBSET VoteOf(u) /\ VoteOf(u) \in SUBSET Options
  BY DEF VoteOf
<1>2. Cardinality(VoteOf(u) \cap OptionsOf(q)) <= 1
  BY DEF SingleChoice
<1>3. QED
  BY <1>1, <1>2, FewerOptions

\* What mergeUnitVoteOptionIds keeps and adds are options of the questions on the form, and
\* castVote has looked at each of these.
LEMMA CheckedBallot ==
  ASSUME TInv, NEW w \in Workers, Counted(req[w]), CastMerge(w)
  PROVE  OneEach(req'[w].ids)
<1> DEFINE r == req[w]
           existing == {o \in VoteOf(r.unit) : r.qs[QuestionOf[o]] # Absent}
           ids == Merged(existing, r.ids)
<1>1. r \in Request /\ req \in [Workers -> Request] /\ r.pc = "cast_merge"
  BY DEF TInv, TypeOK, CastMerge
<1>2. req'[w].ids = ids
  BY <1>1 DEF CastMerge, Request
<1>3. \A q \in Rows(r.qs) : AtMostOne(q, ids)
  BY DEF CastMerge
<1>4. ids \subseteq Options /\ \A o \in ids : r.qs[QuestionOf[o]] # Absent
  BY <1>1 DEF Merged, VoteOf, Counted, Request
<1> HIDE DEF ids
<1>5. ASSUME NEW q \in Questions \ Multiple
      PROVE  Cardinality(ids \cap OptionsOf(q)) <= 1
  <2>1. CASE q \in Rows(r.qs)
    BY <1>3, <2>1 DEF AtMostOne
  <2>2. CASE q \notin Rows(r.qs)
    <3>1. ids \cap OptionsOf(q) = {}
      BY <1>4, <2>2 DEF OptionsOf, Rows
    <3>2. QED
      BY <3>1, FS_EmptySet
  <2>3. QED
    BY <2>1, <2>2
<1>6. QED
  BY <1>2, <1>5 DEF OneEach

LEMMA CastCounts ==
  ASSUME OneAtATime, IsFiniteSet(Options), SInv, TInv', NEW w \in Workers, Cast(w)
  PROVE  SInv'
<1> SUFFICES SingleChoice' /\ Counted(req[w])'
  BY DEF SInv, OneAtATime
<1>1. req[w] \in Request /\ req \in [Workers -> Request]
  BY DEF SInv, TInv, TypeOK
<1>2. ASSUME NEW u \in Units, NEW ids \in SUBSET Options, NEW any \in BOOLEAN,
             CastRead(w, u, ids, any)
      PROVE  SingleChoice' /\ Counted(req[w])'
  <2>1. req'[w].pc = "cast_merge" /\ req'[w].ids = ids /\ req'[w].qs = question
    BY <1>1, <1>2 DEF CastRead, Start, Idle
  <2>2. votes' = votes /\ \A o \in ids : question[QuestionOf[o]] # Absent
    BY <1>2 DEF CastRead
  <2>3. QED
    BY <2>1, <2>2, FewerVotes DEF Counted, SInv
<1>3. CASE CastMerge(w)
  <2>1. req'[w].pc = "cast_clear" /\ votes' = votes
    BY <1>1, <1>3 DEF CastMerge, Request
  <2>2. OneEach(req'[w].ids)
    BY <1>3, CheckedBallot DEF SInv
  <2>3. QED
    BY <2>1, <2>2, FewerVotes DEF Counted, OneEach, SInv
<1>4. CASE CastClear(w)
  <2>1. /\ req'[w].ids = req[w].ids /\ req'[w].pc = "cast_delete" /\ req[w].pc = "cast_clear"
        /\ votes' = votes
    BY <1>1, <1>4 DEF CastClear, Continue, Request
  <2>2. QED
    BY <2>1, FewerVotes DEF Counted, OneEach, SInv
<1>5. CASE CastDelete(w)
  <2>1. /\ req'[w].ids = req[w].ids /\ req'[w].unit = req[w].unit
        /\ req'[w].pc = "cast_insert" /\ req[w].pc = "cast_delete"
    BY <1>1, <1>5 DEF CastDelete, Continue, Request
  <2>2. votes' = {v \in votes : v[1] # req[w].unit}
    BY <1>5 DEF CastDelete
  <2>3. VoteOf(req[w].unit)' = {}
    BY <2>1, <2>2 DEF VoteOf
  <2>4. votes' \subseteq votes
    BY <2>2
  <2>5. QED
    BY <2>1, <2>3, <2>4, FewerVotes DEF Counted, OneEach, SInv
<1>6. CASE CastInsert(w)
  <2>1. req'[w].pc = "idle"
    BY <1>1, <1>6, IdleIsRequest DEF CastInsert, Finish
  <2>2. votes' = votes \cup ({req[w].unit} \X req[w].ids) /\ req[w].pc = "cast_insert"
    BY <1>6 DEF CastInsert
  <2>3. ASSUME NEW u \in Units, NEW q \in Questions \ Multiple
        PROVE  Cardinality(VoteOf(u)' \cap OptionsOf(q)) <= 1
    <3>1. CASE u = req[w].unit
      <4>1. VoteOf(u)' = req[w].ids
        BY <1>1, <2>2, <3>1 DEF SInv, Counted, VoteOf, Request
      <4>2. QED
        BY <2>2, <4>1 DEF SInv, Counted, OneEach
    <3>2. CASE u # req[w].unit
      <4>1. VoteOf(u)' = VoteOf(u)
        BY <2>2, <3>2 DEF VoteOf
      <4>2. QED
        BY <4>1 DEF SInv, SingleChoice
    <3>3. QED
      BY <3>1, <3>2
  <2>4. QED
    BY <2>1, <2>3 DEF SingleChoice, Counted
<1>7. QED
  BY <1>2, <1>3, <1>4, <1>5, <1>6 DEF Cast

\* A vote is not touched by the handlers of the poll but for being removed, and an
\* abstention removes it.
LEMMA OthersCount ==
  ASSUME OneAtATime, IsFiniteSet(Options), SInv, TInv', NEW w \in Workers,
         Lifecycle(w) \/ Decide(w) \/ Update(w) \/ Abstain(w) \/ Fail(w)
  PROVE  SInv'
<1> SUFFICES SingleChoice' /\ Counted(req[w])'
  BY DEF SInv, OneAtATime
<1>1. req \in [Workers -> Request]
  BY DEF SInv, TInv, TypeOK
<1>2. CASE Abstain(w)
  <2>1. votes' \subseteq votes
    BY <1>2 DEF Abstain, AbstainRead, AbstainVotes, AbstainClear, AbstainInsert
  <2>2. req'[w].pc \in {"abstain_votes", "abstain_clear", "abstain_insert", "idle"}
    <3>1. ASSUME NEW u \in Units, NEW q \in Questions, AbstainRead(w, u, q)
          PROVE  req'[w].pc = "abstain_votes"
      BY <1>1, <3>1 DEF AbstainRead, Start, Idle
    <3>2. CASE AbstainVotes(w) \/ AbstainClear(w)
      BY <1>1, <3>2 DEF AbstainVotes, AbstainClear, Continue, Request
    <3>3. CASE AbstainInsert(w)
      BY <1>1, <3>3, IdleIsRequest DEF AbstainInsert, Finish
    <3>4. QED
      BY <1>2, <3>1, <3>2, <3>3 DEF Abstain
  <2>3. QED
    BY <2>1, <2>2, FewerVotes DEF Counted, SInv
<1>3. CASE Lifecycle(w) \/ Decide(w) \/ Update(w) \/ Fail(w)
  BY <1>3, OthersLeave, FewerVotes DEF Counted, SInv
<1>4. QED
  BY <1>2, <1>3

\* With requests one at a time a unit has at most one vote in a question of single choice,
\* whatever it voted before, whatever it submits and wherever its requests fail.
THEOREM OneVotePerQuestion ==
  ASSUME OneAtATime, IsFiniteSet(Options)
  PROVE  Spec => []SingleChoice
<1>1. Init => SInv
  <2>1. ASSUME Init PROVE SingleChoice /\ \A w \in Workers : Counted(req[w])
    <3>1. \A u \in Units, q \in Questions : VoteOf(u) \cap OptionsOf(q) = {}
      BY <2>1 DEF Init, VoteOf
    <3>2. SingleChoice
      BY <3>1, FS_EmptySet DEF SingleChoice
    <3>3. QED
      BY <2>1, <3>2, IdleIsRequest DEF Init, Counted
  <2>2. QED
    BY <2>1, InitType DEF SInv
<1>2. SInv /\ [Next]_vars => SInv'
  <2> SUFFICES ASSUME SInv, [Next]_vars PROVE SInv'
    OBVIOUS
  <2>1. TInv'
    BY StepType DEF SInv
  <2>2. ASSUME NEW type \in Types, NEW form \in Forms \cup {{}}, Create(type, form)
        PROVE  SInv'
    BY <2>1, <2>2 DEF Create, SInv, SingleChoice, VoteOf, Counted
  <2>3. CASE UNCHANGED vars
    BY <2>1, <2>3 DEF vars, SInv, SingleChoice, VoteOf, Counted
  <2>4. QED
    BY <2>1, <2>2, <2>3, OneAtATime, CastCounts, OthersCount DEF Next
<1>3. SInv => SingleChoice
  BY DEF SInv
<1>4. QED
  BY <1>1, <1>2, <1>3, PTL DEF Spec
-----------------------------------------------------------------------------
\* The decided options are options of their questions.
OwnOptions == \A q \in Questions : question[q] \in OptionsOf(q) \cup {None, Absent}

Complete == Rows(question) # {} /\ \A q \in Rows(question) : question[q] \in OptionsOf(q)

\* What a request read of the poll still holds, since no other one came in between; only
\* one that found the questions complete saves the poll as decided.
Kept(r) ==
    /\ r.pc # "idle" => poll # None
    /\ r.pc = "decide_question" => poll.status = "closed" /\ r.ent = poll
    /\ r.pc \in {"replace_votes", "replace_questions", "replace_insert"} =>
          poll.status = "draft" /\ r.ent.status # "decided"
    /\ r.pc \in {"save_load", "save_write"} =>
          (r.ent.status = "decided" /\ r.ent.type # "ata" => Complete)
    /\ r.pc = "save_write" => r.base = poll

DInv == TInv /\ OwnOptions /\ DecidedIsComplete /\ \A w \in Workers : Kept(req[w])

\* A save of an entity over the row it was compared with writes the entity.
LEMMA SavedOverBase == ASSUME NEW row \in Row, NEW ent \in Row PROVE Saved(row, row, ent) = ent
  BY ConstantsAssumption DEF Saved, Merge, Row

LEMMA LifecycleKeeps ==
  ASSUME OneAtATime, DInv, TInv', NEW w \in Workers, Lifecycle(w)
  PROVE  DInv'
<1> SUFFICES OwnOptions' /\ DecidedIsComplete' /\ Kept(req[w])'
  BY DEF DInv, OneAtATime
<1>1. req \in [Workers -> Request] /\ poll \in RowOrNone
  BY DEF DInv, TInv, TypeOK
<1>2. ASSUME NEW from, NEW to, Move(w, from, to), to = "decided" => poll.type = "ata"
      PROVE  OwnOptions' /\ DecidedIsComplete' /\ Kept(req[w])'
  <2>1. /\ req'[w].pc = "save_load" /\ req'[w].ent = [poll EXCEPT !.status = to]
        /\ poll # None /\ UNCHANGED <<poll, question>>
    BY <1>1, <1>2 DEF Move, Status, Start, Edit, Idle
  <2>2. req'[w].ent.status = to /\ req'[w].ent.type = poll.type
    BY <1>1, <2>1 DEF RowOrNone, Row
  <2>3. QED
    BY <1>2, <2>1, <2>2 DEF DInv, OwnOptions, DecidedIsComplete, Status, Rows, Kept
<1>3. CASE SaveLoad(w)
  <2>1. /\ req'[w].pc = "save_write" /\ req'[w].ent = req[w].ent /\ req'[w].base = poll
        /\ req[w].pc = "save_load" /\ UNCHANGED <<poll, question>>
    BY <1>1, <1>3 DEF SaveLoad, Request
  <2>2. QED
    BY <2>1 DEF DInv, OwnOptions, DecidedIsComplete, Status, Rows, Kept, Complete
<1>4. CASE SaveWrite(w)
  <2>1. poll \in Row /\ req[w].base = poll /\ req[w].ent \in Row
    BY <1>1, <1>4, ConstantsAssumption
    DEF SaveWrite, DInv, Kept, TInv, WellFormed, Request, RowOrNone
  <2>2. poll' = req[w].ent /\ poll' # None /\ question' = question
    BY <1>4, <2>1, SavedOverBase, ConstantsAssumption DEF SaveWrite
  <2>3. poll'.status = "decided" /\ poll'.type # "ata" => Complete
    BY <1>4, <2>2 DEF SaveWrite, DInv, Kept
  <2>4. req'[w].pc \in {"idle", "refresh"}
    BY <1>1, <1>4 DEF SaveWrite, Idle
  <2>5. QED
    BY <2>2, <2>3, <2>4 DEF DInv, OwnOptions, DecidedIsComplete, Status, Rows, Kept, Complete
<1>5. CASE DeleteRead(w)
  <2>1. req'[w].pc = "delete_row" /\ poll # None /\ UNCHANGED <<poll, question>>
    BY <1>1, <1>5 DEF DeleteRead, Status, Start, Idle
  <2>2. QED
    BY <2>1 DEF DInv, OwnOptions, DecidedIsComplete, Status, Rows, Kept
<1>6. CASE DeleteRow(w)
  <2>1. req'[w].pc = "idle" /\ poll' = None /\ question' = NoQuestions
    BY <1>1, <1>6, IdleIsRequest DEF DeleteRow, Finish
  <2>2. QED
    BY <2>1 DEF OwnOptions, NoQuestions, DecidedIsComplete, Status, Kept
<1>7. ASSUME Open(w) \/ Close(w) \/ FinalizeAta(w) \/ RegisterFinalResolution(w) \/ Resume(w)
      PROVE  \E from, to : Move(w, from, to) /\ (to = "decided" => poll.type = "ata")
  BY <1>7 DEF Open, Close, FinalizeAta, RegisterFinalResolution, Resume
<1>8. QED
  BY <1>2, <1>3, <1>4, <1>5, <1>6, <1>7 DEF Lifecycle

LEMMA DecideKeeps ==
  ASSUME OneAtATime, DInv, TInv', NEW w \in Workers, Decide(w)
  PROVE  DInv'
<1> SUFFICES OwnOptions' /\ DecidedIsComplete' /\ Kept(req[w])'
  BY DEF DInv, OneAtATime
<1>1. req \in [Workers -> Request] /\ poll \in RowOrNone /\ question \in Table
  BY DEF DInv, TInv, TypeOK
<1>2. ASSUME NEW o \in Options, DecideRead(w, o)
      PROVE  OwnOptions' /\ DecidedIsComplete' /\ Kept(req[w])'
  <2>1. /\ req'[w].pc = "decide_question" /\ req'[w].ent = poll
        /\ poll # None /\ poll.status = "closed" /\ UNCHANGED <<poll, question>>
    BY <1>1, <1>2 DEF DecideRead, Status, Start, Edit, Idle
  <2>2. QED
    BY <2>1 DEF DInv, OwnOptions, DecidedIsComplete, Status, Rows, Kept
<1>3. CASE DecideQuestion(w)
  <2>1. req[w].o \in Options /\ QuestionOf[req[w].o] \in Questions
    BY <1>1, <1>3, ConstantsAssumption DEF DecideQuestion, DInv, TInv, WellFormed, Request
  <2>2. OwnOptions'
    BY <1>1, <1>3, <2>1 DEF DecideQuestion, DInv, OwnOptions, OptionsOf, Table
  <2>3. poll # None /\ poll.status = "closed" /\ poll' = poll /\ req[w].ent = poll
    BY <1>3 DEF DecideQuestion, DInv, Kept
  <2>4. req'[w].pc = "save_load" /\ req'[w].ent = poll
    BY <1>1, <1>3, <2>3 DEF DecideQuestion, Continue, Request
  <2>5. QED
    BY <2>2, <2>3, <2>4 DEF DecidedIsComplete, Status, Kept
<1>4. CASE Refresh(w)
  <2>1. poll # None /\ UNCHANGED <<poll, question>>
    BY <1>4 DEF Refresh
  <2>2. AllDecided(question) => Complete
    BY DEF AllDecided, Complete, Rows, DInv, OwnOptions
  <2>3. CASE AllDecided(question)
    <3>1. Edit([poll EXCEPT !.status = "decided"]).pc = "save_load"
      BY DEF Edit, Idle
    <3>2. req'[w].pc = "save_load"
      BY <1>1, <1>4, <2>3, <3>1 DEF Refresh
    <3>3. QED
      BY <2>1, <2>2, <2>3, <3>2
      DEF DInv, OwnOptions, DecidedIsComplete, Status, Rows, Kept, Complete
  <2>4. CASE ~AllDecided(question)
    <3>1. req'[w].pc = "idle"
      BY <1>1, <1>4, <2>4, IdleIsRequest DEF Refresh, Finish
    <3>2. QED
      BY <2>1, <3>1 DEF DInv, OwnOptions, DecidedIsComplete, Status, Rows, Kept
  <2>5. QED
    BY <2>3, <2>4
<1>5. QED
  BY <1>2, <1>3, <1>4 DEF Decide

LEMMA UpdateKeeps ==
  ASSUME OneAtATime, "decided" \notin Overrides, DInv, TInv', NEW w \in Workers, Update(w)
  PROVE  DInv'
<1> SUFFICES OwnOptions' /\ DecidedIsComplete' /\ Kept(req[w])'
  BY DEF DInv, OneAtATime
<1>1. req \in [Workers -> Request] /\ poll \in RowOrNone
  BY DEF DInv, TInv, TypeOK
<1>2. ASSUME NEW type \in Types \cup {Keep}, NEW form \in Forms \cup {{}, Keep},
             NEW status \in Overrides \cup {Keep}, UpdateRead(w, type, form, status)
      PROVE  OwnOptions' /\ DecidedIsComplete' /\ Kept(req[w])'
  <2> DEFINE next == IF type = Keep THEN poll.type ELSE type
             ent == [poll EXCEPT !.type = next, !.status = IF status = Keep THEN @ ELSE status]
  <2>1. poll # None /\ poll \in Row /\ UNCHANGED <<poll, question>>
    BY <1>1, <1>2 DEF UpdateRead, Status, RowOrNone
  <2>2. type # Keep \/ form # Keep => poll.status = "draft"
    BY <1>2 DEF UpdateRead, Configurable, Status
  <2>3. /\ ent.status = IF status = Keep THEN poll.status ELSE status
        /\ ent.type = next
    BY <2>1 DEF Row
  <2>4. ent.status = "decided" => poll.status = "decided"
    BY <2>3
  <2>5. form = Keep => req'[w].pc = "save_load" /\ req'[w].ent = ent
    BY <1>1, <1>2 DEF UpdateRead, Start, Edit, Idle
  <2>6. form # Keep => req'[w].pc = "replace_votes" /\ req'[w].ent = ent
    BY <1>1, <1>2 DEF UpdateRead, Start, Edit, Idle
  <2>7. ent.status = "decided" /\ ent.type # "ata" => Complete
    BY <2>1, <2>2, <2>3, <2>4 DEF DInv, DecidedIsComplete, Status, Complete
  <2>8. Complete' = Complete
    BY <2>1 DEF Complete, Rows
  <2> HIDE DEF ent
  <2>9. Kept(req[w])'
    BY <2>1, <2>2, <2>4, <2>5, <2>6, <2>7, <2>8 DEF Kept
  <2>10. QED
    BY <2>1, <2>9 DEF DInv, OwnOptions, DecidedIsComplete, Status, Rows
<1>3. CASE ReplaceVotes(w)
  <2>1. /\ req'[w].pc = "replace_questions" /\ req'[w].ent = req[w].ent
        /\ req[w].pc = "replace_votes" /\ UNCHANGED <<poll, question>>
    BY <1>1, <1>3 DEF ReplaceVotes, Continue, Request
  <2>2. QED
    BY <2>1 DEF DInv, OwnOptions, DecidedIsComplete, Status, Rows, Kept
<1>4. CASE ReplaceQuestions(w)
  <2>1. /\ req'[w].pc = "replace_insert" /\ req'[w].ent = req[w].ent
        /\ req[w].pc = "replace_questions" /\ poll' = poll /\ question' = NoQuestions
    BY <1>1, <1>4 DEF ReplaceQuestions, Continue, Request
  <2>2. QED
    BY <2>1 DEF DInv, OwnOptions, NoQuestions, DecidedIsComplete, Status, Kept
<1>5. CASE ReplaceInsert(w)
  <2>1. /\ req'[w].pc = "save_load" /\ req'[w].ent = req[w].ent
        /\ req[w].pc = "replace_insert" /\ poll' = poll
    BY <1>1, <1>5 DEF ReplaceInsert, Continue, Request
  <2>2. OwnOptions'
    BY <1>5 DEF ReplaceInsert, DInv, OwnOptions
  <2>3. QED
    BY <2>1, <2>2 DEF DInv, DecidedIsComplete, Status, Kept
<1>6. QED
  BY <1>2, <1>3, <1>4, <1>5 DEF Update

\* Ballots leave the poll and its questions alone.
LEMMA BallotsKeep ==
  ASSUME OneAtATime, DInv, TInv', NEW w \in Workers, Cast(w) \/ Abstain(w) \/ Fail(w)
  PROVE  DInv'
<1> SUFFICES OwnOptions' /\ DecidedIsComplete' /\ Kept(req[w])'
  BY DEF DInv, OneAtATime
<1> DEFINE ballot == {"cast_merge", "cast_clear", "cast_delete", "cast_insert",
                      "abstain_votes", "abstain_clear", "abstain_insert", "idle"}
<1>1. req \in [Workers -> Request]
  BY DEF DInv, TInv, TypeOK
<1>2. ASSUME UNCHANGED <<poll, question>>, req'[w].pc \in ballot, poll # None
      PROVE  OwnOptions' /\ DecidedIsComplete' /\ Kept(req[w])'
  BY <1>2 DEF DInv, OwnOptions, DecidedIsComplete, Status, Rows, Kept
<1>3. CASE Cast(w)
  <2>1. UNCHANGED <<poll, question>>
    BY <1>3 DEF Cast, CastRead, CastMerge, CastClear, CastDelete, CastInsert
  <2>2. ASSUME NEW u \in Units, NEW ids \in SUBSET Options, NEW any \in BOOLEAN,
               CastRead(w, u, ids, any)
        PROVE  req'[w].pc \in ballot /\ poll # None
    BY <1>1, <2>2 DEF CastRead, MayVote, Status, Start, Idle
  <2>3. CASE CastMerge(w) \/ CastClear(w) \/ CastDelete(w) \/ CastInsert(w)
    <3>1. req[w].pc # "idle"
      BY <2>3 DEF CastMerge, CastClear, CastDelete, CastInsert
    <3>2. req'[w].pc \in ballot
      BY <1>1, <2>3, IdleIsRequest
      DEF CastMerge, CastClear, CastDelete, CastInsert, Continue, Finish, Request
    <3>3. QED
      BY <1>2, <2>1, <3>1, <3>2 DEF DInv, Kept
  <2>4. QED
    BY <1>2, <1>3, <2>1, <2>2, <2>3 DEF Cast
<1>4. CASE Abstain(w)
  <2>1. UNCHANGED <<poll, question>>
    BY <1>4 DEF Abstain, AbstainRead, AbstainVotes, AbstainClear, AbstainInsert
  <2>2. ASSUME NEW u \in Units, NEW q \in Questions, AbstainRead(w, u, q)
        PROVE  req'[w].pc \in ballot /\ poll # None
    BY <1>1, <2>2 DEF AbstainRead, Status, Start, Idle
  <2>3. CASE AbstainVotes(w) \/ AbstainClear(w) \/ AbstainInsert(w)
    <3>1. req[w].pc # "idle"
      BY <2>3 DEF AbstainVotes, AbstainClear, AbstainInsert
    <3>2. req'[w].pc \in ballot
      BY <1>1, <2>3, IdleIsRequest
      DEF AbstainVotes, AbstainClear, AbstainInsert, Continue, Finish, Request
    <3>3. QED
      BY <1>2, <2>1, <3>1, <3>2 DEF DInv, Kept
  <2>4. QED
    BY <1>2, <1>4, <2>1, <2>2, <2>3 DEF Abstain
<1>5. CASE Fail(w)
  BY <1>1, <1>2, <1>5, IdleIsRequest DEF Fail, Finish, DInv, Kept
<1>6. QED
  BY <1>3, <1>4, <1>5

\* With requests one at a time, and no update that writes the status itself, a decided poll
\* has questions and each of them has one of its own options as the decided one: no failure
\* between the statements of decide or of a replacement of the questions can undo it.
THEOREM DecisionComplete ==
  ASSUME OneAtATime, "decided" \notin Overrides
  PROVE  Spec => []DecidedIsComplete
<1>1. Init => DInv
  <2>1. ASSUME Init
        PROVE  OwnOptions /\ DecidedIsComplete /\ \A w \in Workers : Kept(req[w])
    BY <2>1, IdleIsRequest DEF Init, OwnOptions, NoQuestions, DecidedIsComplete, Status, Kept
  <2>2. QED
    BY <2>1, InitType DEF DInv
<1>2. DInv /\ [Next]_vars => DInv'
  <2> SUFFICES ASSUME DInv, [Next]_vars PROVE DInv'
    OBVIOUS
  <2>1. TInv'
    BY StepType DEF DInv
  <2>2. ASSUME NEW type \in Types, NEW form \in Forms \cup {{}}, Create(type, form)
        PROVE  DInv'
    <3>1. OwnOptions' /\ DecidedIsComplete'
      BY <2>2 DEF Create, FreshTable, OwnOptions, DecidedIsComplete, Status
    <3>2. \A w \in Workers : Kept(req[w])'
      BY <2>2 DEF Create, DInv, Kept
    <3>3. QED
      BY <2>1, <3>1, <3>2 DEF DInv
  <2>3. CASE UNCHANGED vars
    BY <2>1, <2>3 DEF vars, DInv, OwnOptions, DecidedIsComplete, Status, Rows, Kept, Complete
  <2>4. QED
    BY <2>1, <2>2, <2>3, OneAtATime, LifecycleKeeps, DecideKeeps, UpdateKeeps, BallotsKeep
    DEF Next
<1>3. DInv => DecidedIsComplete
  BY DEF DInv
<1>4. QED
  BY <1>1, <1>2, <1>3, PTL DEF Spec
-----------------------------------------------------------------------------
(***************************************************************************)
(* A settled poll keeps its result.                                        *)
(***************************************************************************)

\* Requests one at a time: what a handler found of the status when it loaded the poll is
\* still so at each of its later steps, whatever statuses updates write.
Held(r) ==
    /\ r.pc # "idle" => poll # None
    /\ r.pc \in {"decide_question", "abstain_votes", "abstain_clear", "abstain_insert"} =>
          poll.status = "closed"
    /\ r.pc \in {"replace_votes", "replace_questions", "replace_insert", "delete_row"} =>
          poll.status = "draft"
    /\ r.pc \in {"cast_merge", "cast_clear", "cast_delete", "cast_insert"} =>
          poll.status \in {"draft", "open", "closed"}
    /\ r.pc = "save_write" => r.base = poll

HInv == TInv /\ \A w \in Workers : Held(req[w])

LEMMA LifecycleHolds ==
  ASSUME OneAtATime, HInv, TInv', NEW w \in Workers, Lifecycle(w)
  PROVE  HInv'
<1> SUFFICES Held(req[w])'
  BY DEF HInv, OneAtATime
<1>1. req \in [Workers -> Request] /\ poll \in RowOrNone
  BY DEF HInv, TInv, TypeOK
<1>2. CASE Open(w) \/ Close(w) \/ FinalizeAta(w) \/ RegisterFinalResolution(w) \/ Resume(w)
  <2>1. PICK from, to : Move(w, from, to)
    BY <1>2 DEF Open, Close, FinalizeAta, RegisterFinalResolution, Resume
  <2>2. req'[w].pc = "save_load" /\ poll # None /\ poll' = poll
    BY <1>1, <2>1 DEF Move, Status, Start, Edit, Idle
  <2>3. QED
    BY <2>2 DEF Held
<1>3. CASE SaveLoad(w)
  <2>1. /\ req'[w].pc = "save_write" /\ req'[w].base = poll /\ req[w].pc = "save_load"
        /\ poll' = poll
    BY <1>1, <1>3 DEF SaveLoad, Request
  <2>2. QED
    BY <2>1 DEF HInv, Held
<1>4. CASE SaveWrite(w)
  <2>1. poll \in Row /\ req[w].base = poll /\ req[w].ent \in Row
    BY <1>1, <1>4, ConstantsAssumption
    DEF SaveWrite, HInv, Held, TInv, WellFormed, Request, RowOrNone
  <2>2. poll' # None
    BY <1>4, <2>1, SavedOverBase, ConstantsAssumption DEF SaveWrite
  <2>3. req'[w].pc \in {"idle", "refresh"}
    BY <1>1, <1>4 DEF SaveWrite, Idle
  <2>4. QED
    BY <2>2, <2>3 DEF Held
<1>5. CASE DeleteRead(w)
  <2>1. /\ req'[w].pc = "delete_row" /\ poll # None /\ poll.status = "draft" /\ poll' = poll
    BY <1>1, <1>5 DEF DeleteRead, Status, Start, Idle
  <2>2. QED
    BY <2>1 DEF Held
<1>6. CASE DeleteRow(w)
  <2>1. req'[w].pc = "idle"
    BY <1>1, <1>6, IdleIsRequest DEF DeleteRow, Finish
  <2>2. QED
    BY <2>1 DEF Held
<1>7. QED
  BY <1>2, <1>3, <1>4, <1>5, <1>6 DEF Lifecycle

LEMMA DecideHolds ==
  ASSUME OneAtATime, HInv, TInv', NEW w \in Workers, Decide(w)
  PROVE  HInv'
<1> SUFFICES Held(req[w])'
  BY DEF HInv, OneAtATime
<1>1. req \in [Workers -> Request]
  BY DEF HInv, TInv, TypeOK
<1>2. ASSUME NEW o \in Options, DecideRead(w, o) PROVE Held(req[w])'
  <2>1. /\ req'[w].pc = "decide_question" /\ poll # None /\ poll.status = "closed" /\ poll' = poll
    BY <1>1, <1>2 DEF DecideRead, Status, Start, Edit, Idle
  <2>2. QED
    BY <2>1 DEF Held
<1>3. CASE DecideQuestion(w)
  <2>1. req'[w].pc = "save_load" /\ req[w].pc = "decide_question" /\ poll' = poll
    BY <1>1, <1>3 DEF DecideQuestion, Continue, Request
  <2>2. QED
    BY <2>1 DEF HInv, Held
<1>4. CASE Refresh(w)
  <2>1. req'[w].pc \in {"save_load", "idle"}
    BY <1>1, <1>4, IdleIsRequest DEF Refresh, Finish, Edit, Idle
  <2>2. poll # None /\ poll' = poll
    BY <1>4 DEF Refresh
  <2>3. QED
    BY <2>1, <2>2 DEF Held
<1>5. QED
  BY <1>2, <1>3, <1>4 DEF Decide

LEMMA UpdateHolds ==
  ASSUME OneAtATime, HInv, TInv', NEW w \in Workers, Update(w)
  PROVE  HInv'
<1> SUFFICES Held(req[w])'
  BY DEF HInv, OneAtATime
<1>1. req \in [Workers -> Request]
  BY DEF HInv, TInv, TypeOK
<1>2. ASSUME NEW type \in Types \cup {Keep}, NEW form \in Forms \cup {{}, Keep},
             NEW status \in Overrides \cup {Keep}, UpdateRead(w, type, form, status)
      PROVE  Held(req[w])'
  <2>1. poll # None /\ poll' = poll
    BY <1>2 DEF UpdateRead, Status
  <2>2. form = Keep => req'[w].pc = "save_load"
    BY <1>1, <1>2 DEF UpdateRead, Start, Edit, Idle
  <2>3. form # Keep => req'[w].pc = "replace_votes" /\ poll.status = "draft"
    BY <1>1, <1>2 DEF UpdateRead, Configurable, Status, Start, Edit, Idle
  <2>4. QED
    BY <2>1, <2>2, <2>3 DEF Held
<1>3. CASE ReplaceVotes(w) \/ ReplaceQuestions(w)
  <2>1. /\ req'[w].pc \in {"replace_questions", "replace_insert"} /\ poll' = poll
        /\ req[w].pc \in {"replace_votes", "replace_questions"}
    BY <1>1, <1>3 DEF ReplaceVotes, ReplaceQuestions, Continue, Request
  <2>2. QED
    BY <2>1 DEF HInv, Held
<1>4. CASE ReplaceInsert(w)
  <2>1. req'[w].pc = "save_load" /\ poll' = poll /\ req[w].pc = "replace_insert"
    BY <1>1, <1>4 DEF ReplaceInsert, Continue, Request
  <2>2. QED
    BY <2>1 DEF HInv, Held
<1>5. QED
  BY <1>2, <1>3, <1>4 DEF Update

LEMMA BallotsHold ==
  ASSUME OneAtATime, HInv, TInv', NEW w \in Workers, Cast(w) \/ Abstain(w) \/ Fail(w)
  PROVE  HInv'
<1> SUFFICES Held(req[w])'
  BY DEF HInv, OneAtATime
<1>1. req \in [Workers -> Request]
  BY DEF HInv, TInv, TypeOK
<1>2. poll' = poll
  BY DEF Cast, CastRead, CastMerge, CastClear, CastDelete, CastInsert,
         Abstain, AbstainRead, AbstainVotes, AbstainClear, AbstainInsert, Fail
<1> DEFINE casting == {"cast_merge", "cast_clear", "cast_delete", "cast_insert"}
           abstaining == {"abstain_votes", "abstain_clear", "abstain_insert"}
<1>3. ASSUME NEW u \in Units, NEW ids \in SUBSET Options, NEW any \in BOOLEAN,
             CastRead(w, u, ids, any)
      PROVE  Held(req[w])'
  <2>1. req'[w].pc = "cast_merge" /\ poll # None /\ poll.status \in {"draft", "open", "closed"}
    BY <1>1, <1>3 DEF CastRead, MayVote, Status, Start, Idle
  <2>2. QED
    BY <1>2, <2>1 DEF Held
<1>4. CASE CastMerge(w) \/ CastClear(w) \/ CastDelete(w) \/ CastInsert(w)
  <2>1. req[w].pc \in casting
    BY <1>4 DEF CastMerge, CastClear, CastDelete, CastInsert
  <2>2. req'[w].pc \in casting \cup {"idle"}
    BY <1>1, <1>4, IdleIsRequest
    DEF CastMerge, CastClear, CastDelete, CastInsert, Continue, Finish, Request
  <2>3. QED
    BY <1>2, <2>1, <2>2 DEF HInv, Held
<1>5. ASSUME NEW u \in Units, NEW q \in Questions, AbstainRead(w, u, q) PROVE Held(req[w])'
  <2>1. req'[w].pc = "abstain_votes" /\ poll # None /\ poll.status = "closed"
    BY <1>1, <1>5 DEF AbstainRead, Status, Start, Idle
  <2>2. QED
    BY <1>2, <2>1 DEF Held
<1>6. CASE AbstainVotes(w) \/ AbstainClear(w) \/ AbstainInsert(w)
  <2>1. req[w].pc \in abstaining
    BY <1>6 DEF AbstainVotes, AbstainClear, AbstainInsert
  <2>2. req'[w].pc \in abstaining \cup {"idle"}
    BY <1>1, <1>6, IdleIsRequest
    DEF AbstainVotes, AbstainClear, AbstainInsert, Continue, Finish, Request
  <2>3. QED
    BY <1>2, <2>1, <2>2 DEF HInv, Held
<1>7. CASE Fail(w)
  <2>1. req'[w].pc = "idle"
    BY <1>1, <1>7, IdleIsRequest DEF Fail, Finish
  <2>2. QED
    BY <2>1 DEF Held
<1>8. QED
  BY <1>3, <1>4, <1>5, <1>6, <1>7 DEF Cast, Abstain

LEMMA InitHolds == Init => HInv
<1>1. ASSUME Init PROVE \A w \in Workers : Held(req[w])
  BY <1>1, IdleIsRequest DEF Init, Held
<1>2. QED
  BY <1>1, InitType DEF HInv

LEMMA NextHolds == ASSUME OneAtATime, HInv, [Next]_vars PROVE HInv'
<1>1. TInv'
  BY StepType DEF HInv
<1>2. ASSUME NEW type \in Types, NEW form \in Forms \cup {{}}, Create(type, form) PROVE HInv'
  <2>1. \A w \in Workers : req'[w] = req[w] /\ req[w].pc = "idle"
    BY <1>2 DEF Create, HInv, Held
  <2>2. QED
    BY <1>1, <2>1 DEF HInv, Held
<1>3. CASE UNCHANGED vars
  BY <1>1, <1>3 DEF vars, HInv, Held
<1>4. QED
  BY <1>1, <1>2, <1>3, LifecycleHolds, DecideHolds, UpdateHolds, BallotsHold DEF Next

\* A handler that was let in writes questions, votes or abstentions of a poll that is not
\* settled yet.
LEMMA SettledIsKept ==
  ASSUME OneAtATime, HInv, [Next]_vars,
         Status({"decided", "postponed", "withdrawn"}), poll' = poll
  PROVE  UNCHANGED <<question, votes, abstained>>
<1>1. poll # None /\ poll.status \in {"decided", "postponed", "withdrawn"}
  BY DEF Status
<1>2. \A w \in Workers :
        req[w].pc \notin {"decide_question", "abstain_votes", "abstain_clear", "abstain_insert",
                          "replace_votes", "replace_questions", "replace_insert", "delete_row",
                          "cast_merge", "cast_clear", "cast_delete", "cast_insert"}
  BY <1>1 DEF HInv, Held
<1>3. ASSUME NEW w \in Workers, Lifecycle(w) PROVE UNCHANGED <<question, votes, abstained>>
  <2>1. CASE Open(w) \/ Close(w) \/ FinalizeAta(w) \/ RegisterFinalResolution(w) \/ Resume(w)
    BY <2>1 DEF Open, Close, FinalizeAta, RegisterFinalResolution, Resume, Move
  <2>2. CASE SaveWrite(w)
    <3>1. req[w].base # None
      BY <1>1, <2>2 DEF SaveWrite, HInv, Held
    <3>2. QED
      BY <2>2, <3>1 DEF SaveWrite
  <2>3. QED
    BY <1>2, <1>3, <2>1, <2>2 DEF Lifecycle, SaveLoad, DeleteRead, DeleteRow
<1>4. ASSUME NEW w \in Workers, Decide(w) PROVE UNCHANGED <<question, votes, abstained>>
  BY <1>2, <1>4 DEF Decide, DecideRead, DecideQuestion, Refresh
<1>5. ASSUME NEW w \in Workers, Update(w) PROVE UNCHANGED <<question, votes, abstained>>
  BY <1>2, <1>5 DEF Update, UpdateRead, ReplaceVotes, ReplaceQuestions, ReplaceInsert
<1>6. ASSUME NEW w \in Workers, Cast(w) PROVE UNCHANGED <<question, votes, abstained>>
  BY <1>2, <1>6 DEF Cast, CastRead, CastMerge, CastClear, CastDelete, CastInsert
<1>7. ASSUME NEW w \in Workers, Abstain(w) \/ Fail(w)
      PROVE  UNCHANGED <<question, votes, abstained>>
  BY <1>2, <1>7 DEF Abstain, AbstainRead, AbstainVotes, AbstainClear, AbstainInsert, Fail
<1>8. ASSUME NEW type \in Types, NEW form \in Forms \cup {{}}
      PROVE  ~ Create(type, form)
  BY <1>1 DEF Create
<1>9. QED
  BY <1>3, <1>4, <1>5, <1>6, <1>7, <1>8 DEF Next, vars

\* With requests one at a time the assembly is held on what it decided: while a poll keeps a
\* final or postponed status neither its votes, its abstentions nor its decisions change,
\* whatever statuses updates write and wherever requests fail.
THEOREM ResultStays ==
  ASSUME OneAtATime
  PROVE  Spec => ResultIsFinal
<1>1. HInv /\ [Next]_vars => HInv'
  BY NextHolds
<1>2. HInv /\ [Next]_vars =>
        (Status({"decided", "postponed", "withdrawn"}) /\ poll' = poll
           => UNCHANGED <<question, votes, abstained>>)
  BY SettledIsKept
<1>3. QED
  BY <1>1, <1>2, InitHolds, PTL DEF Spec, ResultIsFinal
-----------------------------------------------------------------------------
(***************************************************************************)
(* The poll as a ballot box.                                               *)
(***************************************************************************)

\* A save writes the status the poll has or the next one; the poll is looked at again, to be
\* decided, only by a decision on a closed poll.
Staged(r) ==
    /\ r.pc \in {"save_load", "save_write", "replace_votes", "replace_questions", "replace_insert"} =>
          r.ent.status \in {poll.status} \cup Box!Successors[poll.status]
    /\ r.pc \in {"replace_votes", "replace_questions", "replace_insert"} => r.then = "done"
    /\ r.pc = "decide_question" => r.ent = poll /\ r.then = "refresh"
    /\ r.pc \in {"save_load", "save_write"} /\ r.then = "refresh" => r.ent.status = "closed"
    /\ r.pc = "refresh" => poll.status = "closed"

Named(ids) == {QuestionOf[o] : o \in ids}

\* A ballot on its way answers questions that are on the form, among them all that its unit
\* answered before, and one option of a question of single choice.
Sealed(r) ==
    /\ r.pc \in {"cast_merge", "cast_clear", "cast_delete", "cast_insert"} =>
          r.ids # {} /\ Named(r.ids) \subseteq Rows(question)
    /\ r.pc = "cast_merge" => r.qs = question
    /\ r.pc \in {"cast_clear", "cast_delete", "cast_insert"} =>
          \A a, b \in r.ids : QuestionOf[a] = QuestionOf[b] /\ a # b => QuestionOf[a] \in Multiple
    /\ r.pc \in {"cast_clear", "cast_delete"} => Named(VoteOf(r.unit)) \subseteq Named(r.ids)
    /\ r.pc = "cast_insert" => VoteOf(r.unit) = {}

\* Votes are about questions of the poll.
VotesListed ==
    /\ \A u \in Units : Named(VoteOf(u)) \subseteq Rows(question)
    /\ poll = None => votes = {}

BInv == HInv /\ VotesListed /\ \A w \in Workers : Staged(req[w]) /\ Sealed(req[w])

\* The stages a poll goes through, for updates that leave the status alone.
LEMMA LifecycleStages ==
  ASSUME OneAtATime, BInv, TInv', NEW w \in Workers, Lifecycle(w)
  PROVE  Staged(req[w])'
<1>1. req \in [Workers -> Request] /\ poll \in RowOrNone
  BY DEF BInv, HInv, TInv, TypeOK
<1>2. CASE Open(w) \/ Close(w) \/ FinalizeAta(w) \/ RegisterFinalResolution(w) \/ Resume(w)
  <2>1. PICK from, to : Move(w, from, to) /\ to \in Box!Successors[from]
    BY <1>2 DEF Open, Close, FinalizeAta, RegisterFinalResolution, Resume, Box!Successors
  <2>2. poll \in Row /\ poll.status = from /\ poll' = poll
    BY <1>1, <2>1 DEF Move, Status, RowOrNone
  <2>3. req'[w] = Edit([poll EXCEPT !.status = to])
    BY <1>1, <2>1 DEF Move, Start
  <2>4. [poll EXCEPT !.status = to].status = to
    BY <2>2 DEF Row
  <2>5. req'[w].pc = "save_load" /\ req'[w].ent.status = to /\ req'[w].then = "done"
    BY <2>3, <2>4 DEF Edit, Idle
  <2>6. QED
    BY <2>1, <2>2, <2>5 DEF Staged, Box!Successors
<1>3. CASE SaveLoad(w)
  <2>1. /\ req'[w].pc = "save_write" /\ req[w].pc = "save_load" /\ poll' = poll
        /\ req'[w].ent = req[w].ent /\ req'[w].then = req[w].then
    BY <1>1, <1>3 DEF SaveLoad, Request
  <2>2. QED
    BY <2>1 DEF BInv, Staged, Box!Successors
<1>4. CASE SaveWrite(w)
  <2>1. poll \in Row /\ req[w].base = poll /\ req[w].ent \in Row
    BY <1>1, <1>4, ConstantsAssumption
    DEF SaveWrite, BInv, HInv, Held, TInv, WellFormed, Request, RowOrNone
  <2>2. poll' = req[w].ent /\ req[w].pc = "save_write"
    BY <1>4, <2>1, SavedOverBase, ConstantsAssumption DEF SaveWrite
  <2>3. CASE req[w].then = "done"
    <3>1. req'[w].pc = "idle"
      BY <1>1, <1>4, <2>3, IdleIsRequest DEF SaveWrite
    <3>2. QED
      BY <3>1 DEF Staged
  <2>4. CASE req[w].then # "done"
    <3>1. req'[w].pc = "refresh"
      BY <1>1, <1>4, <2>4 DEF SaveWrite, Idle
    <3>2. req[w].then = "refresh"
      BY <1>1, <2>4 DEF Request
    <3>3. poll'.status = "closed"
      BY <2>2, <3>2 DEF BInv, Staged
    <3>4. QED
      BY <3>1, <3>3 DEF Staged
  <2>5. QED
    BY <2>3, <2>4
<1>5. CASE DeleteRead(w) \/ DeleteRow(w)
  <2>1. req'[w].pc \in {"delete_row", "idle"}
    BY <1>1, <1>5, IdleIsRequest DEF DeleteRead, DeleteRow, Finish, Start, Idle
  <2>2. QED
    BY <2>1 DEF Staged
<1>6. QED
  BY <1>2, <1>3, <1>4, <1>5 DEF Lifecycle

LEMMA DecideStages ==
  ASSUME OneAtATime, BInv, TInv', NEW w \in Workers, Decide(w)
  PROVE  Staged(req[w])'
<1>1. req \in [Workers -> Request] /\ poll \in RowOrNone
  BY DEF BInv, HInv, TInv, TypeOK
<1>2. ASSUME NEW o \in Options, DecideRead(w, o) PROVE Staged(req[w])'
  <2>1. /\ req'[w].pc = "decide_question" /\ req'[w].ent = poll /\ req'[w].then = "refresh"
        /\ poll' = poll
    BY <1>1, <1>2 DEF DecideRead, Start, Edit, Idle
  <2>2. QED
    BY <2>1 DEF Staged
<1>3. CASE DecideQuestion(w)
  <2>1. /\ req'[w].pc = "save_load" /\ req[w].pc = "decide_question" /\ poll' = poll
        /\ req'[w].ent = req[w].ent /\ req'[w].then = req[w].then
    BY <1>1, <1>3 DEF DecideQuestion, Continue, Request
  <2>2. req[w].ent = poll /\ poll.status = "closed"
    BY <2>1 DEF BInv, HInv, Held, Staged
  <2>3. QED
    BY <2>1, <2>2 DEF Staged
<1>4. CASE Refresh(w)
  <2>1. poll \in Row /\ poll' = poll /\ poll.status = "closed"
    BY <1>1, <1>4 DEF Refresh, RowOrNone, BInv, Staged
  <2>2. CASE AllDecided(question)
    <3>1. req'[w] = Edit([poll EXCEPT !.status = "decided"])
      BY <1>1, <1>4, <2>2 DEF Refresh
    <3>2. [poll EXCEPT !.status = "decided"].status = "decided"
      BY <2>1 DEF Row
    <3>3. req'[w].pc = "save_load" /\ req'[w].ent.status = "decided" /\ req'[w].then = "done"
      BY <3>1, <3>2 DEF Edit, Idle
    <3>4. QED
      BY <2>1, <3>3 DEF Staged, Box!Successors
  <2>3. CASE ~AllDecided(question)
    <3>1. req'[w].pc = "idle"
      BY <1>1, <1>4, <2>3, IdleIsRequest DEF Refresh, Finish
    <3>2. QED
      BY <3>1 DEF Staged
  <2>4. QED
    BY <2>2, <2>3
<1>5. QED
  BY <1>2, <1>3, <1>4 DEF Decide

LEMMA UpdateStages ==
  ASSUME OneAtATime, Overrides = {}, BInv, TInv', NEW w \in Workers, Update(w)
  PROVE  Staged(req[w])'
<1>1. req \in [Workers -> Request] /\ poll \in RowOrNone
  BY DEF BInv, HInv, TInv, TypeOK
<1>2. ASSUME NEW type \in Types \cup {Keep}, NEW form \in Forms \cup {{}, Keep},
             NEW status \in Overrides \cup {Keep}, UpdateRead(w, type, form, status)
      PROVE  Staged(req[w])'
  <2> DEFINE next == IF type = Keep THEN poll.type ELSE type
             ent == [poll EXCEPT !.type = next, !.status = IF status = Keep THEN @ ELSE status]
  <2>1. poll \in Row /\ poll' = poll /\ status = Keep
    BY <1>1, <1>2 DEF UpdateRead, Status, RowOrNone
  <2>2. ent.status = poll.status
    BY <2>1 DEF Row
  <2>3. /\ req'[w].pc \in {"save_load", "replace_votes"}
        /\ req'[w].ent = ent /\ req'[w].then = "done"
    BY <1>1, <1>2 DEF UpdateRead, Start, Edit, Idle
  <2> HIDE DEF ent
  <2>4. QED
    BY <2>1, <2>2, <2>3 DEF Staged
<1>3. CASE ReplaceVotes(w) \/ ReplaceQuestions(w) \/ ReplaceInsert(w)
  <2>1. /\ req'[w].pc \in {"replace_questions", "replace_insert", "save_load"}
        /\ req[w].pc \in {"replace_votes", "replace_questions", "replace_insert"}
        /\ req'[w].ent = req[w].ent /\ req'[w].then = req[w].then /\ poll' = poll
    BY <1>1, <1>3 DEF ReplaceVotes, ReplaceQuestions, ReplaceInsert, Continue, Request
  <2>2. QED
    BY <2>1 DEF BInv, Staged, Box!Successors
<1>4. QED
  BY <1>2, <1>3 DEF Update

LEMMA BallotsStage ==
  ASSUME OneAtATime, BInv, TInv', NEW w \in Workers, Cast(w) \/ Abstain(w) \/ Fail(w)
  PROVE  Staged(req[w])'
<1>1. req \in [Workers -> Request]
  BY DEF BInv, HInv, TInv, TypeOK
<1> DEFINE ballot == {"cast_merge", "cast_clear", "cast_delete", "cast_insert",
                      "abstain_votes", "abstain_clear", "abstain_insert", "idle"}
<1>2. ASSUME NEW u \in Units, NEW ids \in SUBSET Options, NEW any \in BOOLEAN,
             CastRead(w, u, ids, any)
      PROVE  req'[w].pc \in ballot
  BY <1>1, <1>2 DEF CastRead, Start, Idle
<1>3. ASSUME NEW u \in Units, NEW q \in Questions, AbstainRead(w, u, q)
      PROVE  req'[w].pc \in ballot
  BY <1>1, <1>3 DEF AbstainRead, Start, Idle
<1>4. CASE \/ CastMerge(w) \/ CastClear(w) \/ CastDelete(w) \/ CastInsert(w)
           \/ AbstainVotes(w) \/ AbstainClear(w) \/ AbstainInsert(w) \/ Fail(w)
  <2>1. req'[w].pc \in ballot
    BY <1>1, <1>4, IdleIsRequest
    DEF CastMerge, CastClear, CastDelete, CastInsert, AbstainVotes, AbstainClear, AbstainInsert,
        Fail, Continue, Finish, Request
  <2>2. QED
    BY <2>1 DEF Staged
<1>5. req'[w].pc \in ballot => Staged(req[w])'
  BY DEF Staged
<1>6. QED
  BY <1>2, <1>3, <1>4, <1>5 DEF Cast, Abstain

\* A set of which an element at most is an option of the question.
LEMMA OneOption ==
  ASSUME IsFiniteSet(Options), NEW ids \in SUBSET Options, NEW q,
         Cardinality(ids \cap OptionsOf(q)) <= 1, NEW a \in ids, NEW b \in ids,
         QuestionOf[a] = q, QuestionOf[b] = q
  PROVE  a = b
<1> SUFFICES ASSUME a # b PROVE FALSE
  OBVIOUS
<1> DEFINE S == ids \cap OptionsOf(q)
<1>1. a \in S /\ b \in S
  BY DEF OptionsOf
<1>2. IsFiniteSet(S)
  BY FS_Subset
<1>3. Cardinality(S) <= 1
  OBVIOUS
<1> HIDE DEF S
<1>4. IsFiniteSet(S \ {a}) /\ Cardinality(S \ {a}) = Cardinality(S) - 1
  BY <1>1, <1>2, FS_RemoveElement
<1>5. Cardinality(S \ {a}) \in Nat
  BY <1>4, FS_CardinalityType
<1>6. Cardinality(S) \in Nat
  BY <1>2, FS_CardinalityType
<1>7. S \ {a} = {}
  <2>1. Cardinality(S \ {a}) = 0
    BY <1>3, <1>4, <1>5, <1>6
  <2>2. QED
    BY <1>4, <2>1, FS_EmptySet
<1>8. QED
  BY <1>1, <1>7

LEMMA CastSeals ==
  ASSUME OneAtATime, IsFiniteSet(Options), BInv, TInv', NEW w \in Workers, Cast(w)
  PROVE  VotesListed' /\ Sealed(req[w])'
<1>1. req[w] \in Request /\ req \in [Workers -> Request] /\ WellFormed(req[w])
  BY DEF BInv, HInv, TInv, TypeOK
<1>2. UNCHANGED <<poll, question>>
  BY DEF Cast, CastRead, CastMerge, CastClear, CastDelete, CastInsert
<1>3. votes' \subseteq votes => VotesListed'
  <2> SUFFICES ASSUME votes' \subseteq votes PROVE VotesListed'
    OBVIOUS
  <2>1. \A u \in Units : VoteOf(u)' \subseteq VoteOf(u)
    BY DEF VoteOf
  <2>2. Rows(question)' = Rows(question)
    BY <1>2
  <2>3. QED
    BY <1>2, <2>1, <2>2 DEF BInv, VotesListed, Named
<1>4. ASSUME NEW u \in Units, NEW ids \in SUBSET Options, NEW any \in BOOLEAN,
             CastRead(w, u, ids, any)
      PROVE  VotesListed' /\ Sealed(req[w])'
  <2>1. /\ req'[w].pc = "cast_merge" /\ req'[w].ids = ids /\ req'[w].qs = question
        /\ votes' = votes /\ ids # {}
    BY <1>1, <1>4 DEF CastRead, Start, Idle
  <2>2. Named(ids) \subseteq Rows(question)
    BY <1>4, ConstantsAssumption DEF CastRead, Named, Rows
  <2>3. QED
    BY <1>2, <1>3, <2>1, <2>2 DEF Sealed
<1>5. CASE CastMerge(w)
  <2> DEFINE r == req[w]
             existing == {o \in VoteOf(r.unit) : r.qs[QuestionOf[o]] # Absent}
             ids == Merged(existing, r.ids)
  <2>1. /\ r.pc = "cast_merge" /\ req'[w].pc = "cast_clear" /\ req'[w].ids = ids
        /\ req'[w].unit = r.unit /\ votes' = votes
    BY <1>1, <1>5 DEF CastMerge, Request
  <2>2. /\ r.qs = question /\ r.ids # {} /\ Named(r.ids) \subseteq Rows(question)
        /\ r.unit \in Units /\ r.ids \subseteq Options
    BY <1>1, <2>1 DEF BInv, Sealed, WellFormed, Request
  <2>3. r.ids \subseteq ids /\ ids \subseteq r.ids \cup VoteOf(r.unit)
    BY DEF Merged
  <2>4. Named(VoteOf(r.unit)) \subseteq Rows(question) /\ VoteOf(r.unit) \subseteq Options
    BY <2>2 DEF BInv, VotesListed, VoteOf
  <2>5. ids # {} /\ Named(ids) \subseteq Rows(question) /\ ids \subseteq Options
    BY <2>2, <2>3, <2>4 DEF Named
  <2>6. ASSUME NEW o \in VoteOf(r.unit) PROVE QuestionOf[o] \in Named(ids)
    <3>1. o \in existing
      BY <2>2, <2>4 DEF Named, Rows
    <3>2. CASE r.ids \cap OptionsOf(QuestionOf[o]) = {}
      <4>1. o \in ids
        BY <3>1, <3>2 DEF Merged
      <4>2. QED
        BY <4>1 DEF Named
    <3>3. CASE r.ids \cap OptionsOf(QuestionOf[o]) # {}
      <4>1. PICK p \in r.ids : QuestionOf[p] = QuestionOf[o]
        BY <3>3 DEF OptionsOf
      <4>2. p \in ids
        BY <2>3
      <4>3. QED
        BY <4>1, <4>2 DEF Named
    <3>4. QED
      BY <3>2, <3>3
  <2>7. \A q \in Rows(r.qs) : AtMostOne(q, ids)
    BY <1>5 DEF CastMerge
  <2> HIDE DEF ids
  <2>8. ASSUME NEW a \in ids, NEW b \in ids, QuestionOf[a] = QuestionOf[b], a # b
        PROVE  QuestionOf[a] \in Multiple
    <3>1. QuestionOf[a] \in Rows(r.qs)
      BY <2>2, <2>5 DEF Named
    <3>2. QuestionOf[a] \in Multiple \/ Cardinality(ids \cap OptionsOf(QuestionOf[a])) <= 1
      BY <2>7, <3>1 DEF AtMostOne
    <3>3. QED
      BY <2>5, <2>8, <3>2, OneOption
  <2>9. Named(VoteOf(r.unit)) \subseteq Named(ids)
    BY <2>6 DEF Named
  <2>10. VoteOf(r.unit)' = VoteOf(r.unit)
    BY <2>1 DEF VoteOf
  <2>11. Sealed(req[w])'
    BY <1>2, <2>1, <2>5, <2>8, <2>9, <2>10 DEF Sealed, Named, VoteOf, Rows
  <2>12. QED
    BY <1>3, <2>1, <2>11
<1>6. CASE CastClear(w)
  <2>1. /\ req'[w].ids = req[w].ids /\ req'[w].unit = req[w].unit
        /\ req'[w].pc = "cast_delete" /\ req[w].pc = "cast_clear" /\ votes' = votes
    BY <1>1, <1>6 DEF CastClear, Continue, Request
  <2>2. QED
    BY <1>2, <1>3, <2>1 DEF BInv, Sealed, Named, VoteOf, Rows
<1>7. CASE CastDelete(w)
  <2>1. /\ req'[w].ids = req[w].ids /\ req'[w].unit = req[w].unit
        /\ req'[w].pc = "cast_insert" /\ req[w].pc = "cast_delete"
    BY <1>1, <1>7 DEF CastDelete, Continue, Request
  <2>2. votes' = {v \in votes : v[1] # req[w].unit}
    BY <1>7 DEF CastDelete
  <2>3. VoteOf(req[w].unit)' = {} /\ votes' \subseteq votes
    BY <2>1, <2>2 DEF VoteOf
  <2>4. Sealed(req[w])'
    BY <1>2, <2>1, <2>3 DEF BInv, Sealed, Named, Rows, VoteOf
  <2>5. QED
    BY <1>3, <2>3, <2>4
<1>8. CASE CastInsert(w)
  <2>1. req'[w].pc = "idle"
    BY <1>1, <1>8, IdleIsRequest DEF CastInsert, Finish
  <2>2. votes' = votes \cup ({req[w].unit} \X req[w].ids) /\ req[w].pc = "cast_insert"
    BY <1>8 DEF CastInsert
  <2>3. \A u \in Units : VoteOf(u)' \subseteq VoteOf(u) \cup req[w].ids
    BY <2>2 DEF VoteOf
  <2>4. Named(req[w].ids) \subseteq Rows(question) /\ poll # None
    BY <2>2 DEF BInv, Sealed, HInv, Held
  <2>5. VotesListed'
    BY <1>2, <2>3, <2>4 DEF BInv, VotesListed, Named, Rows
  <2>6. QED
    BY <2>1, <2>5 DEF Sealed
<1>9. QED
  BY <1>4, <1>5, <1>6, <1>7, <1>8 DEF Cast

\* The other handlers write no vote, and questions go with their votes.
LEMMA OthersSeal ==
  ASSUME OneAtATime, BInv, TInv', NEW w \in Workers,
         Lifecycle(w) \/ Decide(w) \/ Update(w) \/ Abstain(w) \/ Fail(w)
  PROVE  VotesListed' /\ Sealed(req[w])'
<1>1. req[w] \in Request /\ req \in [Workers -> Request]
  BY DEF BInv, HInv, TInv, TypeOK
<1> DEFINE casting == {"cast_merge", "cast_clear", "cast_delete", "cast_insert"}
<1>2. votes' \subseteq votes
  BY DEF Lifecycle, Open, Close, FinalizeAta, RegisterFinalResolution, Resume, Move, SaveLoad,
         SaveWrite, DeleteRead, DeleteRow, Decide, DecideRead, DecideQuestion, Refresh,
         Update, UpdateRead, ReplaceVotes, ReplaceQuestions, ReplaceInsert,
         Abstain, AbstainRead, AbstainVotes, AbstainClear, AbstainInsert, Fail
<1>3. ASSUME Rows(question) \subseteq Rows(question)' \/ votes' = {},
             poll' = None => poll = None \/ votes' = {}
      PROVE  VotesListed'
  <2>1. \A u \in Units : VoteOf(u)' \subseteq VoteOf(u)
    BY <1>2 DEF VoteOf
  <2>2. CASE votes' = {}
    BY <2>2 DEF VotesListed, VoteOf, Named
  <2>3. CASE Rows(question) \subseteq Rows(question)' /\ (poll' = None => poll = None)
    BY <1>2, <2>1, <2>3 DEF BInv, VotesListed, Named
  <2>4. QED
    BY <1>3, <2>2, <2>3
<1>4. CASE Lifecycle(w)
  <2>1. CASE Open(w) \/ Close(w) \/ FinalizeAta(w) \/ RegisterFinalResolution(w) \/ Resume(w)
    <3>1. PICK from, to : Move(w, from, to)
      BY <2>1 DEF Open, Close, FinalizeAta, RegisterFinalResolution, Resume
    <3>2. req'[w].pc = "save_load" /\ UNCHANGED <<poll, question, votes>>
      BY <1>1, <3>1 DEF Move, Start, Edit, Idle
    <3>3. QED
      BY <1>3, <3>2 DEF Sealed
  <2>2. CASE SaveLoad(w)
    <3>1. req'[w].pc = "save_write" /\ UNCHANGED <<poll, question, votes>>
      BY <1>1, <2>2 DEF SaveLoad
    <3>2. QED
      BY <1>3, <3>1 DEF Sealed
  <2>3. CASE SaveWrite(w)
    <3>1. req'[w].pc \in {"idle", "refresh"}
      BY <1>1, <2>3 DEF SaveWrite, Idle
    <3>2. req[w].base # None /\ poll' # None
      <4>1. poll \in Row /\ req[w].base = poll /\ req[w].ent \in Row
        BY <1>1, <2>3, ConstantsAssumption
        DEF SaveWrite, BInv, HInv, Held, TInv, TypeOK, WellFormed, Request, RowOrNone
      <4>2. QED
        BY <2>3, <4>1, SavedOverBase, ConstantsAssumption DEF SaveWrite
    <3>3. question' = question
      BY <2>3, <3>2 DEF SaveWrite
    <3>4. QED
      BY <1>3, <3>1, <3>2, <3>3 DEF Sealed
  <2>4. CASE DeleteRead(w)
    <3>1. req'[w].pc = "delete_row" /\ UNCHANGED <<poll, question, votes>>
      BY <1>1, <2>4 DEF DeleteRead, Start, Idle
    <3>2. QED
      BY <1>3, <3>1 DEF Sealed
  <2>5. CASE DeleteRow(w)
    <3>1. req'[w].pc = "idle" /\ votes' = {}
      BY <1>1, <2>5, IdleIsRequest DEF DeleteRow, Finish
    <3>2. QED
      BY <1>3, <3>1 DEF Sealed
  <2>6. QED
    BY <1>4, <2>1, <2>2, <2>3, <2>4, <2>5 DEF Lifecycle
<1>5. CASE Decide(w)
  <2>1. poll' = poll /\ Rows(question) \subseteq Rows(question)'
    <3>1. CASE DecideQuestion(w)
      <4>1. req[w].o \in Options /\ question \in Table
        BY <1>1, <3>1 DEF DecideQuestion, BInv, HInv, TInv, TypeOK, WellFormed, Request
      <4>2. QED
        BY <3>1, <4>1, ConstantsAssumption DEF DecideQuestion, Rows, Table
    <3>2. QED
      BY <1>5, <3>1 DEF Decide, DecideRead, Refresh
  <2>2. req'[w].pc \notin casting
    <3>1. ASSUME NEW o \in Options, DecideRead(w, o) PROVE req'[w].pc = "decide_question"
      BY <1>1, <3>1 DEF DecideRead, Start, Edit, Idle
    <3>2. DecideQuestion(w) => req'[w].pc = "save_load"
      BY <1>1 DEF DecideQuestion, Continue, Request
    <3>3. Refresh(w) => req'[w].pc \in {"save_load", "idle"}
      BY <1>1, IdleIsRequest DEF Refresh, Finish, Edit, Idle
    <3>4. QED
      BY <1>5, <3>1, <3>2, <3>3 DEF Decide
  <2>3. QED
    BY <1>3, <2>1, <2>2 DEF Sealed
<1>6. CASE Update(w)
  <2>1. /\ poll' = poll
        /\ Rows(question) \subseteq Rows(question)' \/ votes' = {}
    BY <1>6, ConstantsAssumption
    DEF Update, UpdateRead, ReplaceVotes, ReplaceQuestions, ReplaceInsert, Rows
  <2>2. req'[w].pc \notin casting
    <3>1. ASSUME NEW type \in Types \cup {Keep}, NEW form \in Forms \cup {{}, Keep},
                 NEW status \in Overrides \cup {Keep}, UpdateRead(w, type, form, status)
          PROVE  req'[w].pc \in {"save_load", "replace_votes"}
      BY <1>1, <3>1 DEF UpdateRead, Start, Edit, Idle
    <3>2. ReplaceVotes(w) \/ ReplaceQuestions(w) \/ ReplaceInsert(w) =>
            req'[w].pc \in {"replace_questions", "replace_insert", "save_load"}
      BY <1>1 DEF ReplaceVotes, ReplaceQuestions, ReplaceInsert, Continue, Request
    <3>3. QED
      BY <1>6, <3>1, <3>2 DEF Update
  <2>3. QED
    BY <1>3, <2>1, <2>2 DEF Sealed
<1>7. CASE Abstain(w) \/ Fail(w)
  <2>1. UNCHANGED <<poll, question>>
    BY <1>7 DEF Abstain, AbstainRead, AbstainVotes, AbstainClear, AbstainInsert, Fail
  <2>2. req'[w].pc \notin casting
    <3>1. ASSUME NEW u \in Units, NEW q \in Questions, AbstainRead(w, u, q)
          PROVE  req'[w].pc = "abstain_votes"
      BY <1>1, <3>1 DEF AbstainRead, Start, Idle
    <3>2. AbstainVotes(w) \/ AbstainClear(w) => req'[w].pc \in {"abstain_clear", "abstain_insert"}
      BY <1>1 DEF AbstainVotes, AbstainClear, Continue, Request
    <3>3. AbstainInsert(w) \/ Fail(w) => req'[w].pc = "idle"
      BY <1>1, IdleIsRequest DEF AbstainInsert, Fail, Finish
    <3>4. QED
      BY <1>7, <3>1, <3>2, <3>3 DEF Abstain
  <2>3. QED
    BY <1>3, <2>1, <2>2 DEF Sealed
<1>8. QED
  BY <1>4, <1>5, <1>6, <1>7

LEMMA InitSeals == Init => BInv
<1>1. ASSUME Init PROVE (\A w \in Workers : Staged(req[w]) /\ Sealed(req[w])) /\ VotesListed
  BY <1>1, IdleIsRequest DEF Init, Staged, Sealed, VotesListed, VoteOf, Named
<1>2. QED
  BY <1>1, InitHolds DEF BInv

LEMMA NextSeals ==
  ASSUME OneAtATime, IsFiniteSet(Options), Overrides = {}, BInv, [Next]_vars
  PROVE  BInv'
<1>1. HInv' /\ TInv'
  BY NextHolds DEF BInv, HInv
<1>2. ASSUME NEW type \in Types, NEW form \in Forms \cup {{}}, Create(type, form) PROVE BInv'
  <2>1. \A w \in Workers : req'[w] = req[w] /\ req[w].pc = "idle"
    BY <1>2 DEF Create, BInv, HInv, Held
  <2>2. votes' = {} /\ VotesListed'
    BY <1>2 DEF Create, BInv, VotesListed, VoteOf, Named
  <2>3. QED
    BY <1>1, <2>1, <2>2 DEF BInv, Staged, Sealed
<1>3. ASSUME NEW w \in Workers,
             Lifecycle(w) \/ Decide(w) \/ Update(w) \/ Cast(w) \/ Abstain(w) \/ Fail(w)
      PROVE  BInv'
  <2>1. Staged(req[w])'
    BY <1>1, <1>3, LifecycleStages, DecideStages, UpdateStages, BallotsStage
  <2>2. VotesListed' /\ Sealed(req[w])'
    BY <1>1, <1>3, CastSeals, OthersSeal
  <2>3. QED
    BY <1>1, <2>1, <2>2 DEF BInv, OneAtATime
<1>4. CASE UNCHANGED vars
  <2>1. VotesListed'
    BY <1>4 DEF vars, BInv, VotesListed, VoteOf, Rows, Named
  <2>2. \A w \in Workers : Staged(req[w])'
    BY <1>4 DEF vars, BInv, Staged
  <2>3. \A w \in Workers : Sealed(req[w])'
    BY <1>4 DEF vars, BInv, Sealed, VoteOf, Rows, Named
  <2>4. QED
    BY <1>1, <2>1, <2>2, <2>3 DEF BInv
<1>5. QED
  BY <1>2, <1>3, <1>4 DEF Next

\* The choice of a unit is its votes, or the ballot between the delete and the insert.
LEMMA OneChoice ==
  ASSUME OneAtATime, NEW w \in Workers, NEW u \in Units
  PROVE  /\ Choice(u) = VoteOf(u) \cup
               (IF req[w].pc = "cast_insert" /\ req[w].unit = u THEN req[w].ids ELSE {})
         /\ Choice(u)' = VoteOf(u)' \cup
               (IF req'[w].pc = "cast_insert" /\ req'[w].unit = u THEN req'[w].ids ELSE {})
  BY DEF Choice, OneAtATime

\* Without a ballot on its way the choices are the votes.
LEMMA NoBallot ==
  ASSUME OneAtATime, NEW w \in Workers, req[w].pc # "cast_insert"
  PROVE  \A u \in Units : Choice(u) = VoteOf(u)
  BY DEF Choice, OneAtATime

LEMMA NoBallotNext ==
  ASSUME OneAtATime, NEW w \in Workers, req'[w].pc # "cast_insert"
  PROVE  \A u \in Units : Choice(u)' = VoteOf(u)'
  BY DEF Choice, OneAtATime, VoteOf

\* A step that casts nothing and leaves the votes leaves the choices.
LEMMA SameChoice ==
  ASSUME OneAtATime, NEW w \in Workers, votes' = votes,
         req[w].pc # "cast_insert", req'[w].pc # "cast_insert"
  PROVE  \A u \in Units : Choice(u)' = Choice(u) /\ Choice(u)' = VoteOf(u)
<1>1. \A u \in Units : VoteOf(u)' = VoteOf(u)
  BY DEF VoteOf
<1>2. QED
  BY <1>1, NoBallot, NoBallotNext

Stage == IF poll = None THEN "none" ELSE poll.status

LEMMA SameBox ==
  ASSUME Stage' = Stage, Rows(question)' = Rows(question),
         \A u \in Units : Choice(u)' = Choice(u)
  PROVE  UNCHANGED Box!bvars
  BY DEF Stage, Box!bvars

\* The stage advances, and the rest stays.
LEMMA StageAdvances ==
  ASSUME Stage # "none", Stage' # "none", Stage' \in Box!Successors[Stage],
         Rows(question)' = Rows(question), \A u \in Units : Choice(u)' = Choice(u)
  PROVE  Box!BNext
  BY DEF Stage, Box!BNext, Box!Advance

LEMMA LifecycleBox ==
  ASSUME OneAtATime, BInv, NEW w \in Workers, Lifecycle(w)
  PROVE  Box!BNext \/ UNCHANGED Box!bvars
<1>1. req \in [Workers -> Request] /\ poll \in RowOrNone
  BY DEF BInv, HInv, TInv, TypeOK
<1>2. CASE Open(w) \/ Close(w) \/ FinalizeAta(w) \/ RegisterFinalResolution(w) \/ Resume(w)
  <2>1. PICK from, to : Move(w, from, to)
    BY <1>2 DEF Open, Close, FinalizeAta, RegisterFinalResolution, Resume
  <2>2. req[w].pc = "idle" /\ req'[w].pc = "save_load" /\ UNCHANGED <<poll, question, votes>>
    BY <1>1, <2>1 DEF Move, Start, Edit, Idle
  <2>3. QED
    BY <2>2, SameChoice, SameBox DEF Stage, Rows
<1>3. CASE SaveLoad(w) \/ DeleteRead(w)
  <2>1. SaveLoad(w) => req[w].pc = "save_load" /\ req'[w].pc = "save_write"
    BY <1>1 DEF SaveLoad, Request
  <2>2. DeleteRead(w) => req[w].pc = "idle" /\ req'[w].pc = "delete_row"
    BY <1>1 DEF DeleteRead, Start, Idle
  <2>3. UNCHANGED <<poll, question, votes>>
    BY <1>3 DEF SaveLoad, DeleteRead
  <2>4. QED
    BY <1>3, <2>1, <2>2, <2>3, SameChoice, SameBox DEF Stage, Rows
<1>4. CASE SaveWrite(w)
  <2>1. poll \in Row /\ req[w].base = poll /\ req[w].ent \in Row
    BY <1>1, <1>4, ConstantsAssumption
    DEF SaveWrite, BInv, HInv, Held, TInv, WellFormed, Request, RowOrNone
  <2>2. poll' = req[w].ent /\ question' = question /\ votes' = votes /\ req[w].pc = "save_write"
    BY <1>4, <2>1, SavedOverBase, ConstantsAssumption DEF SaveWrite
  <2>3. req'[w].pc \in {"idle", "refresh"}
    BY <1>1, <1>4 DEF SaveWrite, Idle
  <2>4. \A u \in Units : Choice(u)' = Choice(u)
    BY <2>2, <2>3, SameChoice
  <2>5. Stage = poll.status /\ Stage' = req[w].ent.status
    BY <2>1, <2>2, ConstantsAssumption DEF Stage
  <2>6. Stage' \in {Stage} \cup Box!Successors[Stage]
    BY <2>2, <2>5 DEF BInv, Staged
  <2>7. Stage # "none" /\ Stage' # "none" /\ Rows(question)' = Rows(question)
    BY <2>1, <2>2, <2>5 DEF Row, Statuses, Rows
  <2>8. QED
    BY <2>4, <2>6, <2>7, SameBox, StageAdvances
<1>5. CASE DeleteRow(w)
  <2>1. req[w].pc = "delete_row" /\ req'[w].pc = "idle" /\ poll' = None /\ votes' = {}
    BY <1>1, <1>5, IdleIsRequest DEF DeleteRow, Finish
  <2>2. Stage = "draft" /\ Stage' = "none"
    BY <2>1 DEF Stage, BInv, HInv, Held
  <2>3. \A u \in Units : Choice(u)' = {}
    BY <2>1, OneChoice DEF VoteOf
  <2>4. Box!Advance
    BY <2>2, <2>3 DEF Box!Advance, Box!Successors, Stage
  <2>5. QED
    BY <2>4 DEF Box!BNext
<1>6. QED
  BY <1>2, <1>3, <1>4, <1>5 DEF Lifecycle

LEMMA DecideBox ==
  ASSUME OneAtATime, BInv, NEW w \in Workers, Decide(w)
  PROVE  UNCHANGED Box!bvars
<1>1. req \in [Workers -> Request] /\ question \in Table
  BY DEF BInv, HInv, TInv, TypeOK
<1>2. UNCHANGED <<poll, votes>>
  BY DEF Decide, DecideRead, DecideQuestion, Refresh
<1>3. Rows(question)' = Rows(question)
  <2>1. CASE DecideQuestion(w)
    <3>1. req[w].o \in Options
      BY <1>1, <2>1 DEF DecideQuestion, BInv, HInv, TInv, WellFormed, Request
    <3>2. QED
      BY <1>1, <2>1, <3>1, ConstantsAssumption DEF DecideQuestion, Rows, Table
  <2>2. QED
    BY <2>1 DEF Decide, DecideRead, Refresh, Rows
<1>4. req[w].pc # "cast_insert" /\ req'[w].pc # "cast_insert"
  <2>1. ASSUME NEW o \in Options, DecideRead(w, o)
        PROVE  req[w].pc = "idle" /\ req'[w].pc = "decide_question"
    BY <1>1, <2>1 DEF DecideRead, Start, Edit, Idle
  <2>2. DecideQuestion(w) => req[w].pc = "decide_question" /\ req'[w].pc = "save_load"
    BY <1>1 DEF DecideQuestion, Continue, Request
  <2>3. Refresh(w) => req[w].pc = "refresh" /\ req'[w].pc \in {"save_load", "idle"}
    BY <1>1, IdleIsRequest DEF Refresh, Finish, Edit, Idle
  <2>4. QED
    BY <2>1, <2>2, <2>3 DEF Decide
<1>5. QED
  BY <1>2, <1>3, <1>4, SameChoice, SameBox DEF Stage

LEMMA UpdateBox ==
  ASSUME OneAtATime, BInv, NEW w \in Workers, Update(w)
  PROVE  Box!BNext \/ UNCHANGED Box!bvars
<1>1. req[w] \in Request /\ req \in [Workers -> Request] /\ question \in Table
  BY DEF BInv, HInv, TInv, TypeOK
<1>2. ASSUME NEW type \in Types \cup {Keep}, NEW form \in Forms \cup {{}, Keep},
             NEW status \in Overrides \cup {Keep}, UpdateRead(w, type, form, status)
      PROVE  UNCHANGED Box!bvars
  <2>1. /\ req[w].pc = "idle" /\ req'[w].pc \in {"save_load", "replace_votes"}
        /\ UNCHANGED <<poll, question, votes>>
    BY <1>1, <1>2 DEF UpdateRead, Start, Edit, Idle
  <2>2. QED
    BY <2>1, SameChoice, SameBox DEF Stage, Rows
<1>3. CASE ReplaceVotes(w) \/ ReplaceQuestions(w)
  <2>1. /\ req[w].pc \in {"replace_votes", "replace_questions"} /\ votes' = {} /\ poll' = poll
        /\ req'[w].pc \in {"replace_questions", "replace_insert"}
    BY <1>1, <1>3 DEF ReplaceVotes, ReplaceQuestions, Continue, Request
  <2>2. Stage = "draft" /\ Stage' = Stage
    BY <2>1 DEF Stage, BInv, HInv, Held
  <2>3. \A u \in Units : Choice(u)' = {}
    BY <2>1, OneChoice DEF VoteOf
  <2>4. Rows(question)' \in {Rows(question), {}}
    BY <1>3 DEF ReplaceVotes, ReplaceQuestions, NoQuestions, Rows
  <2>5. Box!Empty
    BY <2>2, <2>3, <2>4 DEF Box!Empty, Stage
  <2>6. QED
    BY <2>5 DEF Box!BNext
<1>4. CASE ReplaceInsert(w)
  <2>1. /\ req[w].pc = "replace_insert" /\ req'[w].pc = "save_load"
        /\ UNCHANGED <<poll, votes>>
    BY <1>1, <1>4 DEF ReplaceInsert, Continue, Request
  <2>2. Stage = "draft" /\ Stage' = Stage
    BY <2>1 DEF Stage, BInv, HInv, Held
  <2>3. \A u \in Units : Choice(u)' = Choice(u)
    BY <2>1, SameChoice
  <2>4. Rows(question)' \in SUBSET Questions /\ Rows(question) \subseteq Rows(question)'
    BY <1>4, ConstantsAssumption DEF ReplaceInsert, Rows
  <2>5. Box!Put
    BY <2>2, <2>3, <2>4 DEF Box!Put, Stage
  <2>6. QED
    BY <2>5 DEF Box!BNext
<1>5. QED
  BY <1>2, <1>3, <1>4 DEF Update

\* A ballot goes into the box when the old votes are deleted, the new ones being the choice
\* from then on.
LEMMA CastBox ==
  ASSUME OneAtATime, BInv, BInv', NEW w \in Workers, Cast(w)
  PROVE  Box!BNext \/ UNCHANGED Box!bvars
<1>1. req[w] \in Request /\ req \in [Workers -> Request] /\ WellFormed(req[w])
  BY DEF BInv, HInv, TInv, TypeOK
<1>2. UNCHANGED <<poll, question>>
  BY DEF Cast, CastRead, CastMerge, CastClear, CastDelete, CastInsert
<1>3. Stage' = Stage /\ Rows(question)' = Rows(question)
  BY <1>2 DEF Stage, Rows
<1>4. ASSUME NEW u \in Units, NEW ids \in SUBSET Options, NEW any \in BOOLEAN,
             CastRead(w, u, ids, any)
      PROVE  UNCHANGED Box!bvars
  <2>1. req[w].pc = "idle" /\ req'[w].pc = "cast_merge" /\ votes' = votes
    BY <1>1, <1>4 DEF CastRead, Start, Idle
  <2>2. QED
    BY <1>3, <2>1, SameChoice, SameBox
<1>5. CASE CastMerge(w) \/ CastClear(w)
  <2>1. /\ req[w].pc \in {"cast_merge", "cast_clear"} /\ votes' = votes
        /\ req'[w].pc \in {"cast_clear", "cast_delete"}
    BY <1>1, <1>5 DEF CastMerge, CastClear, Continue, Request
  <2>2. QED
    BY <1>3, <2>1, SameChoice, SameBox
<1>6. CASE CastDelete(w)
  <2>1. /\ req[w].pc = "cast_delete" /\ req'[w].pc = "cast_insert"
        /\ req'[w].unit = req[w].unit /\ req'[w].ids = req[w].ids
    BY <1>1, <1>6 DEF CastDelete, Continue, Request
  <2>2. PICK n \in Units, ids \in SUBSET Options : req[w].unit = n /\ req[w].ids = ids
    BY <1>1, <2>1 DEF WellFormed, Request
  <2>3. votes' = {v \in votes : v[1] # n}
    BY <1>6, <2>2 DEF CastDelete
  <2>4. VoteOf(n)' = {} /\ \A u \in Units : u # n => VoteOf(u)' = VoteOf(u)
    BY <2>3 DEF VoteOf
  <2>5. \A u \in Units : /\ Choice(u) = VoteOf(u)
                         /\ Choice(u)' = VoteOf(u)' \cup (IF n = u THEN ids ELSE {})
    BY <2>1, <2>2, NoBallot, OneChoice DEF VoteOf
  <2>6. Choice(n)' = ids /\ \A u \in Units : u # n => Choice(u)' = Choice(u)
    BY <2>4, <2>5
  <2>7. /\ ids # {} /\ Named(ids) \subseteq Rows(question)
        /\ \A a, b \in ids : QuestionOf[a] = QuestionOf[b] /\ a # b => QuestionOf[a] \in Multiple
        /\ Named(VoteOf(n)) \subseteq Named(ids)
        /\ Stage \in {"draft", "open", "closed"}
    BY <2>1, <2>2 DEF BInv, Sealed, HInv, Held, Stage
  <2>8. Choice(n)' = ids \cup {o \in Choice(n) : QuestionOf[o] \notin Named(ids)}
    BY <2>5, <2>6, <2>7 DEF Named
  <2>9. [u \in Units |-> Choice(u)]' =
          [[u \in Units |-> Choice(u)] EXCEPT
             ![n] = ids \cup {o \in @ : QuestionOf[o] \notin Named(ids)}]
    BY <2>6, <2>8
  <2>10. Box!Vote(n, ids)
    BY <1>3, <2>7, <2>9 DEF Box!Vote, Box!Named, Named, Stage
  <2>11. QED
    BY <2>2, <2>10 DEF Box!BNext
<1>7. CASE CastInsert(w)
  <2>1. /\ req[w].pc = "cast_insert" /\ req'[w].pc = "idle"
        /\ votes' = votes \cup ({req[w].unit} \X req[w].ids)
    BY <1>1, <1>7, IdleIsRequest DEF CastInsert, Finish
  <2>2. PICK n \in Units, ids \in SUBSET Options : req[w].unit = n /\ req[w].ids = ids
    BY <1>1, <2>1 DEF WellFormed, Request
  <2>3. \A u \in Units : VoteOf(u)' = VoteOf(u) \cup (IF n = u THEN ids ELSE {})
    BY <2>1, <2>2 DEF VoteOf
  <2>4. ASSUME NEW u \in Units PROVE Choice(u)' = Choice(u)
    <3>1. Choice(u) = VoteOf(u) \cup (IF n = u THEN ids ELSE {})
      BY <2>1, <2>2, OneChoice
    <3>2. Choice(u)' = VoteOf(u)'
      BY <2>1, NoBallotNext
    <3>3. QED
      BY <2>3, <3>1, <3>2
  <2>5. QED
    BY <1>3, <2>4, SameBox
<1>8. QED
  BY <1>4, <1>5, <1>6, <1>7 DEF Cast

LEMMA AbstainBox ==
  ASSUME OneAtATime, BInv, NEW w \in Workers, Abstain(w)
  PROVE  Box!BNext \/ UNCHANGED Box!bvars
<1>1. req[w] \in Request /\ req \in [Workers -> Request] /\ WellFormed(req[w])
  BY DEF BInv, HInv, TInv, TypeOK
<1>2. UNCHANGED <<poll, question>>
  BY DEF Abstain, AbstainRead, AbstainVotes, AbstainClear, AbstainInsert
<1>3. Stage' = Stage /\ Rows(question)' = Rows(question)
  BY <1>2 DEF Stage, Rows
<1>4. ASSUME NEW u \in Units, NEW q \in Questions, AbstainRead(w, u, q)
      PROVE  UNCHANGED Box!bvars
  <2>1. req[w].pc = "idle" /\ req'[w].pc = "abstain_votes" /\ votes' = votes
    BY <1>1, <1>4 DEF AbstainRead, Start, Idle
  <2>2. QED
    BY <1>3, <2>1, SameChoice, SameBox
<1>5. CASE AbstainVotes(w)
  <2>1. req[w].pc = "abstain_votes" /\ req'[w].pc = "abstain_clear"
    BY <1>1, <1>5 DEF AbstainVotes, Continue, Request
  <2>2. PICK q \in Questions, n \in Units : req[w].ids = OptionsOf(q) /\ req[w].unit = n
    BY <1>1, <2>1 DEF WellFormed, Request
  <2>3. Stage = "closed"
    BY <2>1 DEF BInv, HInv, Held, Stage
  <2>4. votes' = votes \ ({n} \X OptionsOf(q))
    BY <1>5, <2>2 DEF AbstainVotes, Withdrawn
  <2>5. /\ VoteOf(n)' = {o \in VoteOf(n) : QuestionOf[o] # q}
        /\ \A u \in Units : u # n => VoteOf(u)' = VoteOf(u)
    BY <2>4 DEF VoteOf, OptionsOf
  <2>6. \A u \in Units : Choice(u) = VoteOf(u) /\ Choice(u)' = VoteOf(u)'
    BY <2>1, NoBallot, NoBallotNext
  <2>7. [u \in Units |-> Choice(u)]' =
          [[u \in Units |-> Choice(u)] EXCEPT ![n] = {o \in @ : QuestionOf[o] # q}]
    BY <2>5, <2>6
  <2>8. Box!Withdraw(n, q)
    BY <1>3, <2>3, <2>7 DEF Box!Withdraw, Stage
  <2>9. QED
    BY <2>2, <2>8 DEF Box!BNext
<1>6. CASE AbstainClear(w) \/ AbstainInsert(w)
  <2>1. /\ req[w].pc \in {"abstain_clear", "abstain_insert"} /\ votes' = votes
        /\ req'[w].pc \in {"abstain_insert", "idle"}
    BY <1>1, <1>6, IdleIsRequest DEF AbstainClear, AbstainInsert, Continue, Finish, Request
  <2>2. QED
    BY <1>3, <2>1, SameChoice, SameBox
<1>7. QED
  BY <1>4, <1>5, <1>6 DEF Abstain

\* A handler that fails between the delete and the insert loses the choice of its unit.
LEMMA FailBox ==
  ASSUME OneAtATime, BInv, NEW w \in Workers, Fail(w)
  PROVE  Box!BNext \/ UNCHANGED Box!bvars
<1>1. req[w] \in Request /\ req \in [Workers -> Request] /\ WellFormed(req[w])
  BY DEF BInv, HInv, TInv, TypeOK
<1>2. UNCHANGED <<poll, question, votes>> /\ req'[w].pc = "idle"
  BY <1>1, IdleIsRequest DEF Fail, Finish
<1>3. Stage' = Stage /\ Rows(question)' = Rows(question)
  BY <1>2 DEF Stage, Rows
<1>4. CASE req[w].pc # "cast_insert"
  BY <1>2, <1>3, <1>4, SameChoice, SameBox
<1>5. CASE req[w].pc = "cast_insert"
  <2>1. PICK n \in Units : req[w].unit = n
    BY <1>1, <1>5 DEF WellFormed, Request
  <2>2. VoteOf(n) = {} /\ Stage \in {"draft", "open", "closed"}
    BY <1>5, <2>1 DEF BInv, HInv, Held, Sealed, Stage
  <2>3. \A u \in Units : VoteOf(u)' = VoteOf(u)
    BY <1>2 DEF VoteOf
  <2>4. \A u \in Units : Choice(u)' = VoteOf(u)'
    BY <1>2, NoBallotNext
  <2>5. ASSUME NEW u \in Units, u # n PROVE Choice(u) = VoteOf(u)
    BY <1>5, <2>1, <2>5 DEF Choice, OneAtATime
  <2>6. [u \in Units |-> Choice(u)]' = [[u \in Units |-> Choice(u)] EXCEPT ![n] = {}]
    BY <2>2, <2>3, <2>4, <2>5
  <2>7. Box!Lose(n)
    BY <1>3, <2>2, <2>6 DEF Box!Lose, Stage
  <2>8. QED
    BY <2>7 DEF Box!BNext
<1>6. QED
  BY <1>4, <1>5

LEMMA NextBox ==
  ASSUME OneAtATime, BInv, BInv', [Next]_vars
  PROVE  Box!BNext \/ UNCHANGED Box!bvars
<1>1. ASSUME NEW type \in Types, NEW form \in Forms \cup {{}}, Create(type, form)
      PROVE  Box!BNext
  <2>1. Stage = "none" /\ Stage' = "draft"
    BY <1>1, ConstantsAssumption DEF Create, Stage, Row, Statuses
  <2>2. votes' = {} /\ \A w \in Workers : req'[w].pc = "idle"
    BY <1>1 DEF Create, BInv, HInv, Held, VotesListed
  <2>3. \A u \in Units : Choice(u)' = {}
    BY <2>2 DEF Choice, VoteOf
  <2>4. Box!Advance
    BY <2>1, <2>3 DEF Box!Advance, Box!Successors, Stage
  <2>5. QED
    BY <2>4 DEF Box!BNext
<1>2. ASSUME NEW w \in Workers,
             Lifecycle(w) \/ Decide(w) \/ Update(w) \/ Cast(w) \/ Abstain(w) \/ Fail(w)
      PROVE  Box!BNext \/ UNCHANGED Box!bvars
  BY <1>2, LifecycleBox, DecideBox, UpdateBox, CastBox, AbstainBox, FailBox
<1>3. CASE UNCHANGED vars
  BY <1>3 DEF vars, Box!bvars, Rows, Choice, VoteOf
<1>4. QED
  BY <1>1, <1>2, <1>3 DEF Next

LEMMA InitBox == Init => Box!BInit
<1>1. ASSUME Init PROVE Stage = "none" /\ Rows(question) = {} /\ \A u \in Units : Choice(u) = {}
  BY <1>1, IdleIsRequest DEF Init, Stage, NoQuestions, Rows, Choice, VoteOf
<1>2. QED
  BY <1>1 DEF Stage, Box!BInit

\* With requests one at a time and updates that leave the status alone, the statements of the
\* handlers together behave as a ballot box, wherever one of them fails: a vote is changed in
\* one step, keeps the answers to the questions it does not name, and a failure loses the
\* choice of its own unit at most.
THEOREM SerialBallotBox ==
  ASSUME OneAtATime, IsFiniteSet(Options), Overrides = {}
  PROVE  Spec => ImplementsBallotBox
<1>1. BInv /\ [Next]_vars => BInv'
  BY NextSeals
<1>2. BInv /\ BInv' /\ [Next]_vars => [Box!BNext]_(Box!bvars)
  BY NextBox
<1>3. QED
  BY <1>1, <1>2, InitSeals, InitBox, PTL DEF Spec, ImplementsBallotBox, Box!BSpec
=============================================================================
