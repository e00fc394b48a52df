----------------------------- MODULE BallotBox -----------------------------
(***************************************************************************)
(* What a poll promises to the units of a condominium: a box with one      *)
(* choice per unit, which the unit can change in the questions it names,   *)
(* in one step, until the matter is settled.                               *)
(***************************************************************************)
EXTENDS FiniteSets

CONSTANTS Units, Questions, Options, QuestionOf, Multiple

VARIABLES
    status,    \* the stage of the assembly, "none" without a poll
    open,      \* the questions put to the vote
    choice     \* unit -> the options it chose

bvars == <<status, open, choice>>

Named(ids) == {QuestionOf[o] : o \in ids}

BInit == status = "none" /\ open = {} /\ choice = [u \in Units |-> {}]

\* The unit answers some questions and keeps its answers to the others.
Vote(u, ids) ==
    /\ status \in {"draft", "open", "closed"}
    /\ ids # {} /\ Named(ids) \subseteq open
    /\ \A a, b \in ids : QuestionOf[a] = QuestionOf[b] /\ a # b => QuestionOf[a] \in Multiple
    /\ choice' = [choice EXCEPT ![u] = ids \cup {o \in @ : QuestionOf[o] \notin Named(ids)}]
    /\ UNCHANGED <<status, open>>

\* A unit abstains in a question.
Withdraw(u, q) ==
    /\ status = "closed"
    /\ choice' = [choice EXCEPT ![u] = {o \in @ : QuestionOf[o] # q}]
    /\ UNCHANGED <<status, open>>

\* A vote that fails half-way leaves the unit without a choice.
Lose(u) ==
    /\ status \in {"draft", "open", "closed"}
    /\ choice' = [choice EXCEPT ![u] = {}]
    /\ UNCHANGED <<status, open>>

\* A draft is prepared: the box is emptied, then its questions are exchanged.
Empty ==
    /\ status = "draft"
    /\ choice' = [u \in Units |-> {}]
    /\ open' \in {open, {}}
    /\ UNCHANGED status

Put ==
    /\ status = "draft"
    /\ open' \in SUBSET Questions /\ open \subseteq open'
    /\ UNCHANGED <<status, choice>>

Successors ==
    [none |-> {"draft"}, draft |-> {"open", "none"}, open |-> {"closed"},
     closed |-> {"decided", "postponed", "withdrawn"}, postponed |-> {"draft"},
     decided |-> {}, withdrawn |-> {}]

\* The stage changes; only a poll that appears or disappears changes the rest.
Advance ==
    /\ status' \in Successors[status]
    /\ IF "none" \in {status, status'} THEN choice' = [u \in Units |-> {}]
       ELSE UNCHANGED <<open, choice>>

BNext ==
    \/ \E u \in Units, ids \in SUBSET Options : Vote(u, ids)
    \/ \E u \in Units, q \in Questions : Withdraw(u, q)
    \/ \E u \in Units : Lose(u)
    \/ Empty \/ Put \/ Advance

BSpec == BInit /\ [][BNext]_bvars
=============================================================================
