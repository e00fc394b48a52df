---------------------------- MODULE MCPollVoting ----------------------------
(***************************************************************************)
(* Small instances of PollVoting for TLC.                                  *)
(***************************************************************************)
EXTENDS PollVoting, TLC

CONSTANTS a1, a2, b1, b2

\* Two questions asked together.
MCQuestionOf == [o \in Options |-> IF o \in {a1, a2} THEN "a" ELSE "b"]

Symmetry == Permutations(Units) \cup Permutations(Workers)
               \cup Permutations({a1, a2}) \cup Permutations({b1, b2})
=============================================================================
