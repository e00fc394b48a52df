---------------------------- MODULE MCFeeCharges ----------------------------
(***************************************************************************)
(* Small instances of FeeCharges for TLC.                                  *)
(***************************************************************************)
EXTENDS FeeCharges, TLC

CONSTANTS u1, u2

MCIncomes == {[unit |-> u1, share |-> 2]}

Symmetry == Permutations(Ids) \cup Permutations(Workers) \cup Permutations(Receipts)

\* Receipts are followed while only the first month is closed.
ReceiptsOfFirstMonth ==
    (\E r \in Receipts : files[r] # "absent") => \A k \in Keys : k[2] > 1 => charge[k] = None
=============================================================================
