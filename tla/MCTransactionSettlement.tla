----------------------- MODULE MCTransactionSettlement -----------------------
(***************************************************************************)
(* Small instances of TransactionSettlement for TLC.                       *)
(***************************************************************************)
EXTENDS TransactionSettlement, TLC

Symmetry ==
    Permutations(Txs) \cup Permutations(Units) \cup Permutations(Receipts) \cup Permutations(Workers)
==============================================================================
