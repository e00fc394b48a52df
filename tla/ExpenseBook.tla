----------------------------- MODULE ExpenseBook -----------------------------
(***************************************************************************)
(* What settling the transactions of the condominium promises: an expense  *)
(* is open to changes until it is paid or cancelled, a unit may pay it for *)
(* the condominium, and the condominium owes the unit exactly that amount  *)
(* until the payment is reopened.                                          *)
(***************************************************************************)
EXTENDS Integers

CONSTANTS Expenses, Units, Amounts,
          None              \* the condominium itself paid

VARIABLES status,           \* "new", "pending", "paid", "cancelled" or "gone"
          amount,           \* 0 for an expense that does not exist
          payer,            \* the unit that paid, or None
          owed              \* unit -> what the condominium owes it

bvars == <<status, amount, payer, owed>>

BInit ==
    /\ status = [e \in Expenses |-> "new"]
    /\ amount = [e \in Expenses |-> 0]
    /\ payer = [e \in Expenses |-> None]
    /\ owed = [u \in Units |-> 0]

Record(e, cents) ==
    /\ status[e] = "new"
    /\ status' = [status EXCEPT ![e] = "pending"]
    /\ amount' = [amount EXCEPT ![e] = cents]
    /\ UNCHANGED <<payer, owed>>

Change(e, cents) ==
    /\ status[e] = "pending"
    /\ amount' = [amount EXCEPT ![e] = cents]
    /\ UNCHANGED <<status, payer, owed>>

Pay(e, by) ==
    /\ status[e] = "pending"
    /\ status' = [status EXCEPT ![e] = "paid"]
    /\ payer' = [payer EXCEPT ![e] = by]
    /\ owed' = [u \in Units |-> owed[u] + IF u = by THEN amount[e] ELSE 0]
    /\ UNCHANGED amount

Unpay(e) ==
    /\ status[e] = "paid"
    /\ status' = [status EXCEPT ![e] = "pending"]
    /\ payer' = [payer EXCEPT ![e] = None]
    /\ owed' = [u \in Units |-> owed[u] - IF u = payer[e] THEN amount[e] ELSE 0]
    /\ UNCHANGED amount

Annul(e) ==
    /\ status[e] = "pending"
    /\ status' = [status EXCEPT ![e] = "cancelled"]
    /\ UNCHANGED <<amount, payer, owed>>

Drop(e) ==
    /\ status[e] \in {"pending", "cancelled"}
    /\ status' = [status EXCEPT ![e] = "gone"]
    /\ amount' = [amount EXCEPT ![e] = 0]
    /\ UNCHANGED <<payer, owed>>

BNext ==
    \E e \in Expenses :
        \/ \E cents \in Amounts : Record(e, cents) \/ Change(e, cents)
        \/ \E by \in Units \cup {None} : Pay(e, by)
        \/ Unpay(e) \/ Annul(e) \/ Drop(e)

BSpec == BInit /\ [][BNext]_bvars
=============================================================================
