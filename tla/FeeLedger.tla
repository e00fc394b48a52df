------------------------------ MODULE FeeLedger ------------------------------
(***************************************************************************)
(* What the fee charges and the credit ledger promise to a unit, without   *)
(* requests, snapshots or rows: credit is paid in, held by a charge while  *)
(* the charge is paid, and given back, exactly once, when the payment is   *)
(* reopened.  Only charges that are not paid can leave the books.          *)
(***************************************************************************)
EXTENDS Integers

CONSTANTS Charges,        \* the charges that can exist
          Units,
          Deposits,       \* the amounts a unit can pay in
          UnitOf(_)       \* the unit a charge bills

VARIABLES status,         \* charge -> "none", "open" or "paid"
          held,           \* charge -> the credit it holds
          funds           \* unit -> the credit it can still use

lvars == <<status, held, funds>>

LTypeOK ==
    /\ status \in [Charges -> {"none", "open", "paid"}]
    /\ held \in [Charges -> Nat]
    /\ funds \in [Units -> Nat]

LInit ==
    /\ status = [c \in Charges |-> "none"]
    /\ held = [c \in Charges |-> 0]
    /\ funds = [u \in Units |-> 0]

Deposit(u) ==
    /\ \E amount \in Deposits : funds' = [funds EXCEPT ![u] = @ + amount]
    /\ UNCHANGED <<status, held>>

Bill(c) ==
    /\ status[c] = "none"
    /\ status' = [status EXCEPT ![c] = "open"]
    /\ UNCHANGED <<held, funds>>

Withdraw(cs) ==
    /\ \A c \in cs : status[c] # "paid"
    /\ status' = [c \in Charges |-> IF c \in cs THEN "none" ELSE status[c]]
    /\ UNCHANGED <<held, funds>>

Pay(c) ==
    /\ status[c] = "open"
    /\ \E credit \in 0 .. funds[UnitOf(c)] :
          /\ held' = [held EXCEPT ![c] = credit]
          /\ funds' = [funds EXCEPT ![UnitOf(c)] = @ - credit]
    /\ status' = [status EXCEPT ![c] = "paid"]

GiveBack(c) ==
    /\ status[c] = "paid"
    /\ status' = [status EXCEPT ![c] = "open"]
    /\ held' = [held EXCEPT ![c] = 0]
    /\ funds' = [funds EXCEPT ![UnitOf(c)] = @ + held[c]]

LNext ==
    \/ \E u \in Units : Deposit(u)
    \/ \E c \in Charges : Bill(c) \/ Pay(c) \/ GiveBack(c)
    \/ \E cs \in SUBSET Charges : Withdraw(cs)

LSpec == LInit /\ [][LNext]_lvars
=============================================================================
