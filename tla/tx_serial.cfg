SPECIFICATION Spec
CONSTANTS
  None = None
  Keep = Keep
  Txs = {t1, t2}
  Units = {a, b}
  Kinds = {"expense"}
  Amounts = {1, 2}
  Receipts = {r1, r2}
  Workers = {w1}
  MaxReopens = 1
  MaxGiven = 2
SYMMETRY Symmetry
CHECK_DEADLOCK FALSE
INVARIANTS TypeOK CreditExact BalanceIsNet
PROPERTIES StatusMoves PaidNotRemoved ImplementsBook CreditOnlyWithStatus
