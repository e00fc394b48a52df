SPECIFICATION Spec
CONSTANTS
  None = None
  Keep = Keep
  Txs = {t1}
  Units = {a}
  Kinds = {"expense"}
  Amounts = {1}
  Receipts = {r1, r2}
  Workers = {w1}
  MaxReopens = 1
  MaxGiven = 2
SYMMETRY Symmetry
CHECK_DEADLOCK FALSE
INVARIANTS ReceiptOnFile
