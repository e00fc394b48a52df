SPECIFICATION Spec
CONSTANTS
  u1 = u1
  u2 = u2
  Units = {u1}
  NMonths = 2
  Amounts = {0, 1, 2}
  Advances = {1, 3}
  Incomes <- MCIncomes
  DueDates = {"day10"}
  DueDay10 = "day10"
  Receipts = {r1, r2}
  None = None
  Workers = {w1}
  Ids = {i1, i2, i3, i4}
  MaxCredit = 4
  MaxReopens = 1
SYMMETRY Symmetry
CONSTRAINT ReceiptsOfFirstMonth
INVARIANTS TypeOK LedgerExact NoOverspend CreditConserved ReceiptOnFile
PROPERTIES PaidUntilReopened FreePaymentIsCovered FifoRespected CreditConsumedOnlyWithPayment
