SPECIFICATION Spec
CONSTANTS
  u1 = u1
  u2 = u2
  Units = {u1, u2}
  NMonths = 1
  Amounts = {0, 2}
  Advances = {2}
  Incomes <- MCIncomes
  DueDates = {"day10", "moved"}
  DueDay10 = "day10"
  Receipts = {}
  None = None
  Workers = {w1}
  Ids = {i1, i2, i3, i4}
  MaxCredit = 2
  MaxReopens = 1
SYMMETRY Symmetry
PROPERTIES ImplementsLedger
