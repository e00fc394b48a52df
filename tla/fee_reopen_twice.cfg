SPECIFICATION Spec
CONSTANTS
  u1 = u1
  u2 = u2
  Units = {u1}
  NMonths = 1
  Amounts = {1}
  Advances = {1}
  Incomes = {}
  DueDates = {"day10"}
  DueDay10 = "day10"
  Receipts = {}
  None = None
  Workers = {w1}
  Ids = {i1, i2, i3, i4}
  MaxCredit = 2
  MaxReopens = 2
SYMMETRY Symmetry
INVARIANTS NoCreditMinted
