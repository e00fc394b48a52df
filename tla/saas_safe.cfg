SPECIFICATION Spec
CONSTANTS
  None = None
  Charges = {c1, c2}
  Admins = {w1}
  Hooks = {}
  Crons = {w2}
  Patches = {}
  MaxMonth = 1
  MaxDay = 0
  Period = 1
  GenerateBefore = 1
  SuspendAfter = 1
  MaxFaults = 2
  AnswersLost = FALSE
SYMMETRY Symmetry
CHECK_DEADLOCK FALSE
INVARIANTS TypeOK OnePaymentPerMonth
